------------------------- MODULE AssociationsProofs -------------------------
(***************************************************************************)
(* Proofs about Associations, for any number of memories, requests and     *)
(* batches of any size.                                                    *)
(***************************************************************************)
EXTENDS Associations, TLAPS

USE AssociationsAssumption

-----------------------------------------------------------------------------
(* Arithmetic of the clamp, and partial functions.                         *)

(* Every number is clamped to a strength.                                  *)
LEMMA ClampType == ASSUME NEW w \in Int PROVE Clamp(w) \in 0..Full
  BY DEF Clamp

(* Adding a gain never lowers a strength, and gives at least the gain.     *)
LEMMA ClampGrows ==
  ASSUME NEW w \in 0..Full, NEW g \in 0..Full
  PROVE  w <= Clamp(w + g) /\ g <= Clamp(w + g)
  BY DEF Clamp

(* The sum of a smaller strength is at most that of a greater one, also    *)
(* when the second bump is clamped beforehand.                             *)
LEMMA ClampMonotonic ==
  ASSUME NEW v \in 0..Full, NEW w \in 0..Full, v <= w, NEW b \in Int
  PROVE  Clamp(v + b) <= Clamp(w + Clamp(b))
  BY DEF Clamp

(* A function on a set of ids is one of the partial functions on ids.      *)
LEMMA PartialIntro ==
  ASSUME NEW T, NEW S \in SUBSET Id, NEW f \in [S -> T]
  PROVE  f \in UNION {[R -> T] : R \in SUBSET Id}
  OBVIOUS

(* A partial function on ids has a set of ids as its domain.               *)
LEMMA PartialElim ==
  ASSUME NEW T, NEW f \in UNION {[R -> T] : R \in SUBSET Id}
  PROVE  DOMAIN f \in SUBSET Id /\ f \in [DOMAIN f -> T]
  OBVIOUS

-----------------------------------------------------------------------------
(* The inductive invariant.                                                *)

(* The edges that exist or that a request removed: what a chain has linked *)
(* stays in this set.                                                      *)
Links == DOMAIN weight \cup cut

(* A chain is at a pair of its ids; a batch links both ways.               *)
Positioned(s) ==
    /\ 1 <= s.i /\ s.i < s.j /\ s.j <= Len(s.ids)
    /\ s.op = "batch" => s.both

(* Every pair before the one a chain is at has been linked both ways, and  *)
(* on the way back that pair one way.                                      *)
Covered(s, L) ==
    /\ \A p, q \in DOMAIN s.ids :
          p < q /\ (p < s.i \/ (p = s.i /\ q < s.j)) =>
             <<s.ids[p], s.ids[q]>> \in L /\ <<s.ids[q], s.ids[p]>> \in L
    /\ s.back => <<s.ids[s.i], s.ids[s.j]>> \in L

(* The weight about to be written is at most what the edge will have been  *)
(* given then, although other requests may have changed the edge since it  *)
(* was read.                                                               *)
Funded(s, given) == s.new <= Clamp(given[EdgeAt(s)] + Clamp(s.bump))

ChainTrue(s, L, given) ==
    s.pc \in {"link_read", "link_write"} =>
        /\ Positioned(s)
        /\ s.op = "batch" => Covered(s, L)
        /\ s.pc = "link_write" => Funded(s, given)

(* A search holds ids that were minted, and stabilities that their         *)
(* memories have been given.                                               *)
BoostsTrue(s, M, given) ==
    /\ s.pc = "search_read" => s.hits \subseteq M
    /\ s.pc = "search_boost" => \A i \in DOMAIN s.boosts : i \in M /\ s.boosts[i] <= given[i]

CarriedTrue ==
    /\ \A t \in Tasks : ChainTrue(task[t], Links, earned)
    /\ \A t \in Tasks : BoostsTrue(task[t], minted, granted)

IInv == TypeOK /\ CarriedTrue /\ BatchLinked /\ NothingUnearned /\ UndatedIsTag

(* What a step may do to the histories: nothing is ever taken back.        *)
Grows ==
    /\ Links \subseteq Links'
    /\ minted \subseteq minted'
    /\ \A e \in Edge : earned[e] <= earned'[e]
    /\ \A i \in minted : granted[i] <= granted'[i]

(* The empty tables satisfy the invariant.                                 *)
LEMMA InitIInv == Init => IInv
  <1> SUFFICES ASSUME Init PROVE IInv
    OBVIOUS
  <1> USE DEF Init
  <1>1. TypeOK
    <2>1. weight \in [DOMAIN weight -> 0..Full] /\ DOMAIN weight = {}
      OBVIOUS
    <2>2. requests \in 0..MaxRequests
      OBVIOUS
    <2> QED BY <2>1, <2>2 DEF TypeOK, TaskState
  <1>2. CarriedTrue
    BY DEF CarriedTrue, ChainTrue, BoostsTrue, Idle
  <1>3. BatchLinked /\ NothingUnearned /\ UndatedIsTag
    BY DEF BatchLinked, NothingUnearned, UndatedIsTag
  <1> QED BY <1>1, <1>2, <1>3 DEF IInv

(* The edge of a chain joins two ids.                                      *)
LEMMA EdgeAtType ==
  ASSUME NEW s \in Chain, Positioned(s)
  PROVE  EdgeAt(s) \in Edge
  BY DEF Chain, Positioned, EdgeAt, Edge

(* The stage of a request determines the shape of its record.              *)
LEMMA StageShape ==
  ASSUME NEW s \in TaskState
  PROVE  /\ s.pc \in {"link_read", "link_write"} => s \in Chain
         /\ s.pc = "batch_insert" =>
               s \in [pc : {"batch_insert"}, ids : Seq(Id), size : 0..BatchSize, bump : Strengths]
         /\ s.pc = "store_search" => s.new \in Id
         /\ s.pc = "store_tag" =>
               /\ s.new \in Id /\ s.near \subseteq Id
               /\ s.tags \in UNION {[S -> TagWeights] : S \in SUBSET Id}
         /\ s.pc \in {"search_read", "search_boost", "search_strengthen"} => s.hits \subseteq Id
         /\ s.pc = "search_boost" => s.boosts \in UNION {[S -> 0..Full] : S \in SUBSET Id}
  <1> DEFINE B == [pc : {"batch_insert"}, ids : Seq(Id), size : 0..BatchSize, bump : Strengths]
             N == [pc : {"store_search"}, new : Id]
             G == [pc : {"store_tag"}, new : Id, near : SUBSET Id,
                   tags : UNION {[S -> TagWeights] : S \in SUBSET Id}]
             R == [pc : {"search_read"}, hits : SUBSET Id]
             O == [pc : {"search_boost"}, hits : SUBSET Id,
                   boosts : UNION {[S -> 0..Full] : S \in SUBSET Id}]
             H == [pc : {"search_strengthen"}, hits : SUBSET Id]
  <1>1. s = Idle \/ s \in B \/ s \in Chain \/ s \in N \/ s \in G \/ s \in R \/ s \in O \/ s \in H
    <2> HIDE DEF B, N, G, R, O, H
    <2> QED BY DEF TaskState, B, N, G, R, O, H
  <1>2. /\ s = Idle => s.pc = "idle"
        /\ s \in B => s.pc = "batch_insert"
        /\ s \in Chain => s.pc \in {"link_read", "link_write"}
        /\ s \in N => s.pc = "store_search" /\ s.new \in Id
    BY DEF Idle, Chain
  <1>3. s \in G => /\ s.pc = "store_tag" /\ s.new \in Id /\ s.near \subseteq Id
                   /\ s.tags \in UNION {[S -> TagWeights] : S \in SUBSET Id}
    OBVIOUS
  <1>4. /\ s \in R => s.pc = "search_read" /\ s.hits \subseteq Id
        /\ s \in H => s.pc = "search_strengthen" /\ s.hits \subseteq Id
    OBVIOUS
  <1>5. s \in O => /\ s.pc = "search_boost" /\ s.hits \subseteq Id
                   /\ s.boosts \in UNION {[S -> 0..Full] : S \in SUBSET Id}
    OBVIOUS
  <1> HIDE DEF N, G, R, O, H
  <1> QED BY <1>1, <1>2, <1>3, <1>4, <1>5

(* What a chain carries stays true when the histories grow.                *)
LEMMA ChainStays ==
  ASSUME NEW s \in TaskState, NEW L, NEW M, L \subseteq M,
         NEW f \in [Edge -> 0..Full], NEW g \in [Edge -> 0..Full],
         \A e \in Edge : f[e] <= g[e],
         ChainTrue(s, L, f)
  PROVE  ChainTrue(s, M, g)
  <1> SUFFICES ASSUME s.pc \in {"link_read", "link_write"}
               PROVE  ChainTrue(s, M, g)
    BY DEF ChainTrue
  <1>1. s \in Chain
    BY StageShape
  <1>2. Positioned(s)
    BY DEF ChainTrue
  <1>3. s.op = "batch" => Covered(s, M)
    BY DEF ChainTrue, Covered
  <1>4. ASSUME s.pc = "link_write" PROVE Funded(s, g)
    <2> DEFINE e == EdgeAt(s)
    <2>1. e \in Edge
      BY <1>1, <1>2, EdgeAtType
    <2>2. s.new <= Clamp(f[e] + Clamp(s.bump))
      BY <1>4 DEF ChainTrue, Funded
    <2>3. s.bump \in Int /\ s.new \in 0..Full
      BY <1>1 DEF Chain
    <2>4. Clamp(s.bump) \in 0..Full
      BY <2>3, ClampType
    <2> HIDE DEF e
    <2>5. Clamp(f[e] + Clamp(s.bump)) <= Clamp(g[e] + Clamp(s.bump))
      BY <2>1, <2>4 DEF Clamp
    <2>6. f[e] + Clamp(s.bump) \in Int /\ g[e] + Clamp(s.bump) \in Int
      BY <2>1, <2>4
    <2>7. s.new <= Clamp(g[e] + Clamp(s.bump))
      BY <2>2, <2>3, <2>5, <2>6, ClampType
    <2> QED BY <2>7 DEF Funded, e
  <1> QED BY <1>2, <1>3, <1>4 DEF ChainTrue

(* What a search carries stays true when the histories grow.               *)
LEMMA BoostsStay ==
  ASSUME NEW s \in TaskState, NEW M \in SUBSET Id, NEW N \in SUBSET Id, M \subseteq N,
         NEW f \in [Id -> 0..Full], NEW g \in [Id -> 0..Full],
         \A i \in M : f[i] <= g[i],
         BoostsTrue(s, M, f)
  PROVE  BoostsTrue(s, N, g)
  <1>1. s.pc = "search_read" => s.hits \subseteq N
    BY DEF BoostsTrue
  <1>2. ASSUME s.pc = "search_boost", NEW i \in DOMAIN s.boosts
        PROVE  i \in N /\ s.boosts[i] <= g[i]
    <2>1. s.boosts \in UNION {[S -> 0..Full] : S \in SUBSET Id}
      BY <1>2, StageShape
    <2>2. s.boosts[i] \in 0..Full
      BY <1>2, <2>1, PartialElim
    <2>3. i \in M /\ s.boosts[i] <= f[i]
      BY <1>2 DEF BoostsTrue
    <2> QED BY <2>2, <2>3
  <1> QED BY <1>1, <1>2 DEF BoostsTrue

(* A step in which one request moves on to a record that is true, while    *)
(* the histories grow, leaves every request with a true record.            *)
LEMMA CarriedStep ==
  ASSUME TypeOK, CarriedTrue, Grows, NEW t \in Tasks, NEW s \in TaskState,
         Goto(t, s),
         minted' \subseteq Id, earned' \in [Edge -> 0..Full], granted' \in [Id -> 0..Full],
         ChainTrue(s, Links', earned'), BoostsTrue(s, minted', granted')
  PROVE  CarriedTrue' /\ task' \in [Tasks -> TaskState]
  <1>0. /\ task \in [Tasks -> TaskState] /\ minted \subseteq Id
        /\ earned \in [Edge -> 0..Full] /\ granted \in [Id -> 0..Full]
    BY DEF TypeOK
  <1>1. task' = [task EXCEPT ![t] = s] /\ task' \in [Tasks -> TaskState]
    BY <1>0 DEF Goto
  <1>2. \A u \in Tasks : ChainTrue(task[u], Links', earned')
    BY <1>0, ChainStays DEF CarriedTrue, Grows
  <1>3. \A u \in Tasks : BoostsTrue(task[u], minted', granted')
    BY <1>0, BoostsStay DEF CarriedTrue, Grows
  <1>4. \A u \in Tasks : /\ ChainTrue(task'[u], Links', earned')
                         /\ BoostsTrue(task'[u], minted', granted')
    <2> TAKE u \in Tasks
    <2>1. task'[u] = IF u = t THEN s ELSE task[u]
      BY <1>0, <1>1
    <2> QED BY <1>2, <1>3, <2>1
  <1> QED BY <1>1, <1>4 DEF CarriedTrue

(* The same for a step of a request that holds no record.                  *)
LEMMA CarriedAlways ==
  ASSUME TypeOK, CarriedTrue, Grows, UNCHANGED task,
         minted' \subseteq Id, earned' \in [Edge -> 0..Full], granted' \in [Id -> 0..Full]
  PROVE  CarriedTrue' /\ task' \in [Tasks -> TaskState]
  <1>0. /\ task \in [Tasks -> TaskState] /\ minted \subseteq Id
        /\ earned \in [Edge -> 0..Full] /\ granted \in [Id -> 0..Full]
    BY DEF TypeOK
  <1>2. \A u \in Tasks : ChainTrue(task[u], Links', earned')
    BY <1>0, ChainStays DEF CarriedTrue, Grows
  <1>3. \A u \in Tasks : BoostsTrue(task[u], minted', granted')
    BY <1>0, BoostsStay DEF CarriedTrue, Grows
  <1> QED BY <1>0, <1>2, <1>3 DEF CarriedTrue

-----------------------------------------------------------------------------
(* The writes.                                                             *)

(* Weights for edges between memories that exist, none above what its      *)
(* edge will have been given.                                              *)
Affordable(E, new, gained) ==
    /\ E \subseteq live \X live
    /\ new \in [E -> 0..Full] /\ gained \in [E -> 0..Full]
    /\ \A e \in E : new[e] <= Clamp(earned[e] + gained[e])

(* What such a write does to the table and its histories.                  *)
Upserted(E, new) ==
    /\ weight' = [e \in DOMAIN weight \cup E |-> IF e \in E THEN new[e] ELSE weight[e]]
    /\ DOMAIN weight' = DOMAIN weight \cup E
    /\ weight' \in [DOMAIN weight' -> 0..Full] /\ DOMAIN weight' \subseteq live \X live
    /\ earned' \in [Edge -> 0..Full] /\ cut' \subseteq Edge
    /\ Links \cup E \subseteq Links'
    /\ \A e \in Edge : earned[e] <= earned'[e]
    /\ \A e \in DOMAIN weight' : weight'[e] <= earned'[e]

(* An upsert of weights that their edges are given by it keeps the table,  *)
(* removes nothing and gives nothing away.                                 *)
LEMMA UpsertStep ==
  ASSUME TypeOK, NothingUnearned, NEW E, NEW new, NEW gained,
         Affordable(E, new, gained), Upsert(new, gained)
  PROVE  Upserted(E, new)
  <1> USE DEF Affordable
  <1>0. /\ DOMAIN new = E /\ E \subseteq Edge /\ DOMAIN weight \subseteq Edge
        /\ earned \in [Edge -> 0..Full]
    BY DEF TypeOK, Edge
  <1>1. /\ weight' = [e \in DOMAIN weight \cup E |-> IF e \in E THEN new[e] ELSE weight[e]]
        /\ earned' = [e \in Edge |-> IF e \in E THEN Clamp(earned[e] + gained[e]) ELSE earned[e]]
        /\ cut' = cut \ E
    BY <1>0 DEF Upsert
  <1>2. \A e \in E : /\ Clamp(earned[e] + gained[e]) \in 0..Full
                     /\ earned[e] <= Clamp(earned[e] + gained[e])
    <2> TAKE e \in E
    <2>1. earned[e] \in 0..Full /\ gained[e] \in 0..Full /\ earned[e] + gained[e] \in Int
      BY <1>0
    <2> QED BY <2>1, ClampType, ClampGrows
  <1>3. earned' \in [Edge -> 0..Full] /\ \A e \in Edge : earned[e] <= earned'[e]
    BY <1>0, <1>1, <1>2
  <1>4. /\ DOMAIN weight' = DOMAIN weight \cup E
        /\ weight' \in [DOMAIN weight' -> 0..Full] /\ DOMAIN weight' \subseteq live \X live
    BY <1>1 DEF TypeOK
  <1>5. \A e \in DOMAIN weight' : weight'[e] <= earned'[e]
    BY <1>0, <1>1, <1>4 DEF NothingUnearned
  <1>6. Links \cup E \subseteq Links' /\ cut' \subseteq Edge
    BY <1>1, <1>4 DEF Links, TypeOK
  <1> QED BY <1>1, <1>3, <1>4, <1>5, <1>6 DEF Upserted

(* A removal keeps the table and the record that there were such edges.    *)
LEMMA RemoveStep ==
  ASSUME TypeOK, NEW E, RemoveEdges(E)
  PROVE  /\ DOMAIN weight' = DOMAIN weight \ E
         /\ weight' \in [DOMAIN weight' -> 0..Full]
         /\ \A e \in DOMAIN weight' : weight'[e] = weight[e]
         /\ dated' = dated \ E
         /\ cut' \subseteq Edge
         /\ Links \subseteq Links'
  <1>1. weight' = [e \in DOMAIN weight \ E |-> weight[e]]
    BY DEF RemoveEdges, Restrict
  <1>2. DOMAIN weight' = DOMAIN weight \ E
    BY <1>1
  <1>3. DOMAIN weight \subseteq Edge
    BY DEF TypeOK, Edge
  <1>4. cut' \subseteq Edge /\ Links \subseteq Links' /\ dated' = dated \ E
    BY <1>2, <1>3 DEF RemoveEdges, Links, TypeOK
  <1> QED BY <1>1, <1>2, <1>4 DEF TypeOK

(* A new row has an id that no request holds, so its first stability is    *)
(* all that it was given.                                                  *)
LEMMA InsertStep ==
  ASSUME TypeOK, NothingUnearned, NEW id \in Id \ minted, NEW s \in 0..Full,
         InsertRow(id, s)
  PROVE  /\ live' \subseteq minted' /\ minted' \subseteq Id /\ live \subseteq live'
         /\ minted \subseteq minted'
         /\ stability' \in [Id -> 0..Full] /\ granted' \in [Id -> 0..Full]
         /\ \A i \in minted : granted[i] <= granted'[i]
         /\ \A i \in live' : stability'[i] <= granted'[i]
  BY DEF TypeOK, InsertRow, NothingUnearned

(* The batches acknowledged so far stay linked.                            *)
LEMMA BatchStays ==
  ASSUME BatchLinked, Links \subseteq Links', UNCHANGED acked
  PROVE  BatchLinked'
  BY DEF BatchLinked, Links

(* A write or a read that touches no table is a step of its request only.  *)
LEMMA QuietStep ==
  ASSUME IInv, NEW t \in Tasks, NEW s \in TaskState, Goto(t, s),
         UNCHANGED <<table, minted, history>>, requests' \in 0..MaxRequests,
         ChainTrue(s, Links, earned), BoostsTrue(s, minted, granted)
  PROVE  IInv'
  <1> USE DEF IInv, table, history
  <1>1. TypeOK /\ minted' \subseteq Id
        /\ earned' \in [Edge -> 0..Full] /\ granted' \in [Id -> 0..Full]
    BY DEF TypeOK
  <1>2. Links' = Links
    BY DEF Links
  <1>3. Grows
    BY <1>1, <1>2 DEF Grows, TypeOK
  <1>4. ChainTrue(s, Links', earned') /\ BoostsTrue(s, minted', granted')
    BY <1>2
  <1>5. CarriedTrue' /\ task' \in [Tasks -> TaskState]
    BY <1>1, <1>3, <1>4, CarriedStep
  <1>6. TypeOK'
    BY <1>5 DEF TypeOK
  <1>7. BatchLinked' /\ NothingUnearned' /\ UndatedIsTag'
    BY DEF BatchLinked, NothingUnearned, UndatedIsTag
  <1> QED BY <1>5, <1>6, <1>7

(* A request that holds nothing is true of any history.                    *)
LEMMA IdleTrue ==
  /\ Idle \in TaskState
  /\ \A L, f : ChainTrue(Idle, L, f) /\ BoostsTrue(Idle, L, f)
  BY DEF TaskState, Idle, ChainTrue, BoostsTrue

(* A counted request stays within the bound.                               *)
LEMMA RequestStep ==
  ASSUME TypeOK, NEW op, Request(op)
  PROVE  requests' \in 0..MaxRequests
  BY DEF TypeOK, Request

-----------------------------------------------------------------------------
(* Chains.                                                                 *)

(* A chain starts at a pair before which there is none.                    *)
LEMMA FirstPairTrue ==
  ASSUME NEW op \in {"batch", "link"}, NEW ids \in Seq(Id), Len(ids) >= 2,
         NEW both \in BOOLEAN, op = "batch" => both, NEW bump \in Strengths,
         NEW L, NEW f
  PROVE  /\ FirstPair(op, ids, both, bump) \in TaskState
         /\ ChainTrue(FirstPair(op, ids, both, bump), L, f)
         /\ \A M, g : BoostsTrue(FirstPair(op, ids, both, bump), M, g)
  <1> DEFINE s == FirstPair(op, ids, both, bump)
  <1>1. /\ s.pc = "link_read" /\ s.op = op /\ s.ids = ids /\ s.i = 1 /\ s.j = 2
        /\ s.back = FALSE /\ s.both = both
    BY DEF FirstPair
  <1>2. s \in TaskState
    BY DEF FirstPair, TaskState, Chain
  <1> HIDE DEF s
  <1>3. Positioned(s)
    BY <1>1 DEF Positioned
  <1>4. Covered(s, L)
    BY <1>1 DEF Covered
  <1>5. ChainTrue(s, L, f)
    BY <1>1, <1>3, <1>4 DEF ChainTrue
  <1>6. \A M, g : BoostsTrue(s, M, g)
    BY <1>1 DEF BoostsTrue
  <1> QED BY <1>2, <1>5, <1>6 DEF s

(* A chain that moves to another pair of numbers is a chain.               *)
LEMMA MovedType ==
  ASSUME NEW s \in Chain, NEW i \in Nat, NEW j \in Nat, NEW back \in BOOLEAN
  PROVE  [s EXCEPT !.pc = "link_read", !.i = i, !.j = j, !.back = back, !.new = 0] \in Chain
  <1>1. 0 \in 0..Full
    OBVIOUS
  <1> QED BY <1>1 DEF Chain

(* A chain of which everything up to a pair is linked may move to it.      *)
LEMMA MovedTrue ==
  ASSUME NEW s \in Chain, NEW i \in Nat, NEW j \in Nat, NEW back \in BOOLEAN,
         1 <= i, i < j, j <= Len(s.ids), s.op = "batch" => s.both,
         NEW L, NEW f,
         s.op = "batch" =>
            /\ \A p, q \in DOMAIN s.ids :
                  p < q /\ (p < i \/ (p = i /\ q < j)) =>
                     <<s.ids[p], s.ids[q]>> \in L /\ <<s.ids[q], s.ids[p]>> \in L
            /\ back => <<s.ids[i], s.ids[j]>> \in L,
         NEW r, r = [s EXCEPT !.pc = "link_read", !.i = i, !.j = j, !.back = back, !.new = 0]
  PROVE  r \in TaskState /\ ChainTrue(r, L, f) /\ \A M, g : BoostsTrue(r, M, g)
  <1>1. /\ r.pc = "link_read" /\ r.op = s.op /\ r.ids = s.ids /\ r.i = i /\ r.j = j
        /\ r.back = back /\ r.both = s.both
    BY DEF Chain
  <1>2. r \in TaskState
    BY MovedType DEF TaskState
  <1>3. Positioned(r)
    BY <1>1 DEF Positioned
  <1>4. s.op = "batch" => Covered(r, L)
    BY <1>1 DEF Covered
  <1> QED BY <1>1, <1>2, <1>3, <1>4 DEF ChainTrue, BoostsTrue

(* After the edge it was at has been written, a chain goes on at a pair    *)
(* before which everything is linked; at the end every pair is.            *)
LEMMA ContinueStep ==
  ASSUME TypeOK, CarriedTrue, BatchLinked, Grows, NEW t \in Tasks,
         task[t].pc = "link_write", EdgeAt(task[t]) \in Links', Continue(t, task[t]),
         minted' \subseteq Id, earned' \in [Edge -> 0..Full], granted' \in [Id -> 0..Full]
  PROVE  /\ CarriedTrue' /\ task' \in [Tasks -> TaskState]
         /\ acked' \subseteq Seq(Id) /\ BatchLinked'
  <1> DEFINE s == task[t]
             n == Len(s.ids)
             turn == s.both /\ ~s.back
  <1>0. /\ s \in Chain /\ Positioned(s)
        /\ s.op = "batch" => Covered(s, Links)
    <2>1. s \in Chain
      BY StageShape DEF TypeOK
    <2>2. ChainTrue(s, Links, earned)
      BY DEF CarriedTrue
    <2> QED BY <2>1, <2>2 DEF ChainTrue
  <1>1. /\ s.ids \in Seq(Id) /\ n \in Nat /\ DOMAIN s.ids = 1..n
        /\ s.i \in Nat /\ s.j \in Nat /\ 1 <= s.i /\ s.i < s.j /\ s.j <= n
    BY <1>0 DEF Chain, Positioned
  <1>b. s.op = "batch" => s.both
    BY <1>0 DEF Positioned
  <1>2. s.op = "batch" => Covered(s, Links')
    BY <1>0 DEF Covered, Grows
  <1>3. /\ s.back => <<s.ids[s.j], s.ids[s.i]>> \in Links'
        /\ ~s.back => <<s.ids[s.i], s.ids[s.j]>> \in Links'
    BY DEF EdgeAt
  <1> HIDE DEF s, n, turn
  <1>4. ASSUME s.op = "batch", ~turn, NEW p \in 1..n, NEW q \in 1..n, p < q,
               p < s.i \/ (p = s.i /\ q <= s.j)
        PROVE  <<s.ids[p], s.ids[q]>> \in Links' /\ <<s.ids[q], s.ids[p]>> \in Links'
    <2>1. CASE p < s.i \/ (p = s.i /\ q < s.j)
      BY <1>1, <1>2, <1>4, <2>1 DEF Covered
    <2>2. CASE p = s.i /\ q = s.j
      <3>1. <<s.ids[s.j], s.ids[s.i]>> \in Links' /\ s.back
        BY <1>b, <1>3, <1>4 DEF turn
      <3>2. <<s.ids[s.i], s.ids[s.j]>> \in Links'
        BY <1>2, <1>4, <3>1 DEF Covered
      <3> QED BY <2>2, <3>1, <3>2
    <2> QED BY <1>1, <1>4, <2>1, <2>2
  <1>5. ASSUME NEW i \in Nat, NEW j \in Nat, NEW back \in BOOLEAN, MoveTo(t, s, i, j, back),
               1 <= i, i < j, j <= n,
               s.op = "batch" =>
                 /\ \A p, q \in DOMAIN s.ids :
                       p < q /\ (p < i \/ (p = i /\ q < j)) =>
                          <<s.ids[p], s.ids[q]>> \in Links' /\ <<s.ids[q], s.ids[p]>> \in Links'
                 /\ back => <<s.ids[i], s.ids[j]>> \in Links'
        PROVE  /\ CarriedTrue' /\ task' \in [Tasks -> TaskState]
               /\ acked' \subseteq Seq(Id) /\ BatchLinked'
    <2> DEFINE r == [s EXCEPT !.pc = "link_read", !.i = i, !.j = j, !.back = back, !.new = 0]
    <2>1. r \in TaskState /\ ChainTrue(r, Links', earned') /\ BoostsTrue(r, minted', granted')
      BY <1>0, <1>b, <1>5, MovedTrue DEF n
    <2>2. Goto(t, r) /\ UNCHANGED acked
      BY <1>5 DEF MoveTo
    <2> HIDE DEF r
    <2>3. CarriedTrue' /\ task' \in [Tasks -> TaskState]
      BY <2>1, <2>2, CarriedStep
    <2>4. BatchLinked' /\ acked' \subseteq Seq(Id)
      BY <2>2, BatchStays DEF Grows, TypeOK
    <2> QED BY <2>3, <2>4
  <1>6. CASE turn /\ MoveTo(t, s, s.i, s.j, TRUE)
    <2>1. s.op = "batch" =>
            /\ \A p, q \in DOMAIN s.ids :
                  p < q /\ (p < s.i \/ (p = s.i /\ q < s.j)) =>
                     <<s.ids[p], s.ids[q]>> \in Links' /\ <<s.ids[q], s.ids[p]>> \in Links'
            /\ <<s.ids[s.i], s.ids[s.j]>> \in Links'
      BY <1>2, <1>3, <1>6 DEF Covered, turn
    <2> QED BY <1>1, <1>5, <1>6, <2>1
  <1>7. CASE ~turn /\ s.j < n /\ MoveTo(t, s, s.i, s.j + 1, FALSE)
    <2>1. s.j + 1 \in Nat /\ s.j + 1 <= n /\ s.i < s.j + 1
      BY <1>1, <1>7
    <2>2. s.op = "batch" =>
            \A p, q \in DOMAIN s.ids :
               p < q /\ (p < s.i \/ (p = s.i /\ q < s.j + 1)) =>
                  <<s.ids[p], s.ids[q]>> \in Links' /\ <<s.ids[q], s.ids[p]>> \in Links'
      <3> SUFFICES ASSUME s.op = "batch", NEW p \in 1..n, NEW q \in 1..n, p < q,
                          p < s.i \/ (p = s.i /\ q < s.j + 1)
                   PROVE  <<s.ids[p], s.ids[q]>> \in Links' /\ <<s.ids[q], s.ids[p]>> \in Links'
        BY <1>1
      <3>1. p < s.i \/ (p = s.i /\ q <= s.j)
        BY <1>1
      <3> QED BY <1>4, <1>7, <3>1
    <2> QED BY <1>1, <1>5, <1>7, <2>1, <2>2
  <1>8. CASE ~turn /\ s.j = n /\ s.i + 1 < n /\ MoveTo(t, s, s.i + 1, s.i + 2, FALSE)
    <2>1. /\ s.i + 1 \in Nat /\ s.i + 2 \in Nat /\ 1 <= s.i + 1
          /\ s.i + 1 < s.i + 2 /\ s.i + 2 <= n
      <3>1. s.i \in Nat /\ n \in Nat /\ s.i + 1 < n
        BY <1>1, <1>8
      <3> QED BY <3>1
    <2>2. s.op = "batch" =>
            \A p, q \in DOMAIN s.ids :
               p < q /\ (p < s.i + 1 \/ (p = s.i + 1 /\ q < s.i + 2)) =>
                  <<s.ids[p], s.ids[q]>> \in Links' /\ <<s.ids[q], s.ids[p]>> \in Links'
      <3> SUFFICES ASSUME s.op = "batch", NEW p \in 1..n, NEW q \in 1..n, p < q,
                          p < s.i + 1 \/ (p = s.i + 1 /\ q < s.i + 2)
                   PROVE  <<s.ids[p], s.ids[q]>> \in Links' /\ <<s.ids[q], s.ids[p]>> \in Links'
        BY <1>1
      <3>1. p < s.i \/ (p = s.i /\ q <= s.j)
        BY <1>1, <1>8
      <3> QED BY <1>4, <1>8, <3>1
    <2> QED BY <1>1, <1>5, <1>8, <2>1, <2>2
  <1>9. CASE ~turn /\ s.j = n /\ s.i + 1 = n /\ Finished(t, s.op, s.ids)
    <2>1. CarriedTrue' /\ task' \in [Tasks -> TaskState]
      BY <1>9, CarriedStep, IdleTrue DEF Finished
    <2>2. acked' \subseteq Seq(Id)
      BY <1>1, <1>9 DEF Finished, TypeOK
    <2>3. \A ids \in acked : \A i, j \in DOMAIN ids : i # j => <<ids[i], ids[j]>> \in Links'
      BY DEF BatchLinked, Links, Grows
    <2>4. ASSUME s.op = "batch", NEW i \in DOMAIN s.ids, NEW j \in DOMAIN s.ids, i # j
          PROVE  <<s.ids[i], s.ids[j]>> \in Links'
      <3>0. i \in 1..n /\ j \in 1..n
        BY <1>1
      <3>1. ASSUME NEW p \in 1..n, NEW q \in 1..n, p < q
            PROVE  <<s.ids[p], s.ids[q]>> \in Links' /\ <<s.ids[q], s.ids[p]>> \in Links'
        <4>1. p < s.i \/ (p = s.i /\ q <= s.j)
          BY <1>1, <1>9, <3>1
        <4> QED BY <1>4, <1>9, <2>4, <3>1, <4>1
      <3>2. i < j \/ j < i
        BY <1>1, <2>4, <3>0
      <3> QED BY <3>0, <3>1, <3>2
    <2>5. \A ids \in acked' : \A i, j \in DOMAIN ids : i # j => <<ids[i], ids[j]>> \in Links'
      BY <1>9, <2>3, <2>4 DEF Finished
    <2>6. BatchLinked'
      BY <2>5 DEF BatchLinked, Links
    <2> QED BY <2>1, <2>2, <2>6
  <1> QED BY <1>6, <1>7, <1>8, <1>9 DEF Continue, s, n, turn

(* Memory::Link begins.                                                    *)
LEMMA LinkStartStep == ASSUME IInv, NEW t \in Tasks, LinkStart(t) PROVE IInv'
  <1> PICK e \in Edge, both \in BOOLEAN, bump \in Strengths :
         Goto(t, FirstPair("link", e, both, bump))
    BY DEF LinkStart
  <1>1. e \in Seq(Id) /\ Len(e) = 2
    <2>1. e = <<e[1], e[2]>> /\ e[1] \in Id /\ e[2] \in Id
      BY DEF Edge
    <2> HIDE DEF Edge
    <2>2. <<e[1], e[2]>> \in Seq(Id) /\ Len(<<e[1], e[2]>>) = 2
      BY <2>1
    <2> QED BY <2>1, <2>2
  <1> DEFINE s == FirstPair("link", e, both, bump)
  <1>2. /\ s \in TaskState /\ ChainTrue(s, Links, earned)
        /\ BoostsTrue(s, minted, granted)
    <2>1. "link" \in {"batch", "link"} /\ Len(e) >= 2 /\ ("link" = "batch" => both)
      BY <1>1
    <2> QED BY <1>1, <2>1, FirstPairTrue
  <1>3. requests' \in 0..MaxRequests
    BY RequestStep DEF LinkStart, Starts, IInv
  <1> HIDE DEF s
  <1> QED BY <1>2, <1>3, QuietStep DEF LinkStart, s

(* The weight that create_or_strengthen computes is at most what the edge  *)
(* will have been given once it is written.                                *)
LEMMA LinkReadStep == ASSUME IInv, NEW t \in Tasks, LinkRead(t) PROVE IInv'
  <1> DEFINE s == task[t]
             e == EdgeAt(s)
             new == Clamp(Existing(e) + s.bump)
             r == [s EXCEPT !.pc = "link_write", !.new = new]
  <1>0. s \in Chain /\ Positioned(s) /\ ChainTrue(s, Links, earned) /\ s.pc = "link_read"
    <2>1. s \in TaskState /\ s.pc = "link_read" /\ ChainTrue(s, Links, earned)
      BY DEF LinkRead, At, IInv, TypeOK, CarriedTrue
    <2> QED BY <2>1, StageShape DEF ChainTrue
  <1>1. e \in Edge
    BY <1>0, EdgeAtType
  <1>2. Existing(e) \in 0..Full /\ earned[e] \in 0..Full /\ Existing(e) <= earned[e]
    BY <1>1 DEF Existing, IInv, TypeOK, NothingUnearned
  <1>3. s.bump \in Int
    BY <1>0 DEF Chain
  <1>4. new \in 0..Full /\ new <= Clamp(earned[e] + Clamp(s.bump))
    <2> HIDE DEF e, s
    <2>1. Existing(e) + s.bump \in Int
      BY <1>2, <1>3
    <2> QED BY <1>2, <1>3, <2>1, ClampType, ClampMonotonic
  <1> HIDE DEF new
  <1>5. /\ r.pc = "link_write" /\ r.op = s.op /\ r.ids = s.ids /\ r.i = s.i /\ r.j = s.j
        /\ r.back = s.back /\ r.both = s.both /\ r.bump = s.bump /\ r.new = new
        /\ r \in Chain
    BY <1>0, <1>4 DEF Chain
  <1>6. Goto(t, r) /\ UNCHANGED <<requests, table, minted, history>>
    BY DEF LinkRead, new
  <1> HIDE DEF r
  <1>7. EdgeAt(r) = e
    BY <1>5 DEF EdgeAt
  <1>8. Positioned(r) /\ (r.op = "batch" => Covered(r, Links)) /\ Funded(r, earned)
    BY <1>0, <1>4, <1>5, <1>7 DEF Positioned, Covered, Funded, ChainTrue
  <1>9. r \in TaskState /\ ChainTrue(r, Links, earned) /\ BoostsTrue(r, minted, granted)
    BY <1>5, <1>8 DEF ChainTrue, BoostsTrue, TaskState
  <1> QED BY <1>6, <1>9, QuietStep DEF IInv, TypeOK

(* The write of an edge, whatever happened to it since it was read.        *)
LEMMA LinkWriteStep == ASSUME IInv, NEW t \in Tasks, LinkWrite(t) PROVE IInv'
  <1> DEFINE s == task[t]
             e == EdgeAt(s)
             new == [x \in {e} |-> s.new]
             gained == [x \in {e} |-> Clamp(s.bump)]
  <1>0. s \in Chain /\ Positioned(s) /\ s.pc = "link_write" /\ Funded(s, earned)
    <2>1. s \in TaskState /\ s.pc = "link_write" /\ ChainTrue(s, Links, earned)
      BY DEF LinkWrite, At, IInv, TypeOK, CarriedTrue
    <2> QED BY <2>1, StageShape DEF ChainTrue
  <1>1. e \in Edge /\ s.new \in 0..Full /\ s.bump \in Int
    BY <1>0, EdgeAtType DEF Chain
  <1>2. UNCHANGED <<requests, live, minted, stability, granted>>
    BY DEF LinkWrite
  <1>3. CASE EndsLive(e) /\ Upsert(new, gained) /\ dated' = dated \cup {e} /\ Continue(t, s)
    <2> DEFINE E == {e}
    <2>1. Affordable(E, new, gained)
      <3>1. Clamp(s.bump) \in 0..Full
        BY <1>1, ClampType
      <3>2. e \in live \X live
        BY <1>1, <1>3 DEF EndsLive, Edge
      <3>3. s.new <= Clamp(earned[e] + Clamp(s.bump))
        BY <1>0 DEF Funded
      <3> HIDE DEF e, s
      <3> QED BY <1>1, <3>1, <3>2, <3>3 DEF Affordable
    <2> HIDE DEF E, new, gained
    <2>2. Upserted(E, new)
      <3>1. TypeOK /\ NothingUnearned /\ Upsert(new, gained)
        BY <1>3 DEF IInv
      <3> HIDE DEF e, s
      <3> QED BY <2>1, <3>1, UpsertStep
    <2>3. Grows
      BY <1>2, <2>2 DEF Upserted, Grows, IInv, TypeOK
    <2>4. minted' \subseteq Id /\ granted' \in [Id -> 0..Full]
      BY <1>2 DEF IInv, TypeOK
    <2>5. e \in Links'
      BY <2>2 DEF Upserted, E
    <2>6. /\ CarriedTrue' /\ task' \in [Tasks -> TaskState]
          /\ acked' \subseteq Seq(Id) /\ BatchLinked'
      BY <1>0, <1>3, <2>2, <2>3, <2>4, <2>5, ContinueStep DEF Upserted, IInv
    <2>7. TypeOK'
      BY <1>2, <1>3, <2>2, <2>6 DEF Upserted, IInv, TypeOK, E
    <2>8. NothingUnearned'
      BY <1>2, <2>2 DEF Upserted, IInv, NothingUnearned
    <2>9. UndatedIsTag'
      BY <1>3, <2>2 DEF Upserted, IInv, UndatedIsTag, E
    <2> QED BY <2>6, <2>7, <2>8, <2>9 DEF IInv
  <1>4. CASE Goto(t, Idle) /\ UNCHANGED <<weight, earned, cut, dated, acked>>
    BY <1>2, <1>4, QuietStep, IdleTrue DEF IInv, TypeOK, table, history
  <1> QED BY <1>3, <1>4 DEF LinkWrite

-----------------------------------------------------------------------------
(* Rows.                                                                   *)

(* At these stages a request holds nothing that the tables could belie.    *)
LEMMA OtherTrue ==
  ASSUME NEW s, s.pc \notin {"link_read", "link_write", "search_read", "search_boost"},
         NEW L, NEW f, NEW M, NEW g
  PROVE  ChainTrue(s, L, f) /\ BoostsTrue(s, M, g)
  BY DEF ChainTrue, BoostsTrue

(* A new row leaves the edges alone, and no request holds its id.          *)
LEMMA InsertGrows ==
  ASSUME IInv, NEW id \in Id \ minted, NEW s \in 0..Full, InsertRow(id, s),
         UNCHANGED <<weight, dated, earned, cut>>
  PROVE  /\ Grows /\ Links' = Links /\ minted' \subseteq Id
         /\ earned' \in [Edge -> 0..Full] /\ granted' \in [Id -> 0..Full]
         /\ NothingUnearned' /\ UndatedIsTag'
         /\ requests' \in 0..MaxRequests /\ task' \in [Tasks -> TaskState]
                  /\ acked' \subseteq Seq(Id) => TypeOK'
  <1>1. TypeOK /\ NothingUnearned /\ UndatedIsTag
    BY DEF IInv
  <1>2. /\ live' \subseteq minted' /\ minted' \subseteq Id /\ live \subseteq live'
        /\ minted \subseteq minted'
        /\ stability' \in [Id -> 0..Full] /\ granted' \in [Id -> 0..Full]
        /\ \A i \in minted : granted[i] <= granted'[i]
        /\ \A i \in live' : stability'[i] <= granted'[i]
    BY <1>1, InsertStep
  <1>3. Links' = Links
    BY DEF Links
  <1>4. earned' \in [Edge -> 0..Full] /\ \A e \in Edge : earned[e] <= earned'[e]
    BY <1>1 DEF TypeOK
  <1>5. Grows
    BY <1>2, <1>3, <1>4 DEF Grows
  <1>6. NothingUnearned' /\ UndatedIsTag'
    BY <1>1, <1>2 DEF NothingUnearned, UndatedIsTag
  <1>7. requests' \in 0..MaxRequests /\ task' \in [Tasks -> TaskState]
                  /\ acked' \subseteq Seq(Id) => TypeOK'
    <2>1. DOMAIN weight' \subseteq live' \X live'
      BY <1>1, <1>2 DEF TypeOK
    <2> QED BY <1>1, <1>2, <2>1 DEF TypeOK
  <1> QED BY <1>2, <1>3, <1>4, <1>5, <1>6, <1>7

(* Memory::StoreBatch begins.                                              *)
LEMMA BatchStartStep == ASSUME IInv, NEW t \in Tasks, BatchStart(t) PROVE IInv'
  <1> PICK n \in 1..BatchSize, bump \in Strengths :
         Goto(t, [pc |-> "batch_insert", ids |-> <<>>, size |-> n, bump |-> bump])
    BY DEF BatchStart
  <1> DEFINE s == [pc |-> "batch_insert", ids |-> <<>>, size |-> n, bump |-> bump]
  <1>1. s \in TaskState
    <2>1. n \in 0..BatchSize /\ <<>> \in Seq(Id)
      OBVIOUS
    <2> QED BY <2>1 DEF TaskState
  <1>2. ChainTrue(s, Links, earned) /\ BoostsTrue(s, minted, granted)
    BY OtherTrue
  <1>3. requests' \in 0..MaxRequests
    BY RequestStep DEF BatchStart, Starts, IInv
  <1> HIDE DEF s
  <1> QED BY <1>1, <1>2, <1>3, QuietStep DEF BatchStart, s

(* A row of a batch; after the last one the chain of links begins.         *)
LEMMA BatchInsertStep == ASSUME IInv, NEW t \in Tasks, BatchInsert(t) PROVE IInv'
  <1> DEFINE s == task[t]
  <1> PICK id \in Id \ minted :
         /\ InsertRow(id, NewStability)
         /\ LET ids == Append(s.ids, id)
            IN  \/ /\ Len(ids) < s.size
                   /\ Goto(t, [s EXCEPT !.ids = ids])
                   /\ UNCHANGED acked
                \/ /\ Len(ids) >= s.size /\ Len(ids) > 1
                   /\ Goto(t, FirstPair("batch", ids, TRUE, s.bump))
                   /\ UNCHANGED acked
                \/ /\ Len(ids) >= s.size /\ Len(ids) = 1
                   /\ Finished(t, "batch", ids)
    BY DEF BatchInsert
  <1> DEFINE ids == Append(s.ids, id)
  <1>1. s \in [pc : {"batch_insert"}, ids : Seq(Id), size : 0..BatchSize, bump : Strengths]
    BY StageShape DEF BatchInsert, At, IInv, TypeOK
  <1>2. ids \in Seq(Id) /\ s.bump \in Strengths
    BY <1>1
  <1>3. UNCHANGED <<requests, weight, dated, earned, cut>>
    BY DEF BatchInsert
  <1>4. /\ Grows /\ Links' = Links /\ minted' \subseteq Id
        /\ earned' \in [Edge -> 0..Full] /\ granted' \in [Id -> 0..Full]
        /\ NothingUnearned' /\ UndatedIsTag'
        /\ requests' \in 0..MaxRequests /\ task' \in [Tasks -> TaskState]
                 /\ acked' \subseteq Seq(Id) => TypeOK'
    BY <1>3, InsertGrows
  <1>5. requests' \in 0..MaxRequests /\ TypeOK /\ CarriedTrue /\ BatchLinked
    BY <1>3 DEF IInv, TypeOK
  <1> HIDE DEF s, ids
  <1>6. ASSUME NEW r \in TaskState, Goto(t, r), UNCHANGED acked,
               ChainTrue(r, Links', earned'), BoostsTrue(r, minted', granted')
        PROVE  IInv'
    <2>1. CarriedTrue' /\ task' \in [Tasks -> TaskState]
      BY <1>4, <1>5, <1>6, CarriedStep
    <2>2. BatchLinked' /\ acked' \subseteq Seq(Id)
      BY <1>4, <1>5, <1>6, BatchStays DEF TypeOK
    <2> QED BY <1>4, <1>5, <2>1, <2>2 DEF IInv
  <1>7. CASE Goto(t, [s EXCEPT !.ids = ids]) /\ UNCHANGED acked
    <2> DEFINE r == [s EXCEPT !.ids = ids]
    <2>1. r \in [pc : {"batch_insert"}, ids : Seq(Id), size : 0..BatchSize, bump : Strengths]
      BY <1>1, <1>2
    <2>2. r \in TaskState /\ r.pc = "batch_insert"
      BY <2>1 DEF TaskState
    <2> HIDE DEF r
    <2>3. ChainTrue(r, Links', earned') /\ BoostsTrue(r, minted', granted')
      BY <2>2, OtherTrue
    <2> QED BY <1>6, <1>7, <2>2, <2>3 DEF r
  <1>8. CASE Len(ids) > 1 /\ Goto(t, FirstPair("batch", ids, TRUE, s.bump)) /\ UNCHANGED acked
    <2> DEFINE r == FirstPair("batch", ids, TRUE, s.bump)
    <2>1. Len(ids) >= 2 /\ "batch" \in {"batch", "link"}
      BY <1>2, <1>8
    <2>2. r \in TaskState /\ ChainTrue(r, Links', earned') /\ BoostsTrue(r, minted', granted')
      BY <1>2, <2>1, FirstPairTrue
    <2> HIDE DEF r
    <2> QED BY <1>6, <1>8, <2>2 DEF r
  <1>9. CASE Len(ids) = 1 /\ Finished(t, "batch", ids)
    <2>1. CarriedTrue' /\ task' \in [Tasks -> TaskState]
      BY <1>4, <1>5, <1>9, CarriedStep, IdleTrue DEF Finished
    <2>2. acked' = acked \cup {ids}
      BY <1>9 DEF Finished
    <2>3. \A i, j \in DOMAIN ids : i = j
      BY <1>2, <1>9
    <2>4. BatchLinked' /\ acked' \subseteq Seq(Id)
      BY <1>2, <1>3, <1>5, <2>2, <2>3 DEF BatchLinked, TypeOK
    <2> QED BY <1>4, <1>5, <2>1, <2>4 DEF IInv
  <1> QED BY <1>7, <1>8, <1>9 DEF s, ids

(* Memory::Store inserts its row.                                          *)
LEMMA StoreInsertStep == ASSUME IInv, NEW t \in Tasks, StoreInsert(t) PROVE IInv'
  <1> PICK id \in Id \ minted, v \in Stabilities :
         InsertRow(id, v) /\ Goto(t, [pc |-> "store_search", new |-> id])
    BY DEF StoreInsert
  <1> DEFINE r == [pc |-> "store_search", new |-> id]
  <1>1. UNCHANGED <<weight, dated, earned, cut, acked>>
    BY DEF StoreInsert
  <1>2. /\ Grows /\ Links' = Links /\ minted' \subseteq Id
        /\ earned' \in [Edge -> 0..Full] /\ granted' \in [Id -> 0..Full]
        /\ NothingUnearned' /\ UndatedIsTag'
        /\ requests' \in 0..MaxRequests /\ task' \in [Tasks -> TaskState]
                 /\ acked' \subseteq Seq(Id) => TypeOK'
    BY <1>1, InsertGrows
  <1>3. requests' \in 0..MaxRequests /\ TypeOK /\ CarriedTrue /\ BatchLinked
    BY RequestStep DEF IInv, StoreInsert, Starts
  <1>4. r \in TaskState
    BY DEF TaskState
  <1>5. ChainTrue(r, Links', earned') /\ BoostsTrue(r, minted', granted')
    BY OtherTrue
  <1> HIDE DEF r
  <1>6. CarriedTrue' /\ task' \in [Tasks -> TaskState]
    BY <1>2, <1>3, <1>4, <1>5, CarriedStep DEF r
  <1>7. BatchLinked' /\ acked' \subseteq Seq(Id)
    BY <1>1, <1>2, <1>3, BatchStays DEF TypeOK
  <1> QED BY <1>2, <1>3, <1>6, <1>7 DEF IInv

(* The search of Memory::Store: its tags are weights of tags.              *)
LEMMA StoreSearchStep == ASSUME IInv, NEW t \in Tasks, StoreSearch(t) PROVE IInv'
  <1> PICK near \in SUBSET (live \ {task[t].new}) :
         \E S \in SUBSET ((live \ {task[t].new}) \ near) : \E tags \in [S -> TagWeights] :
            Goto(t, [pc |-> "store_tag", new |-> task[t].new, near |-> near, tags |-> tags])
    BY DEF StoreSearch
  <1> PICK S \in SUBSET ((live \ {task[t].new}) \ near) : \E tags \in [S -> TagWeights] :
            Goto(t, [pc |-> "store_tag", new |-> task[t].new, near |-> near, tags |-> tags])
    OBVIOUS
  <1> PICK tags \in [S -> TagWeights] :
            Goto(t, [pc |-> "store_tag", new |-> task[t].new, near |-> near, tags |-> tags])
    OBVIOUS
  <1> DEFINE r == [pc |-> "store_tag", new |-> task[t].new, near |-> near, tags |-> tags]
  <1>1. task[t].new \in Id
    BY StageShape DEF StoreSearch, At, IInv, TypeOK
  <1>2. near \in SUBSET Id /\ S \in SUBSET Id
    BY DEF IInv, TypeOK
  <1>3. tags \in UNION {[R -> TagWeights] : R \in SUBSET Id}
    BY <1>2, PartialIntro
  <1>4. r \in TaskState
    BY <1>1, <1>2, <1>3 DEF TaskState
  <1>5. ChainTrue(r, Links, earned) /\ BoostsTrue(r, minted, granted)
    BY OtherTrue
  <1>6. requests' \in 0..MaxRequests
    BY DEF StoreSearch, IInv, TypeOK
  <1> HIDE DEF r
  <1> QED BY <1>4, <1>5, <1>6, QuietStep DEF StoreSearch, r

(* Reinforcing some memories by what they are given keeps them within it.  *)
LEMMA ReinforceStep ==
  ASSUME TypeOK, NothingUnearned, NEW R,
         stability' = [i \in Id |-> IF i \in R THEN Clamp(stability[i] + Reinforcement)
                                               ELSE stability[i]],
         granted' = [i \in Id |-> IF i \in R THEN Clamp(granted[i] + Reinforcement)
                                             ELSE granted[i]],
         UNCHANGED live
  PROVE  /\ stability' \in [Id -> 0..Full] /\ granted' \in [Id -> 0..Full]
         /\ \A i \in Id : granted[i] <= granted'[i]
         /\ \A i \in live' : stability'[i] <= granted'[i]
  <1>1. stability \in [Id -> 0..Full] /\ granted \in [Id -> 0..Full] /\ live \subseteq Id
    BY DEF TypeOK
  <1>2. Reinforcement \in 0..Full /\ Full \in Nat
    OBVIOUS
  <1>3. \A i \in Id : /\ Clamp(stability[i] + Reinforcement) \in 0..Full
                      /\ Clamp(granted[i] + Reinforcement) \in 0..Full
                      /\ granted[i] <= Clamp(granted[i] + Reinforcement)
                      /\ stability[i] <= granted[i] =>
                            Clamp(stability[i] + Reinforcement) <= Clamp(granted[i] + Reinforcement)
    BY <1>1, <1>2 DEF Clamp
  <1>4. \A i \in live : stability[i] <= granted[i]
    BY DEF NothingUnearned
  <1> QED BY <1>1, <1>3, <1>4

(* The transaction of Memory::Store: an edge that it leaves undated has    *)
(* the weight of a tag.                                                    *)
LEMMA StoreTagStep == ASSUME IInv, NEW t \in Tasks, StoreTag(t) PROVE IInv'
  <1> DEFINE s == task[t]
             E == {<<s.new, i>> : i \in DOMAIN s.tags} \cup {<<i, s.new>> : i \in DOMAIN s.tags}
             new == [e \in E |-> s.tags[IF e[1] = s.new THEN e[2] ELSE e[1]]]
             R == s.near \cap live
  <1>1. /\ s.new \in Id /\ s.tags \in UNION {[S -> TagWeights] : S \in SUBSET Id}
    BY StageShape DEF StoreTag, At, IInv, TypeOK
  <1>2. Goto(t, Idle) /\ UNCHANGED <<requests, live, minted, dated, acked>>
    BY DEF StoreTag
  <1>3. CASE /\ \A e \in E : EndsLive(e)
             /\ Upsert(new, new)
             /\ stability' = [i \in Id |-> IF i \in R THEN Clamp(stability[i] + Reinforcement)
                                                      ELSE stability[i]]
             /\ granted' = [i \in Id |-> IF i \in R THEN Clamp(granted[i] + Reinforcement)
                                                    ELSE granted[i]]
    <2>1. \A e \in E : e \in live \X live /\ new[e] \in TagWeights
      <3> TAKE e \in E
      <3>1. PICK i \in DOMAIN s.tags : e = <<s.new, i>> \/ e = <<i, s.new>>
        OBVIOUS
      <3>2. new[e] = s.tags[i]
        BY <3>1
      <3>3. s.tags[i] \in TagWeights
        BY <1>1, PartialElim
      <3>4. e[1] \in live /\ e[2] \in live
        BY <1>3 DEF EndsLive
      <3> QED BY <3>1, <3>2, <3>3, <3>4
    <2>2. new = [e \in E |-> new[e]]
      OBVIOUS
    <2>3. TypeOK /\ NothingUnearned /\ Upsert(new, new) /\ CarriedTrue /\ BatchLinked
          /\ UndatedIsTag
      BY <1>3 DEF IInv
    <2> HIDE DEF E, new, R, s
    <2>4. new \in [E -> 0..Full]
      BY <2>1, <2>2
    <2>5. \A e \in E : new[e] <= Clamp(earned[e] + new[e])
      <3> TAKE e \in E
      <3>1. e \in Edge
        BY <2>1, <2>3 DEF TypeOK, Edge
      <3>2. earned[e] \in 0..Full /\ new[e] \in 0..Full
        BY <2>3, <2>4, <3>1 DEF TypeOK
      <3> QED BY <3>2, ClampGrows
    <2>6. Affordable(E, new, new)
      BY <2>1, <2>4, <2>5 DEF Affordable
    <2>7. Upserted(E, new)
      BY <2>3, <2>6, UpsertStep
    <2>8. /\ stability' \in [Id -> 0..Full] /\ granted' \in [Id -> 0..Full]
          /\ \A i \in Id : granted[i] <= granted'[i]
          /\ \A i \in live' : stability'[i] <= granted'[i]
      BY <1>2, <1>3, <2>3, ReinforceStep
    <2>9. Grows
      BY <1>2, <2>3, <2>7, <2>8 DEF Grows, Upserted, TypeOK
    <2>10. CarriedTrue' /\ task' \in [Tasks -> TaskState]
      <3>1. minted' \subseteq Id /\ earned' \in [Edge -> 0..Full]
        BY <1>2, <2>3, <2>7 DEF TypeOK, Upserted
      <3> QED BY <1>2, <2>3, <2>8, <2>9, <3>1, CarriedStep, IdleTrue
    <2>11. TypeOK'
      BY <1>2, <2>3, <2>7, <2>8, <2>10 DEF TypeOK, Upserted
    <2>12. BatchLinked'
      BY <1>2, <2>3, <2>9, BatchStays DEF Grows
    <2>13. NothingUnearned'
      BY <2>7, <2>8 DEF NothingUnearned, Upserted
    <2>14. UndatedIsTag'
      BY <1>2, <2>1, <2>3, <2>7 DEF UndatedIsTag, Upserted
    <2> QED BY <2>10, <2>11, <2>12, <2>13, <2>14 DEF IInv
  <1>4. CASE UNCHANGED <<weight, earned, cut, stability, granted>>
    BY <1>2, <1>4, QuietStep, IdleTrue DEF IInv, TypeOK, table, history
  <1> QED BY <1>3, <1>4 DEF StoreTag

-----------------------------------------------------------------------------
(* Searches.                                                               *)

(* The hits of a search are rows, so their ids were minted.                *)
LEMMA SearchQueryStep == ASSUME IInv, NEW t \in Tasks, SearchQuery(t) PROVE IInv'
  <1> PICK H \in SUBSET live \ {{}} : Goto(t, [pc |-> "search_read", hits |-> H])
    BY DEF SearchQuery
  <1> DEFINE r == [pc |-> "search_read", hits |-> H]
  <1>1. H \subseteq minted /\ H \subseteq Id
    BY DEF IInv, TypeOK
  <1>2. r \in TaskState
    BY <1>1 DEF TaskState
  <1>3. ChainTrue(r, Links, earned) /\ BoostsTrue(r, minted, granted)
    BY <1>1 DEF ChainTrue, BoostsTrue
  <1>4. requests' \in 0..MaxRequests
    BY RequestStep DEF SearchQuery, Starts, IInv
  <1> HIDE DEF r
  <1> QED BY <1>2, <1>3, <1>4, QuietStep DEF SearchQuery, r

(* The boosts are computed from what the memories hold when they are read. *)
LEMMA SearchReadStep == ASSUME IInv, NEW t \in Tasks, SearchRead(t) PROVE IInv'
  <1> PICK rows \in SUBSET (task[t].hits \cap live) : \E gain \in [rows -> Gains] :
          /\ Goto(t, [pc |-> "search_boost", hits |-> task[t].hits,
                      boosts |-> [i \in rows |-> Clamp(stability[i] + gain[i])]])
          /\ granted' = [i \in Id |-> IF i \in rows THEN Clamp(granted[i] + gain[i])
                                                    ELSE granted[i]]
    BY DEF SearchRead
  <1> PICK gain \in [rows -> Gains] :
          /\ Goto(t, [pc |-> "search_boost", hits |-> task[t].hits,
                      boosts |-> [i \in rows |-> Clamp(stability[i] + gain[i])]])
          /\ granted' = [i \in Id |-> IF i \in rows THEN Clamp(granted[i] + gain[i])
                                                    ELSE granted[i]]
    OBVIOUS
  <1> DEFINE b == [i \in rows |-> Clamp(stability[i] + gain[i])]
             r == [pc |-> "search_boost", hits |-> task[t].hits, boosts |-> b]
  <1>1. /\ TypeOK /\ CarriedTrue /\ BatchLinked /\ NothingUnearned /\ UndatedIsTag
        /\ UNCHANGED <<requests, table, minted, earned, cut, acked>>
    BY DEF IInv, SearchRead
  <1>2. task[t].hits \subseteq Id
    BY <1>1, StageShape DEF SearchRead, At, TypeOK
  <1>3. rows \in SUBSET Id /\ rows \subseteq minted /\ rows \subseteq live
    BY <1>1 DEF TypeOK
  <1>4. \A i \in rows : /\ stability[i] \in 0..Full /\ granted[i] \in 0..Full
                        /\ stability[i] <= granted[i] /\ gain[i] \in 0..Full
    BY <1>1, <1>3 DEF TypeOK, NothingUnearned
  <1>5. \A i \in rows : /\ Clamp(stability[i] + gain[i]) \in 0..Full
                        /\ Clamp(granted[i] + gain[i]) \in 0..Full
                        /\ granted[i] <= Clamp(granted[i] + gain[i])
                        /\ Clamp(stability[i] + gain[i]) <= Clamp(granted[i] + gain[i])
    BY <1>4 DEF Clamp
  <1>6. granted' \in [Id -> 0..Full] /\ \A i \in Id : granted[i] <= granted'[i]
    BY <1>1, <1>5 DEF TypeOK
  <1>7. b \in [rows -> 0..Full] /\ \A i \in rows : i \in minted /\ b[i] <= granted'[i]
    BY <1>3, <1>5
  <1>8. b \in UNION {[S -> 0..Full] : S \in SUBSET Id} /\ DOMAIN b = rows
    BY <1>3, <1>7, PartialIntro
  <1> HIDE DEF b
  <1>9. r \in TaskState /\ r.pc = "search_boost" /\ r.boosts = b
    BY <1>2, <1>8 DEF TaskState
  <1> HIDE DEF r
  <1>10. Goto(t, r)
    BY DEF r, b
  <1>11. Grows /\ Links' = Links
    BY <1>1, <1>6 DEF Grows, Links, table, TypeOK
  <1>12. ChainTrue(r, Links', earned') /\ BoostsTrue(r, minted', granted')
    BY <1>1, <1>7, <1>8, <1>9 DEF ChainTrue, BoostsTrue
  <1>13. minted' \subseteq Id /\ earned' \in [Edge -> 0..Full]
    BY <1>1 DEF TypeOK
  <1>14. CarriedTrue' /\ task' \in [Tasks -> TaskState]
    BY <1>1, <1>6, <1>9, <1>10, <1>11, <1>12, <1>13, CarriedStep
  <1>15. TypeOK'
    BY <1>1, <1>6, <1>14 DEF TypeOK, table
  <1>16. BatchLinked'
    BY <1>1, <1>11, BatchStays
  <1>17. UndatedIsTag'
    BY <1>1 DEF UndatedIsTag, table
  <1>18. NothingUnearned'
    <2>1. \A e \in DOMAIN weight' : weight'[e] <= earned'[e]
      BY <1>1 DEF NothingUnearned, table
    <2>2. ASSUME NEW i \in live' PROVE stability'[i] <= granted'[i]
      <3>1. /\ i \in live /\ i \in Id /\ stability'[i] = stability[i]
            /\ stability[i] \in 0..Full /\ granted[i] \in 0..Full /\ granted'[i] \in 0..Full
            /\ stability[i] <= granted[i]
        BY <1>1, <1>6, <2>2 DEF table, TypeOK, NothingUnearned
      <3>2. granted[i] <= granted'[i]
        BY <1>6, <3>1
      <3> QED BY <3>1, <3>2
    <2> QED BY <2>1, <2>2 DEF NothingUnearned
  <1> QED BY <1>14, <1>15, <1>16, <1>17, <1>18 DEF IInv

(* apply_direct_boost overwrites with a stability that was given.          *)
LEMMA SearchBoostStep == ASSUME IInv, NEW t \in Tasks, SearchBoost(t) PROVE IInv'
  <1> DEFINE s == task[t]
             b == s.boosts
             r == IF Cardinality(s.hits) < 2 THEN Idle
                  ELSE [pc |-> "search_strengthen", hits |-> s.hits]
  <1>1. /\ TypeOK /\ CarriedTrue /\ BatchLinked /\ NothingUnearned /\ UndatedIsTag
        /\ UNCHANGED <<requests, live, minted, weight, dated, history>>
        /\ stability' = [i \in Id |-> IF i \in DOMAIN b \cap live THEN b[i] ELSE stability[i]]
        /\ Goto(t, r) /\ s.pc = "search_boost"
    BY DEF IInv, SearchBoost, At
  <1>2. s.hits \subseteq Id /\ b \in UNION {[S -> 0..Full] : S \in SUBSET Id}
    BY <1>1, StageShape DEF TypeOK
  <1>3. b \in [DOMAIN b -> 0..Full]
    BY <1>2, PartialElim
  <1>4. \A i \in DOMAIN b : b[i] <= granted[i]
    BY <1>1 DEF CarriedTrue, BoostsTrue
  <1>5. r \in TaskState /\ r.pc \in {"idle", "search_strengthen"}
    BY <1>2 DEF TaskState, Idle
  <1>6. ChainTrue(r, Links', earned') /\ BoostsTrue(r, minted', granted')
    BY <1>5, OtherTrue
  <1> HIDE DEF b, r
  <1>7. stability' \in [Id -> 0..Full]
    BY <1>1, <1>3 DEF TypeOK
  <1>8. \A i \in live' : stability'[i] <= granted'[i]
    BY <1>1, <1>4 DEF TypeOK, NothingUnearned, history
  <1>9. Grows /\ Links' = Links
    BY <1>1 DEF Grows, Links, history, TypeOK
  <1>10. minted' \subseteq Id /\ earned' \in [Edge -> 0..Full] /\ granted' \in [Id -> 0..Full]
    BY <1>1 DEF TypeOK, history
  <1>11. CarriedTrue' /\ task' \in [Tasks -> TaskState]
    BY <1>1, <1>5, <1>6, <1>9, <1>10, CarriedStep
  <1>12. TypeOK'
    BY <1>1, <1>7, <1>11 DEF TypeOK, history
  <1>13. BatchLinked' /\ UndatedIsTag'
    BY <1>1 DEF BatchLinked, UndatedIsTag, history
  <1>14. NothingUnearned'
    BY <1>1, <1>8 DEF NothingUnearned, history
  <1> QED BY <1>11, <1>12, <1>13, <1>14 DEF IInv

(* strengthen_pairs reads and adds in one transaction, and dates the edge. *)
LEMMA SearchStrengthenStep == ASSUME IInv, NEW t \in Tasks, SearchStrengthen(t) PROVE IInv'
  <1> DEFINE H == task[t].hits
             E == {e \in H \X H : e[1] # e[2]}
             new == [e \in E |-> Clamp(Existing(e) + Amount)]
             gained == [e \in E |-> Amount]
  <1>1. /\ TypeOK /\ CarriedTrue /\ BatchLinked /\ NothingUnearned /\ UndatedIsTag
        /\ Goto(t, Idle) /\ UNCHANGED <<requests, live, minted, stability, granted, acked>>
    BY DEF IInv, SearchStrengthen
  <1>2. CASE H \subseteq live /\ Upsert(new, gained) /\ dated' = dated \cup E
    <2>1. E \subseteq live \X live /\ E \subseteq Edge
      BY <1>1, <1>2 DEF TypeOK, Edge
    <2>2. \A e \in E : /\ new[e] = Clamp(Existing(e) + Amount) /\ gained[e] = Amount
                       /\ Existing(e) \in 0..Full /\ earned[e] \in 0..Full
                       /\ Existing(e) <= earned[e]
      BY <1>1, <2>1 DEF Existing, TypeOK, NothingUnearned
    <2>3. \A e \in E : new[e] \in 0..Full /\ new[e] <= Clamp(earned[e] + gained[e])
      <3> HIDE DEF E, new, gained
      <3> QED BY <2>2 DEF Clamp
    <2>4. new = [e \in E |-> new[e]] /\ gained \in [E -> 0..Full]
      OBVIOUS
    <2> HIDE DEF H, E, new, gained
    <2>5. Affordable(E, new, gained)
      <3>1. new \in [E -> 0..Full]
        BY <2>3, <2>4
      <3> QED BY <2>1, <2>3, <2>4, <3>1 DEF Affordable
    <2>6. Upserted(E, new)
      BY <1>1, <1>2, <2>5, UpsertStep
    <2>7. Grows
      BY <1>1, <2>6 DEF Grows, Upserted, TypeOK
    <2>8. CarriedTrue' /\ task' \in [Tasks -> TaskState]
      <3>1. /\ minted' \subseteq Id /\ earned' \in [Edge -> 0..Full]
            /\ granted' \in [Id -> 0..Full]
        BY <1>1, <2>6 DEF TypeOK, Upserted
      <3> QED BY <1>1, <2>7, <3>1, CarriedStep, IdleTrue
    <2>9. TypeOK'
      BY <1>1, <1>2, <2>6, <2>8 DEF TypeOK, Upserted
    <2>10. BatchLinked'
      BY <1>1, <2>7, BatchStays DEF Grows
    <2>11. NothingUnearned'
      BY <1>1, <2>6 DEF NothingUnearned, Upserted
    <2>12. UndatedIsTag'
      BY <1>1, <1>2, <2>6 DEF UndatedIsTag, Upserted
    <2> QED BY <2>8, <2>9, <2>10, <2>11, <2>12 DEF IInv
  <1>3. CASE UNCHANGED <<weight, earned, cut, dated>>
    BY <1>1, <1>3, QuietStep, IdleTrue DEF TypeOK, table, history
  <1> QED BY <1>2, <1>3 DEF SearchStrengthen

-----------------------------------------------------------------------------
(* Requests of a single statement.                                         *)

(* An Unlink removes edges and records it.                                 *)
LEMMA UnlinkStep == ASSUME IInv, Unlink PROVE IInv'
  <1>1. PICK E : RemoveEdges(E)
    BY DEF Unlink
  <1>2. /\ TypeOK /\ CarriedTrue /\ BatchLinked /\ NothingUnearned /\ UndatedIsTag
        /\ UNCHANGED <<live, minted, stability, task, earned, granted, acked>>
        /\ requests' \in 0..MaxRequests
    BY RequestStep DEF IInv, Unlink
  <1>3. /\ DOMAIN weight' = DOMAIN weight \ E
        /\ weight' \in [DOMAIN weight' -> 0..Full]
        /\ \A e \in DOMAIN weight' : weight'[e] = weight[e]
        /\ dated' = dated \ E /\ cut' \subseteq Edge /\ Links \subseteq Links'
    BY <1>1, <1>2, RemoveStep
  <1>4. Grows
    BY <1>2, <1>3 DEF Grows, TypeOK
  <1>5. CarriedTrue' /\ task' \in [Tasks -> TaskState]
    <2>1. minted' \subseteq Id /\ earned' \in [Edge -> 0..Full] /\ granted' \in [Id -> 0..Full]
      BY <1>2 DEF TypeOK
    <2> QED BY <1>2, <1>4, <2>1, CarriedAlways
  <1>6. TypeOK'
    BY <1>2, <1>3, <1>5 DEF TypeOK
  <1>7. BatchLinked'
    BY <1>2, <1>3, BatchStays
  <1>8. NothingUnearned' /\ UndatedIsTag'
    BY <1>2, <1>3 DEF NothingUnearned, UndatedIsTag
  <1> QED BY <1>5, <1>6, <1>7, <1>8 DEF IInv

(* An Update sets a stability that it gives.                               *)
LEMMA UpdateStep == ASSUME IInv, Update PROVE IInv'
  <1> PICK i \in live, v \in Stabilities :
          /\ stability' = [stability EXCEPT ![i] = v]
          /\ granted' = [granted EXCEPT ![i] = IF v > granted[i] THEN v ELSE granted[i]]
    BY DEF Update
  <1>1. /\ TypeOK /\ CarriedTrue /\ BatchLinked /\ NothingUnearned /\ UndatedIsTag
        /\ UNCHANGED <<live, minted, weight, dated, task, earned, cut, acked>>
        /\ requests' \in 0..MaxRequests
    BY RequestStep DEF IInv, Update
  <1>2. /\ stability' \in [Id -> 0..Full] /\ granted' \in [Id -> 0..Full]
        /\ \A k \in Id : granted[k] <= granted'[k]
        /\ \A k \in live' : stability'[k] <= granted'[k]
    BY <1>1 DEF TypeOK, NothingUnearned
  <1>3. Grows
    BY <1>1, <1>2 DEF Grows, Links, TypeOK
  <1>4. CarriedTrue' /\ task' \in [Tasks -> TaskState]
    <2>1. minted' \subseteq Id /\ earned' \in [Edge -> 0..Full]
      BY <1>1 DEF TypeOK
    <2> QED BY <1>1, <1>2, <1>3, <2>1, CarriedAlways
  <1>5. TypeOK'
    BY <1>1, <1>2, <1>4 DEF TypeOK
  <1>6. BatchLinked' /\ UndatedIsTag' /\ NothingUnearned'
    BY <1>1, <1>2 DEF BatchLinked, UndatedIsTag, NothingUnearned
  <1> QED BY <1>4, <1>5, <1>6 DEF IInv

(* A Delete takes the edges of its memory along and records it.            *)
LEMMA DeleteStep == ASSUME IInv, Delete PROVE IInv'
  <1> PICK i \in live :
          /\ live' = live \ {i}
          /\ stability' = [stability EXCEPT ![i] = 0]
          /\ RemoveEdges({e \in Edge : i \in {e[1], e[2]}})
    BY DEF Delete
  <1> DEFINE E == {e \in Edge : i \in {e[1], e[2]}}
  <1>1. /\ TypeOK /\ CarriedTrue /\ BatchLinked /\ NothingUnearned /\ UndatedIsTag
        /\ UNCHANGED <<minted, task, earned, granted, acked>>
        /\ requests' \in 0..MaxRequests
    BY RequestStep DEF IInv, Delete
  <1>2. DOMAIN weight \ E \subseteq (live \ {i}) \X (live \ {i})
    <2> SUFFICES ASSUME NEW e \in DOMAIN weight \ E PROVE e \in (live \ {i}) \X (live \ {i})
      OBVIOUS
    <2>1. e \in live \X live /\ e \in Edge
      BY <1>1 DEF TypeOK, Edge
    <2> QED BY <2>1
  <1> HIDE DEF E
  <1>3. /\ DOMAIN weight' = DOMAIN weight \ E
        /\ weight' \in [DOMAIN weight' -> 0..Full]
        /\ \A e \in DOMAIN weight' : weight'[e] = weight[e]
        /\ dated' = dated \ E /\ cut' \subseteq Edge /\ Links \subseteq Links'
    BY <1>1, RemoveStep DEF E
  <1>4. stability' \in [Id -> 0..Full] /\ \A k \in live' : stability'[k] <= granted'[k]
    BY <1>1 DEF TypeOK, NothingUnearned
  <1>5. Grows
    BY <1>1, <1>3 DEF Grows, TypeOK
  <1>6. CarriedTrue' /\ task' \in [Tasks -> TaskState]
    <2>1. minted' \subseteq Id /\ earned' \in [Edge -> 0..Full] /\ granted' \in [Id -> 0..Full]
      BY <1>1 DEF TypeOK
    <2> QED BY <1>1, <1>5, <2>1, CarriedAlways
  <1>7. TypeOK'
    BY <1>1, <1>2, <1>3, <1>4, <1>6 DEF TypeOK
  <1>8. BatchLinked'
    BY <1>1, <1>3, BatchStays
  <1>9. NothingUnearned' /\ UndatedIsTag'
    BY <1>1, <1>3, <1>4 DEF NothingUnearned, UndatedIsTag
  <1> QED BY <1>6, <1>7, <1>8, <1>9 DEF IInv

(* A request that ends early leaves what it wrote.                         *)
LEMMA DropStep == ASSUME IInv, NEW t \in Tasks, Drop(t) PROVE IInv'
  BY QuietStep, IdleTrue DEF Drop, IInv, TypeOK

-----------------------------------------------------------------------------
(* Theorems.                                                               *)

(* Every step preserves the invariant.                                     *)
LEMMA IInvStep == IInv /\ [Next]_vars => IInv'
  <1> SUFFICES ASSUME IInv, [Next]_vars PROVE IInv'
    OBVIOUS
  <1>1. CASE UNCHANGED vars
    <2>1. UNCHANGED <<task, requests, live, weight, dated, stability, minted, earned, granted,
                      cut, acked>>
      BY <1>1 DEF vars, table, history
    <2> QED BY <2>1 DEF IInv, TypeOK, CarriedTrue, BatchLinked, NothingUnearned, UndatedIsTag,
                        Links
  <1>2. ASSUME NEW t \in Tasks, LinkStart(t) \/ LinkRead(t) \/ LinkWrite(t) PROVE IInv'
    BY <1>2, LinkStartStep, LinkReadStep, LinkWriteStep
  <1>3. ASSUME NEW t \in Tasks, BatchStart(t) \/ BatchInsert(t) PROVE IInv'
    BY <1>3, BatchStartStep, BatchInsertStep
  <1>4. ASSUME NEW t \in Tasks, StoreInsert(t) \/ StoreSearch(t) \/ StoreTag(t) PROVE IInv'
    BY <1>4, StoreInsertStep, StoreSearchStep, StoreTagStep
  <1>5. ASSUME NEW t \in Tasks,
               SearchQuery(t) \/ SearchRead(t) \/ SearchBoost(t) \/ SearchStrengthen(t)
        PROVE  IInv'
    BY <1>5, SearchQueryStep, SearchReadStep, SearchBoostStep, SearchStrengthenStep
  <1>6. ASSUME NEW t \in Tasks, Drop(t) PROVE IInv'
    BY <1>6, DropStep
  <1>7. CASE Unlink \/ Update \/ Delete
    BY <1>7, UnlinkStep, UpdateStep, DeleteStep
  <1> QED BY <1>1, <1>2, <1>3, <1>4, <1>5, <1>6, <1>7 DEF Next

(* The invariant holds in every state of every behaviour.                  *)
LEMMA IInvHolds == Spec => []IInv
  BY InitIInv, IInvStep, PTL DEF Spec

(* The tables, the histories and the records of the requests keep their    *)
(* shape: an association always joins two rows, every weight and stability *)
(* lies between 0 and 1, and a chain holds a sequence of ids.              *)
THEOREM AssociationsTypeCorrect == Spec => []TypeOK
  BY IInvHolds, PTL DEF IInv

(* An acknowledged StoreBatch has linked every pair of its memories both   *)
(* ways, for batches of any size and any number of requests beside it.     *)
THEOREM BatchLinkedHolds == Spec => []BatchLinked
  BY IInvHolds, PTL DEF IInv

(* No interleaving of the requests that read, compute and write later with *)
(* the ones that add in place makes a link or a memory stronger than       *)
(* everything it was given.                                                *)
THEOREM NothingUnearnedHolds == Spec => []NothingUnearned
  BY IInvHolds, PTL DEF IInv

(* An edge that anything but a synaptic tag has strengthened is dated:     *)
(* edges without a last_co_retrieval have the weight of a tag.             *)
THEOREM UndatedIsTagHolds == Spec => []UndatedIsTag
  BY IInvHolds, PTL DEF IInv
=============================================================================
