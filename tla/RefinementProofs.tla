-------------------------- MODULE RefinementProofs --------------------------
(***************************************************************************)
(* Lifecycle implements MemoryLife: the initial states map to initial      *)
(* states and every step of a request maps to a step of MemoryLife or to   *)
(* none.                                                                   *)
(***************************************************************************)
EXTENDS LifecycleProofs

USE StoreAssumption, LifecycleAssumption

-----------------------------------------------------------------------------
(* The strengthening: one transaction at a time is open on the writer, and *)
(* its uncommitted tables differ from the committed ones by verdicts only. *)

JudgedFrom(d, e) ==
    /\ e.live = d.live /\ e.stub = d.stub
    /\ d.superseded \subseteq e.superseded
    /\ \A i \in Id : IF i \in e.superseded \ d.superseded
                     THEN e.contradictedBy[i] \in Id \ {i}
                     ELSE e.contradictedBy[i] = d.contradictedBy[i]

OneWriter ==
    \A t \in Tasks : At(t, "tick_judge") =>
        /\ JudgedFrom(db, task[t].draft)
        /\ \A u \in Tasks : At(u, "tick_judge") => u = t

(* One more verdict of the open transaction.                               *)
LEMMA JudgedFromStep ==
  ASSUME NEW d \in Database, NEW e \in Database, NEW p \in Id \X Id, p[1] # p[2],
         NEW f \in Outcomes(e, p), JudgedFrom(d, e)
  PROVE  JudgedFrom(d, Dequeue(f, p))
  <1> DEFINE best == IF e.importance[p[2]] > e.importance[p[1]]
                     THEN e.importance[p[2]] ELSE e.importance[p[1]]
             b == SetImportance(e, {p[1]}, best)
  <1>1. p[1] \in Id /\ p[2] \in Id
    OBVIOUS
  <1>2. best \in Importances
    BY <1>1 DEF Database
  <1>3. b \in Database
    BY <1>2, UpdateType, ZeroTypes
  <1>4. b.live = e.live /\ b.stub = e.stub /\ b.superseded = e.superseded
        /\ b.contradictedBy = e.contradictedBy
    BY DEF SetImportance, Database
  <1>5. ASSUME NEW c \in {e, b}, NEW x \in Id, NEW y \in Id, x # y, x \notin e.superseded
        PROVE  JudgedFrom(d, Judged(c, x, y))
    <2>1. /\ c \in Database /\ c.live = e.live /\ c.stub = e.stub
          /\ c.superseded = e.superseded /\ c.contradictedBy = e.contradictedBy
      BY <1>3, <1>4
    <2> DEFINE j == Judged(c, x, y)
    <2>2. /\ j.live = e.live /\ j.stub = e.stub /\ j.superseded = e.superseded \cup {x}
          /\ j.contradictedBy = Put(e.contradictedBy, {x}, y)
      BY <2>1 DEF Judged, Database
    <2> HIDE DEF j
    <2>3. JudgedFrom(d, j)
      BY <1>5, <2>2 DEF JudgedFrom, Put
    <2> QED BY <2>3 DEF j
  <1>6. \/ f = e
        \/ /\ {p[1], p[2]} \subseteq e.live \ e.superseded
           /\ f \in {Judged(e, p[2], p[1]), Judged(e, p[1], p[2]), Judged(b, p[2], p[1])}
    BY Zenon DEF Outcomes
  <1>7. JudgedFrom(d, f)
    BY <1>1, <1>5, <1>6
  <1>8. f \in Database
    BY OutcomesType
  <1>9. LET g == Dequeue(f, p) IN /\ g.live = f.live /\ g.stub = f.stub
                                  /\ g.superseded = f.superseded
                                  /\ g.contradictedBy = f.contradictedBy
    BY <1>8 DEF Dequeue, Database
  <1> QED BY <1>7, <1>9 DEF JudgedFrom

(* A write that finds the writer free leaves it free.                      *)
LEMMA WriteKeepsOneWriter ==
  ASSUME TypeOK, WriterFree, NEW t \in Tasks, NEW s, Goto(t, s), s.pc # "tick_judge"
  PROVE  OneWriter'
  BY DEF TypeOK, OneWriter, WriterFree, At, Goto

(* A read does not touch the open transaction.                             *)
LEMMA ReadKeepsOneWriter ==
  ASSUME TypeOK, OneWriter, NEW t \in Tasks, NEW s, Goto(t, s), s.pc # "tick_judge", UNCHANGED db
  PROVE  OneWriter'
  BY DEF TypeOK, OneWriter, At, Goto

(* Writers exclude each other and an open transaction only adds verdicts.  *)
LEMMA OneWriterStep == IInv /\ OneWriter /\ [Next]_vars => OneWriter'
  <1> SUFFICES ASSUME IInv, OneWriter, [Next]_vars PROVE OneWriter'
    OBVIOUS
  <1>a. TypeOK
    BY DEF IInv
  <1>b. /\ Idle.pc # "tick_judge"
        /\ \A H : AfterBoost(H).pc # "tick_judge"
        /\ \A n : AfterResolve(n).pc # "tick_judge"
    BY DEF Idle, AfterBoost, AfterResolve
  <1>1. ASSUME NEW t \in Tasks, StoreInsert(t) PROVE OneWriter'
    BY <1>1, <1>a, WriteKeepsOneWriter DEF StoreInsert, Commit
  <1>2. ASSUME NEW t \in Tasks, StoreSearch(t) PROVE OneWriter'
    BY <1>2, <1>a, ReadKeepsOneWriter DEF StoreSearch
  <1>3. ASSUME NEW t \in Tasks, StoreQueue(t) PROVE OneWriter'
    BY <1>3, <1>a, <1>b, WriteKeepsOneWriter DEF StoreQueue, Commit
  <1>4. ASSUME NEW t \in Tasks, GetRead(t) PROVE OneWriter'
    BY <1>4, <1>a, ReadKeepsOneWriter DEF GetRead
  <1>5. ASSUME NEW t \in Tasks, GetRestore(t) PROVE OneWriter'
    BY <1>5, <1>a, <1>b, WriteKeepsOneWriter DEF GetRestore, Commit
  <1>6. ASSUME NEW t \in Tasks, SearchQuery(t) PROVE OneWriter'
    BY <1>6, <1>a, ReadKeepsOneWriter DEF SearchQuery
  <1>7. ASSUME NEW t \in Tasks, SearchFindCold(t) PROVE OneWriter'
    BY <1>7, <1>a, ReadKeepsOneWriter DEF SearchFindCold
  <1>8. ASSUME NEW t \in Tasks, SearchRestore(t) PROVE OneWriter'
    BY <1>8, <1>a, WriteKeepsOneWriter DEF SearchRestore, Commit
  <1>9. ASSUME NEW t \in Tasks, SearchReadRows(t) PROVE OneWriter'
    BY <1>9, <1>a, <1>b, ReadKeepsOneWriter DEF SearchReadRows
  <1>10. ASSUME NEW t \in Tasks, SearchBoost(t) PROVE OneWriter'
    BY <1>10, <1>a, <1>b, WriteKeepsOneWriter DEF SearchBoost, Commit
  <1>11. ASSUME NEW t \in Tasks, SearchPromote(t) PROVE OneWriter'
    BY <1>11, <1>a, <1>b, WriteKeepsOneWriter DEF SearchPromote, Commit
  <1>12. ASSUME NEW t \in Tasks, SearchLink(t) PROVE OneWriter'
    BY <1>12, <1>a, <1>b, WriteKeepsOneWriter DEF SearchLink, Commit
  <1>13. ASSUME NEW t \in Tasks, TickReadHot(t) PROVE OneWriter'
    BY <1>13, <1>a, ReadKeepsOneWriter DEF TickReadHot
  <1>14. ASSUME NEW t \in Tasks, TickMigrate(t) PROVE OneWriter'
    BY <1>14, <1>a, WriteKeepsOneWriter DEF TickMigrate, Commit
  <1>15. ASSUME NEW t \in Tasks, TickReadCold(t) PROVE OneWriter'
    BY <1>15, <1>a, ReadKeepsOneWriter DEF TickReadCold
  <1>16. ASSUME NEW t \in Tasks, TickStub(t) PROVE OneWriter'
    BY <1>16, <1>a, WriteKeepsOneWriter DEF TickStub, Commit
  <1>17. ASSUME NEW t \in Tasks, TickReadQueue(t) PROVE OneWriter'
    BY <1>17, <1>a, <1>b, ReadKeepsOneWriter DEF TickReadQueue
  <1>18. ASSUME NEW t \in Tasks, TickBegin(t) PROVE OneWriter'
    <2>1. JudgedFrom(db, db)
      BY DEF JudgedFrom
    <2> QED BY <1>18, <1>a, <2>1 DEF TickBegin, WriterFree, TypeOK, OneWriter, At, Goto
  <1>19. ASSUME NEW t \in Tasks, TickJudge(t) PROVE OneWriter'
    <2> DEFINE p == Head(task[t].pairs)
    <2>1. /\ task[t].pairs \in Seq(Id \X Id) /\ task[t].draft \in Database /\ task[t].pairs # <<>>
          /\ \A k \in 1..Len(task[t].pairs) : task[t].pairs[k][1] # task[t].pairs[k][2]
      BY <1>a, <1>19, StageFields DEF TickJudge, At, IInv, Carried, TypeOK
    <2>2. p \in Id \X Id /\ p[1] # p[2]
      BY <2>1
    <2>3. JudgedFrom(db, task[t].draft) /\ db \in Database
      BY <1>a, <1>19 DEF TickJudge, OneWriter, TypeOK
    <2>4. PICK d \in Outcomes(task[t].draft, p) :
            Goto(t, [pc |-> "tick_judge", now |-> task[t].now, pairs |-> Tail(task[t].pairs),
                     draft |-> Dequeue(d, p)])
      BY <1>19 DEF TickJudge
    <2>5. JudgedFrom(db, Dequeue(d, p))
      BY <2>1, <2>2, <2>3, JudgedFromStep
    <2>6. /\ task'[t].draft = Dequeue(d, p)
          /\ \A u \in Tasks \ {t} : task'[u] = task[u]
      BY <1>a, <2>4 DEF TypeOK, Goto
    <2> QED BY <1>19, <2>3, <2>5, <2>6 DEF TickJudge, OneWriter, At
  <1>20. ASSUME NEW t \in Tasks, TickCommit(t) PROVE OneWriter'
    <2>1. \A u \in Tasks : task'[u].pc # "tick_judge"
      BY <1>20, <1>a, <1>b DEF TickCommit, OneWriter, At, Goto, TypeOK
    <2> QED BY <2>1 DEF OneWriter, At
  <1>21. ASSUME NEW t \in Tasks, TickReadFading(t) PROVE OneWriter'
    BY <1>21, <1>a, ReadKeepsOneWriter DEF TickReadFading
  <1>22. ASSUME NEW t \in Tasks, TickCompress(t) PROVE OneWriter'
    BY <1>22, <1>a, WriteKeepsOneWriter DEF TickCompress, Commit
  <1>23. ASSUME NEW t \in Tasks, TickSupersede(t) PROVE OneWriter'
    BY <1>23, <1>a, <1>b, WriteKeepsOneWriter DEF TickSupersede, Commit
  <1>24. ASSUME NEW t \in Tasks, TickEnd(t) \/ AcquireTimeout(t) \/ Disconnect(t) PROVE OneWriter'
    BY <1>24, <1>a, <1>b, ReadKeepsOneWriter DEF TickEnd, AcquireTimeout, Disconnect
  <1>25. ASSUME SingleWrite PROVE OneWriter'
    <2>1. WriterFree /\ UNCHANGED task
      BY <1>25 DEF SingleWrite, Update, UpdateRetention, BatchUpdate, DeleteMany, Clear, Link,
                   Unlink, Supersede, ToCold, ToHot, ToStub, Write, Commit
    <2> QED BY <2>1 DEF WriterFree, OneWriter, At
  <1>26. ASSUME Restart PROVE OneWriter'
    BY <1>26, <1>b DEF Restart, OneWriter, At
  <1>27. ASSUME Advance \/ UNCHANGED vars PROVE OneWriter'
    BY <1>27 DEF Advance, vars, OneWriter, At
  <1> QED
    BY <1>1, <1>2, <1>3, <1>4, <1>5, <1>6, <1>7, <1>8, <1>9, <1>10, <1>11, <1>12, <1>13, <1>14,
       <1>15, <1>16, <1>17, <1>18, <1>19, <1>20, <1>21, <1>22, <1>23, <1>24, <1>25, <1>26, <1>27
    DEF Next, Start, Step

-----------------------------------------------------------------------------
(* Every kind of write is a step of MemoryLife.                            *)

(* A fresh row is a birth.                                                 *)
LEMMA BornStep ==
  ASSUME IInv, NEW id \in Id \ minted, NEW cat, NEW imp, NEW at,
         db' = Insert(db, id, cat, imp, at), minted' = minted \cup {id}
  PROVE  Life!Born(id)
  <1>1. /\ db'.live = db.live \cup {id} /\ db'.stub = db.stub /\ db'.superseded = db.superseded
        /\ db'.contradictedBy = db.contradictedBy
    BY DEF IInv, TypeOK, Insert, Database
  <1>2. id \notin db.live /\ id \notin db.stub
    BY DEF IInv, Consistent, Rows
  <1>3. Phase' = [Phase EXCEPT ![id] = "full"]
    BY <1>1, <1>2 DEF Phase
  <1>4. Phase[id] = "unborn"
    BY <1>2 DEF Phase
  <1> QED BY <1>1, <1>3, <1>4 DEF Life!Born

(* A delete forgets.                                                       *)
LEMMA ForgetStep ==
  ASSUME IInv, NEW S \in SUBSET db.live, db' = Delete(db, S), UNCHANGED minted
  PROVE  Life!Forget(S)
  <1>1. /\ db'.live = db.live \ S /\ db'.stub = db.stub \ S
        /\ db'.superseded = db.superseded \ S
        /\ db'.contradictedBy = [i \in Id |-> IF i \in S THEN NoId ELSE db.contradictedBy[i]]
    BY DEF Delete, Put
  <1>2. db.live \subseteq minted /\ minted \subseteq Id /\ db.stub \subseteq db.live
    BY DEF IInv, TypeOK, Consistent, Rows
  <1>3. Phase' = [i \in Id |-> IF i \in S THEN "deleted" ELSE Phase[i]]
    BY <1>1, <1>2 DEF Phase
  <1>4. S \subseteq Life!Present
    BY <1>2 DEF Phase, Life!Present
  <1> QED BY <1>1, <1>3, <1>4 DEF Life!Forget

(* A new stub is an archival.                                              *)
LEMMA ArchiveStep ==
  ASSUME IInv, NEW S, db' = ConvertToStub(db, S) \/ db' = ArchivePass(db, S), UNCHANGED minted
  PROVE  Life!Archive(S \cap db.live)
  <1>1. /\ db'.live = db.live /\ db'.stub = db.stub \cup (S \cap db.live)
        /\ db'.superseded = db.superseded /\ db'.contradictedBy = db.contradictedBy
    BY DEF IInv, TypeOK, ConvertToStub, ArchivePass, Database
  <1>2. db.live \subseteq Id
    BY DEF IInv, TypeOK, Database
  <1>3. Phase' = [i \in Id |-> IF i \in S \cap db.live THEN "stub" ELSE Phase[i]]
    BY <1>1, <1>2 DEF Phase
  <1>4. S \cap db.live \subseteq Life!Present
    BY <1>2 DEF Phase, Life!Present
  <1> QED BY <1>1, <1>3, <1>4 DEF Life!Archive

(* A supersession outside pass 3 leaves verdicts alone.                    *)
LEMMA SupersedeStep ==
  ASSUME IInv, NEW S,
         db'.live = db.live, db'.stub = db.stub, db'.contradictedBy = db.contradictedBy,
         db'.superseded = db.superseded \cup (S \cap db.live), UNCHANGED minted
  PROVE  Life!Supersede(S \cap db.live)
  <1>1. db.live \subseteq Id
    BY DEF IInv, TypeOK, Database
  <1>2. S \cap db.live \subseteq Life!Present
    BY <1>1 DEF Phase, Life!Present
  <1>3. Phase' = Phase
    BY DEF Phase
  <1> QED BY <1>2, <1>3 DEF Life!Supersede

(* The commit of pass 3 judges the memories it supersedes, once each.      *)
LEMMA JudgeStep ==
  ASSUME IInv, NEW e \in Database, Consistent(e, minted), JudgedFrom(db, e),
         db' = e, UNCHANGED minted
  PROVE  Life!Judge(e.superseded \ db.superseded)
  <1> DEFINE S == e.superseded \ db.superseded
  <1>1. e.superseded \subseteq db.live /\ db.live \subseteq Id
    BY DEF IInv, TypeOK, Database, Consistent, Rows, JudgedFrom
  <1>2. S \subseteq Life!Present \ db.superseded
    BY <1>1 DEF Phase, Life!Present
  <1>3. Phase' = Phase
    BY DEF JudgedFrom, Phase
  <1>4. \A i \in S : db.contradictedBy[i] = NoId
    BY <1>1 DEF IInv, Consistent, Verdicts, Lost
  <1>5. /\ \A i \in S : db'.contradictedBy[i] \in Id \ {i}
        /\ \A i \in Id \ S : db'.contradictedBy[i] = db.contradictedBy[i]
    BY <1>1 DEF JudgedFrom
  <1>6. DOMAIN db'.contradictedBy = Id
    BY DEF Database
  <1>7. db'.superseded = db.superseded \cup S
    BY DEF JudgedFrom
  <1> HIDE DEF S
  <1>8. Life!Judge(S)
    BY <1>2, <1>3, <1>4, <1>5, <1>6, <1>7 DEF Life!Judge
  <1> QED BY <1>8 DEF S

(* A write that touches none of the four columns stutters.                 *)
LEMMA StutterStep ==
  ASSUME db'.live = db.live, db'.stub = db.stub, db'.superseded = db.superseded,
         db'.contradictedBy = db.contradictedBy, UNCHANGED minted
  PROVE  UNCHANGED Life!lifeVars
  <1>1. Phase' = Phase
    BY DEF Phase
  <1> QED BY <1>1 DEF Life!lifeVars

-----------------------------------------------------------------------------
(* Every step of a request is a step of MemoryLife or stutters.            *)
LEMMA LifeStep == IInv /\ OneWriter /\ [Next]_vars => [Life!LifeNext]_(Life!lifeVars)
  <1> SUFFICES ASSUME IInv, OneWriter, [Next]_vars PROVE [Life!LifeNext]_(Life!lifeVars)
    OBVIOUS
  <1> DEFINE Simulated == Life!LifeNext \/ UNCHANGED Life!lifeVars
  <1>a. db \in Database /\ db.live \subseteq Id /\ task \in [Tasks -> TaskState]
    BY DEF IInv, TypeOK, Database
  <1>b. ASSUME UNCHANGED <<db, minted>> PROVE Simulated
    BY <1>b, StutterStep
  <1>1. ASSUME NEW t \in Tasks, StoreInsert(t) PROVE Simulated
    BY <1>1, BornStep DEF StoreInsert, Commit, Life!LifeNext
  <1>2. ASSUME NEW t \in Tasks, StoreQueue(t) \/ SearchLink(t) PROVE Simulated
    <2>1. ASSUME NEW E, NEW Q, db' = Associate(Enqueue(db, Q), E) \/ db' = Associate(db, E)
          PROVE  /\ db'.live = db.live /\ db'.stub = db.stub
                 /\ db'.superseded = db.superseded /\ db'.contradictedBy = db.contradictedBy
      BY <1>a, <2>1 DEF Associate, Enqueue, Database
    <2>2. /\ db'.live = db.live /\ db'.stub = db.stub
          /\ db'.superseded = db.superseded /\ db'.contradictedBy = db.contradictedBy
      BY <1>2, <2>1 DEF StoreQueue, SearchLink, Commit
    <2> QED BY <1>2, <2>2, StutterStep DEF StoreQueue, SearchLink
  <1>3. ASSUME NEW t \in Tasks, GetRestore(t) \/ SearchRestore(t) PROVE Simulated
    <2>1. PICK S : db' = MigrateToHot(db, S)
      BY <1>3 DEF GetRestore, SearchRestore, Commit
    <2>2. /\ db'.live = db.live /\ db'.stub = db.stub
          /\ db'.superseded = db.superseded /\ db'.contradictedBy = db.contradictedBy
      BY <1>a, <2>1 DEF MigrateToHot, Database
    <2> QED BY <1>3, <2>2, StutterStep DEF GetRestore, SearchRestore
  <1>4. ASSUME NEW t \in Tasks, SearchBoost(t) PROVE Simulated
    <2>1. /\ db'.live = db.live /\ db'.stub = db.stub
          /\ db'.superseded = db.superseded /\ db'.contradictedBy = db.contradictedBy
      BY <1>a, <1>4 DEF SearchBoost, Commit, ApplyDirectBoost, Database
    <2> QED BY <1>4, <2>1, StutterStep DEF SearchBoost
  <1>5. ASSUME NEW t \in Tasks, SearchPromote(t) PROVE Simulated
    <2>1. /\ db'.live = db.live /\ db'.stub = db.stub
          /\ db'.superseded = db.superseded /\ db'.contradictedBy = db.contradictedBy
      BY <1>a, <1>5 DEF SearchPromote, Commit, PromoteToCore, Database
    <2> QED BY <1>5, <2>1, StutterStep DEF SearchPromote
  <1>6. ASSUME NEW t \in Tasks, TickMigrate(t) PROVE Simulated
    <2>1. /\ db'.live = db.live /\ db'.stub = db.stub
          /\ db'.superseded = db.superseded /\ db'.contradictedBy = db.contradictedBy
      BY <1>a, <1>6 DEF TickMigrate, Commit, MigratePass, MigrateToCold, Database
    <2> QED BY <1>6, <2>1, StutterStep DEF TickMigrate
  <1>7. ASSUME NEW t \in Tasks, TickStub(t) PROVE Simulated
    <2>1. Life!Archive(task[t].expired \cap db.live)
      BY <1>7, ArchiveStep DEF TickStub, Commit
    <2>2. task[t].expired \cap db.live \in SUBSET Id
      BY <1>a
    <2> QED BY <2>1, <2>2 DEF Life!LifeNext
  <1>8. ASSUME NEW t \in Tasks, TickCommit(t) PROVE Simulated
    <2>1. task[t].draft \in Database /\ Consistent(task[t].draft, minted)
      BY <1>a, <1>8, StageFields DEF TickCommit, At, IInv, Carried
    <2>2. JudgedFrom(db, task[t].draft)
      BY <1>8 DEF TickCommit, OneWriter
    <2>3. Life!Judge(task[t].draft.superseded \ db.superseded)
      BY <1>8, <2>1, <2>2, JudgeStep DEF TickCommit
    <2>4. task[t].draft.superseded \ db.superseded \in SUBSET Id
      BY <2>1 DEF Database
    <2> QED BY <2>3, <2>4 DEF Life!LifeNext
  <1>9. ASSUME NEW t \in Tasks, TickCompress(t) PROVE Simulated
    BY <1>9, BornStep DEF TickCompress, Commit, Life!LifeNext
  <1>10. ASSUME NEW t \in Tasks, TickSupersede(t) PROVE Simulated
    <2> DEFINE S == task[t].group
               d == MarkSuperseded(db, S, task[t].summary)
    <2>1. task[t].summary \in Id
      BY <1>a, <1>10, StageFields DEF TickSupersede, At
    <2>2. d \in Database
      BY <1>a, <2>1, MarkType, ZeroTypes
    <2>3. /\ d.live = db.live /\ d.stub = db.stub /\ d.contradictedBy = db.contradictedBy
          /\ d.superseded = db.superseded \cup (S \cap db.live)
      BY <1>a DEF MarkSuperseded, Database
    <2>4. db' = MigrateToCold(d, S, task[t].now) /\ UNCHANGED minted
      BY <1>10 DEF TickSupersede, Commit
    <2> HIDE DEF d
    <2>5. /\ db'.live = d.live /\ db'.stub = d.stub /\ db'.contradictedBy = d.contradictedBy
          /\ db'.superseded = d.superseded
      BY <2>2, <2>4 DEF MigrateToCold, Database
    <2>6. Life!Supersede(S \cap db.live)
      BY <2>3, <2>4, <2>5, SupersedeStep
    <2>7. S \cap db.live \in SUBSET Id
      BY <1>a
    <2> QED BY <2>6, <2>7 DEF Life!LifeNext
  <1>11. ASSUME NEW t \in Tasks,
                \/ StoreSearch(t) \/ GetRead(t) \/ SearchQuery(t) \/ SearchFindCold(t)
                \/ SearchReadRows(t) \/ TickReadHot(t) \/ TickReadCold(t) \/ TickReadQueue(t)
                \/ TickBegin(t) \/ TickJudge(t) \/ TickReadFading(t) \/ TickEnd(t)
                \/ AcquireTimeout(t) \/ Disconnect(t)
         PROVE  Simulated
    BY <1>b, <1>11 DEF StoreSearch, GetRead, SearchQuery, SearchFindCold, SearchReadRows,
         TickReadHot, TickReadCold, TickReadQueue, TickBegin, TickJudge, TickReadFading, TickEnd,
         AcquireTimeout, Disconnect
  <1>12. ASSUME SingleWrite PROVE Simulated
    <2>1. ASSUME NEW op, NEW d, Write(op, d), d.live = db.live, d.stub = db.stub,
                 d.superseded = db.superseded, d.contradictedBy = db.contradictedBy
          PROVE  Simulated
      BY <2>1, StutterStep DEF Write, Commit
    <2>2. CASE Update
      <3>1. PICK i \in db.live, cat \in {"core", "other"}, f \in Floors, imp \in Importances :
              \E d1 \in {db, SetCategory(db, {i}, cat)} :
              \E d2 \in {d1, SetFloor(d1, {i}, f)} :
              \E d3 \in {d2, SetImportance(d2, {i}, imp)} : Write("update", d3)
        BY <2>2 DEF Update
      <3> DEFINE Same(d) == /\ d \in Database /\ d.live = db.live /\ d.stub = db.stub
                            /\ d.superseded = db.superseded
                            /\ d.contradictedBy = db.contradictedBy
      <3>2. ASSUME NEW d, Same(d)
            PROVE  /\ Same(SetCategory(d, {i}, cat)) /\ Same(SetFloor(d, {i}, f))
                   /\ Same(SetImportance(d, {i}, imp))
        <4>1. /\ SetCategory(d, {i}, cat) \in Database /\ SetFloor(d, {i}, f) \in Database
              /\ SetImportance(d, {i}, imp) \in Database
          BY <3>2, UpdateType
        <4>2. \A e \in {SetCategory(d, {i}, cat), SetFloor(d, {i}, f), SetImportance(d, {i}, imp)} :
                /\ e.live = d.live /\ e.stub = d.stub /\ e.superseded = d.superseded
                /\ e.contradictedBy = d.contradictedBy
          BY <3>2 DEF SetCategory, SetFloor, SetImportance, Database
        <4> QED BY <3>2, <4>1, <4>2
      <3>3. Same(db)
        BY <1>a
      <3>4. \E d3 : Same(d3) /\ Write("update", d3)
        <4>1. PICK d1 \in {db, SetCategory(db, {i}, cat)} :
                \E d2 \in {d1, SetFloor(d1, {i}, f)} :
                \E d3 \in {d2, SetImportance(d2, {i}, imp)} : Write("update", d3)
          BY <3>1
        <4>2. PICK d2 \in {d1, SetFloor(d1, {i}, f)} :
                \E d3 \in {d2, SetImportance(d2, {i}, imp)} : Write("update", d3)
          BY <4>1
        <4>3. PICK d3 \in {d2, SetImportance(d2, {i}, imp)} : Write("update", d3)
          BY <4>2
        <4> HIDE DEF Same
        <4>4. Same(d1)
          BY <3>2, <3>3, <4>1
        <4>5. Same(d2)
          BY <3>2, <4>2, <4>4
        <4>6. Same(d3)
          BY <3>2, <4>3, <4>5
        <4> QED BY <4>3, <4>6
      <3> QED BY <2>1, <3>4
    <2>3. CASE UpdateRetention
      <3>1. \A i, f : LET d == SetFloor(db, {i}, f) IN
              /\ d.live = db.live /\ d.stub = db.stub /\ d.superseded = db.superseded
              /\ d.contradictedBy = db.contradictedBy
        BY <1>a DEF SetFloor, Database
      <3> QED BY <2>1, <2>3, <3>1 DEF UpdateRetention
    <2>4. CASE BatchUpdate
      <3>1. \A f : LET d == [db EXCEPT !.floor = f] IN
              /\ d.live = db.live /\ d.stub = db.stub /\ d.superseded = db.superseded
              /\ d.contradictedBy = db.contradictedBy
        BY <1>a DEF Database
      <3> QED BY <2>1, <2>4, <3>1 DEF BatchUpdate
    <2>5. CASE DeleteMany \/ Clear
      <3>1. PICK S \in SUBSET db.live : db' = Delete(db, S) /\ UNCHANGED minted
        BY <2>5 DEF DeleteMany, Clear, Write, Commit
      <3>2. Life!Forget(S) /\ S \in SUBSET Id
        BY <1>a, <3>1, ForgetStep
      <3> QED BY <3>2 DEF Life!LifeNext
    <2>6. CASE Supersede
      <3>1. PICK S \in SUBSET db.live, by \in minted \cup {Foreign} :
              db' = MarkSuperseded(db, S, by) /\ UNCHANGED minted
        BY <2>6 DEF Supersede, Write, Commit
      <3>2. /\ db'.live = db.live /\ db'.stub = db.stub /\ db'.contradictedBy = db.contradictedBy
            /\ db'.superseded = db.superseded \cup (S \cap db.live)
        BY <1>a, <3>1 DEF MarkSuperseded, Database
      <3>3. Life!Supersede(S \cap db.live) /\ S \cap db.live \in SUBSET Id
        BY <1>a, <3>1, <3>2, SupersedeStep
      <3> QED BY <3>3 DEF Life!LifeNext
    <2>7. CASE ToCold \/ ToHot
      <3>1. \/ \E S, since : db' = MigrateToCold(db, S, since)
            \/ \E S : db' = MigrateToHot(db, S)
        BY <2>7 DEF ToCold, ToHot, Write, Commit
      <3>2. /\ db'.live = db.live /\ db'.stub = db.stub
            /\ db'.superseded = db.superseded /\ db'.contradictedBy = db.contradictedBy
        BY <1>a, <3>1 DEF MigrateToCold, MigrateToHot, Database
      <3> QED BY <2>7, <3>2, StutterStep DEF ToCold, ToHot, Write
    <2>8. CASE ToStub
      <3>1. PICK i \in db.live : db' = ConvertToStub(db, {i}) /\ UNCHANGED minted
        BY <2>8 DEF ToStub, Write, Commit
      <3>2. Life!Archive({i} \cap db.live) /\ {i} \cap db.live \in SUBSET Id
        BY <1>a, <3>1, ArchiveStep
      <3> QED BY <3>2 DEF Life!LifeNext
    <2>9. CASE Link \/ Unlink
      <3>1. \/ db' = db
            \/ \E E : db' = Associate(db, E) \/ db' = Dissociate(db, E)
        BY <2>9 DEF Link, Unlink, Write, Commit
      <3>2. /\ db'.live = db.live /\ db'.stub = db.stub
            /\ db'.superseded = db.superseded /\ db'.contradictedBy = db.contradictedBy
        BY <1>a, <3>1 DEF Associate, Dissociate, Database
      <3> QED BY <2>9, <3>2, StutterStep DEF Link, Unlink, Write
    <2> QED BY <1>12, <2>2, <2>3, <2>4, <2>5, <2>6, <2>7, <2>8, <2>9 DEF SingleWrite
  <1>13. ASSUME Restart \/ Advance \/ UNCHANGED vars PROVE Simulated
    BY <1>b, <1>13 DEF Restart, Advance, vars
  <1>14. Simulated
    BY <1>1, <1>2, <1>3, <1>4, <1>5, <1>6, <1>7, <1>8, <1>9, <1>10, <1>11, <1>12, <1>13
    DEF Next, Start, Step
  <1> QED BY <1>14

(* The daemon implements MemoryLife: whatever requests run together, a     *)
(* memory is stored once, archived, superseded and judged at most forward, *)
(* and no write from a stale read undoes any of this.                      *)
THEOREM LifeRefinement == Spec => ImplementsMemoryLife
  <1>1. Init => Life!LifeInit
    BY DEF Init, Empty, Phase, Life!LifeInit
  <1>2. Init => OneWriter
    BY DEF Init, Idle, OneWriter, At
  <1> QED BY <1>1, <1>2, Invariance, OneWriterStep, LifeStep, PTL
          DEF Spec, ImplementsMemoryLife, Life!LifeSpec
=============================================================================
