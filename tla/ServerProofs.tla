---------------------------- MODULE ServerProofs ----------------------------
(***************************************************************************)
(* Proofs about Server, for any number of connections and requests and any *)
(* size of the two semaphores.                                             *)
(***************************************************************************)
EXTENDS Server, FiniteSetTheorems, TLAPS

USE ServerAssumption

Busy == {"running", "aborting"}

-----------------------------------------------------------------------------
(* What the ends of connections do.                                        *)

(* Dropping the JoinSets of some connections keeps the stages well typed   *)
(* and every permit with its task; only requests of these connections are  *)
(* touched.                                                                *)
LEMMA CutFacts ==
  ASSUME NEW w \in [Requests -> Stage], NEW C
  PROVE  /\ Cut(w, C) \in [Requests -> Stage]
         /\ \A r \in Requests : Cut(w, C)[r] \in Busy <=> w[r] \in Busy
         /\ \A r \in Requests : owner[r] \notin C => Cut(w, C)[r] = w[r]
         /\ \A r \in Requests : Cut(w, C)[r] = "unsent" <=> w[r] = "unsent"
  BY DEF Cut, Stage, Busy

(* The end of connections keeps their state well typed.                    *)
LEMMA EndFacts ==
  ASSUME TypeOK, NEW w \in [Requests -> Stage], NEW C \in SUBSET Conns, End(C, w)
  PROVE  /\ conn' \in [Conns -> Connection]
         /\ inbox' \in [Conns -> Seq(Requests)]
         /\ wake' \subseteq Conns \cup {Listener}
         /\ work' \in [Requests -> Stage]
         /\ work' = Cut(w, C)
         /\ \A c \in Conns : /\ conn'[c].canSend = conn[c].canSend
                             /\ conn'[c].peer = conn[c].peer
                             /\ conn'[c].phase = conn[c].phase \/ conn'[c].phase = "closed"
  <1>1. work' = Cut(w, C) /\ work' \in [Requests -> Stage]
    BY CutFacts DEF End
  <1>2. \A c \in Conns : conn[c] \in Connection
    BY DEF TypeOK
  <1>3. \A c \in Conns : [conn[c] EXCEPT !.phase = "closed"] \in Connection
    BY <1>2 DEF Connection
  <1>4. conn' = [c \in Conns |-> IF c \in C THEN [conn[c] EXCEPT !.phase = "closed"] ELSE conn[c]]
    BY DEF End
  <1>5. conn' \in [Conns -> Connection]
    BY <1>2, <1>3, <1>4
  <1>6. \A c \in Conns : /\ conn'[c].canSend = conn[c].canSend
                         /\ conn'[c].peer = conn[c].peer
                         /\ conn'[c].phase = conn[c].phase \/ conn'[c].phase = "closed"
    BY <1>2, <1>4 DEF Connection
  <1>7. inbox' \in [Conns -> Seq(Requests)] /\ wake' \subseteq Conns \cup {Listener}
    BY DEF End, TypeOK
  <1> QED BY <1>1, <1>5, <1>6, <1>7

(* One more turn of the select loop, or its end: the same facts.           *)
LEMMA LoopFacts ==
  ASSUME TypeOK, NEW c \in Conns, NEW k \in Connection, NEW w \in [Requests -> Stage],
         LoopOrEnd(c, k, w)
  PROVE  /\ conn' \in [Conns -> Connection]
         /\ inbox' \in [Conns -> Seq(Requests)]
         /\ wake' \subseteq Conns \cup {Listener}
         /\ work' \in [Requests -> Stage]
         /\ \A r \in Requests : work'[r] \in Busy <=> w[r] \in Busy
         /\ \A r \in Requests : work'[r] = "unsent" <=> w[r] = "unsent"
  <1>1. CASE End({c}, w)
    <2>1. work' = Cut(w, {c})
      BY <1>1, EndFacts
    <2> QED BY <1>1, <2>1, EndFacts, CutFacts
  <1>2. CASE ~End({c}, w)
    <2>1. conn' = [conn EXCEPT ![c] = k] /\ work' = w /\ UNCHANGED <<inbox, wake>>
      BY <1>2 DEF LoopOrEnd
    <2> QED BY <2>1 DEF TypeOK
  <1> QED BY <1>1, <1>2

-----------------------------------------------------------------------------
(* Type correctness.                                                       *)

(* Every step of the server keeps its state well typed.                    *)
LEMMA TypeStep == TypeOK /\ [Next]_vars => TypeOK'
  <1> SUFFICES ASSUME TypeOK, [Next]_vars PROVE TypeOK'
    OBVIOUS
  <1> USE DEF TypeOK
  <1>1. ASSUME NEW c \in Conns, NEW r \in Requests, ClientSend(c, r) PROVE TypeOK'
    <2>1. Append(inbox[c], r) \in Seq(Requests)
      OBVIOUS
    <2> QED BY <1>1, <2>1 DEF ClientSend, Stage
  <1>2. ASSUME NEW c \in Conns, NEW k \in Connection, conn' = [conn EXCEPT ![c] = k],
               UNCHANGED <<daemon, interrupted, pending, sent, wake, inbox, owner, work, permits>>
        PROVE  TypeOK'
    BY <1>2
  <1>3. ASSUME NEW c \in Conns, ClientLeave(c) \/ Accept(c) \/ Handshake(c) PROVE TypeOK'
    <2>1. conn[c] \in Connection
      OBVIOUS
    <2>2. /\ [conn[c] EXCEPT !.peer = FALSE] \in Connection
          /\ [conn[c] EXCEPT !.phase = "handshake"] \in Connection
          /\ [conn[c] EXCEPT !.phase = "open"] \in Connection
      BY <2>1 DEF Connection
    <2> QED BY <1>2, <1>3, <2>2 DEF ClientLeave, Accept, Handshake
  <1>4. ASSUME NEW C \in SUBSET Conns, End(C, work), daemon' \in {daemon, "expired"},
               UNCHANGED <<interrupted, pending, sent, owner, permits>>
        PROVE  TypeOK'
    BY <1>4, EndFacts
  <1>5. ASSUME NEW c \in Conns, HandshakeFails(c) \/ EndOfStream(c) \/ EventArm(c) PROVE TypeOK'
    BY <1>4, <1>5 DEF HandshakeFails, EndOfStream, EventArm
  <1>6. ASSUME NEW c \in Conns, JoinArm(c) \/ ShutdownArm(c) PROVE TypeOK'
    <2>1. conn[c] \in Connection
      OBVIOUS
    <2>2. /\ [conn[c] EXCEPT !.canSend = FALSE, !.accepts = FALSE] \in Connection
          /\ [conn[c] EXCEPT !.stopping = TRUE, !.accepts = FALSE] \in Connection
      BY <2>1 DEF Connection
    <2>3. PICK k \in Connection, w \in [Requests -> Stage] :
             /\ LoopOrEnd(c, k, w)
             /\ UNCHANGED <<daemon, interrupted, pending, sent, owner, permits>>
      <3>1. CASE ShutdownArm(c)
        BY <3>1, <2>2 DEF ShutdownArm
      <3>2. CASE JoinArm(c)
        <4>1. PICK r \in Requests :
                \/ LoopOrEnd(c, conn[c], [work EXCEPT ![r] = "answered"])
                \/ LoopOrEnd(c, [conn[c] EXCEPT !.canSend = FALSE, !.accepts = FALSE],
                             [work EXCEPT ![r] = "dropped"])
          BY <3>2 DEF JoinArm, OwnedIn
        <4>2. /\ [work EXCEPT ![r] = "answered"] \in [Requests -> Stage]
              /\ [work EXCEPT ![r] = "dropped"] \in [Requests -> Stage]
          BY DEF Stage
        <4> QED BY <3>2, <4>1, <4>2, <2>1, <2>2 DEF JoinArm
      <3> QED BY <1>6, <3>1, <3>2
    <2> QED BY <2>3, LoopFacts
  <1>7. ASSUME NEW c \in Conns, FrameArm(c) PROVE TypeOK'
    <2> DEFINE r == Head(inbox[c])
    <2>1. inbox[c] \in Seq(Requests) /\ inbox[c] # <<>>
      BY <1>7 DEF FrameArm
    <2>2. r \in Requests /\ Tail(inbox[c]) \in Seq(Requests)
      BY <2>1
    <2> HIDE DEF r
    <2>3. CASE End({c}, work)
      BY <1>4, <1>7, <2>3 DEF FrameArm
    <2>4. CASE /\ inbox' = [inbox EXCEPT ![c] = Tail(inbox[c])]
               /\ work' = [work EXCEPT ![r] = "waiting"]
               /\ UNCHANGED <<conn, wake>>
      BY <1>7, <2>2, <2>4 DEF FrameArm, Stage
    <2>5. CASE /\ conn' = [conn EXCEPT ![c].listening = TRUE]
               /\ inbox' = [inbox EXCEPT ![c] = Tail(inbox[c])]
               /\ work' = [work EXCEPT ![r] = "answered"]
               /\ UNCHANGED wake
      <3>1. conn[c] \in Connection
        OBVIOUS
      <3>2. [conn[c] EXCEPT !.listening = TRUE] \in Connection
        BY <3>1 DEF Connection
      <3>3. conn' \in [Conns -> Connection]
        BY <2>5, <3>2
      <3> QED BY <1>7, <2>2, <2>5, <3>3 DEF FrameArm, Stage
    <2> QED BY <1>7, <2>3, <2>4, <2>5 DEF FrameArm, r
  <1>8. ASSUME NEW c \in Conns, Acquire(c) PROVE TypeOK'
    <2>1. PICK r \in Requests :
            /\ permits[PoolOf(r)] > 0
            /\ permits' = [permits EXCEPT ![PoolOf(r)] = permits[PoolOf(r)] - 1]
            /\ work' = [work EXCEPT ![r] = "running"]
      BY <1>8 DEF Acquire, OwnedIn
    <2>2. PoolOf(r) \in Pool
      BY DEF PoolOf, Pool
    <2>3. permits' \in [Pool -> Nat]
      BY <2>1, <2>2
    <2>4. work' \in [Requests -> Stage]
      BY <2>1 DEF Stage
    <2> QED BY <1>8, <2>3, <2>4 DEF Acquire
  <1>9. ASSUME NEW r \in Requests, SpawnShutdown(r) \/ SendShutdown(r) PROVE TypeOK'
    BY <1>9 DEF SpawnShutdown, SendShutdown, Broadcast, LiveConns
  <1>10. ASSUME NEW r \in Requests, Finish(r) \/ Abort(r) PROVE TypeOK'
    <2>1. PoolOf(r) \in Pool
      BY DEF PoolOf, Pool
    <2>2. permits' \in [Pool -> Nat]
      BY <1>10, <2>1 DEF Finish, Abort, Release
    <2>3. work' \in [Requests -> Stage]
      BY <1>10 DEF Finish, Abort, Stage
    <2> QED BY <1>10, <2>2, <2>3 DEF Finish, Abort
  <1>11. CASE CtrlC
    BY <1>11 DEF CtrlC, Broadcast, LiveConns
  <1>12. CASE Listen \/ StopListening \/ DrainDone
    BY <1>12 DEF Listen, StopListening, DrainDone
  <1>13. CASE DrainTimeout
    <2>1. LiveConns \in SUBSET Conns
      BY DEF LiveConns
    <2> QED BY <1>4, <1>13, <2>1 DEF DrainTimeout
  <1>14. CASE UNCHANGED vars
    BY <1>14 DEF vars
  <1> HIDE DEF TypeOK
  <1> QED
    BY <1>1, <1>3, <1>5, <1>6, <1>7, <1>8, <1>9, <1>10, <1>11, <1>12, <1>13, <1>14
    DEF Next, DaemonStep, ConnStep, TaskStep, ServeStep

(* The initial state is well typed.                                        *)
LEMMA TypeInit == Init => TypeOK
  <1> SUFFICES ASSUME Init PROVE TypeOK
    OBVIOUS
  <1>1. conn \in [Conns -> Connection]
    BY DEF Init, Connection
  <1>2. work \in [Requests -> Stage] /\ owner \in [Requests -> Conns \cup {NoConn}]
    BY DEF Init, Stage
  <1>3. permits \in [Pool -> Nat]
    BY DEF Init, Limit
  <1>4. <<>> \in Seq(Requests)
    OBVIOUS
  <1>5. inbox \in [Conns -> Seq(Requests)]
    BY <1>4 DEF Init
  <1> QED BY <1>1, <1>2, <1>3, <1>5 DEF Init, TypeOK

(* Server!TypeOK holds in every reachable state; in particular no          *)
(* semaphore ever goes below zero.                                         *)
THEOREM ServerTypeCorrect == Spec => []TypeOK
  BY TypeInit, TypeStep, PTL DEF Spec

-----------------------------------------------------------------------------
(* The semaphores.                                                         *)

(* The tasks that hold a permit are finitely many.                         *)
LEMMA HoldersFinite == \A k : IsFiniteSet(Holders(k))
  <1> SUFFICES ASSUME NEW k PROVE IsFiniteSet(Holders(k))
    OBVIOUS
  <1>1. Holders(k) \in SUBSET Requests
    BY DEF Holders
  <1> QED BY <1>1, FS_Subset

(* A step that starts and ends no task leaves the permits where they are.  *)
LEMMA SameHolders ==
  ASSUME PermitsConserved, UNCHANGED permits,
         \A r \in Requests : work'[r] \in Busy <=> work[r] \in Busy
  PROVE  PermitsConserved'
  <1>1. \A k : Holders(k)' = Holders(k)
    BY DEF Holders, Busy
  <1> QED BY <1>1 DEF PermitsConserved

(* A task that starts takes a permit, a task that ends returns it.         *)
LEMMA HolderMoves ==
  ASSUME TypeOK, PermitsConserved, NEW r \in Requests, NEW s \in Stage,
         work' = [work EXCEPT ![r] = s]
  PROVE  /\ /\ work[r] \notin Busy /\ s \in Busy /\ permits[PoolOf(r)] > 0
            /\ permits' = [permits EXCEPT ![PoolOf(r)] = permits[PoolOf(r)] - 1]
            => PermitsConserved'
         /\ /\ work[r] \in Busy /\ s \notin Busy
            /\ permits' = [permits EXCEPT ![PoolOf(r)] = permits[PoolOf(r)] + 1]
            => PermitsConserved'
  <1> DEFINE p == PoolOf(r)
  <1>1. p \in Pool
    BY DEF PoolOf, Pool
  <1>2. \A k \in Pool : k # p => Holders(k)' = Holders(k)
    BY DEF Holders, TypeOK
  <1>3. \A k \in Pool : permits[k] \in Nat /\ Cardinality(Holders(k)) \in Nat
    BY HoldersFinite, FS_CardinalityType DEF TypeOK
  <1>4. ASSUME work[r] \notin Busy, s \in Busy, permits[p] > 0,
               permits' = [permits EXCEPT ![p] = permits[p] - 1]
        PROVE  PermitsConserved'
    <2>1. Holders(p)' = Holders(p) \cup {r} /\ r \notin Holders(p)
      BY <1>4 DEF Holders, Busy, TypeOK
    <2>2. Cardinality(Holders(p) \cup {r}) = Cardinality(Holders(p)) + 1
      BY <2>1, HoldersFinite, FS_AddElement
    <2>3. permits'[p] = permits[p] - 1 /\ \A k \in Pool : k # p => permits'[k] = permits[k]
      BY <1>1, <1>4 DEF TypeOK
    <2>4. permits[p] + Cardinality(Holders(p)) = Limit[p]
      BY <1>1 DEF PermitsConserved
    <2>5. permits'[p] + Cardinality(Holders(p)') = Limit[p]
      BY <1>1, <1>3, <2>1, <2>2, <2>3, <2>4
    <2>6. \A k \in Pool : k # p => permits'[k] + Cardinality(Holders(k)') = Limit[k]
      BY <1>2, <2>3 DEF PermitsConserved
    <2> QED BY <2>5, <2>6 DEF PermitsConserved
  <1>5. ASSUME work[r] \in Busy, s \notin Busy,
               permits' = [permits EXCEPT ![p] = permits[p] + 1]
        PROVE  PermitsConserved'
    <2>1. Holders(p)' = Holders(p) \ {r} /\ r \in Holders(p)
      BY <1>5 DEF Holders, Busy, TypeOK
    <2>2. Cardinality(Holders(p) \ {r}) = Cardinality(Holders(p)) - 1
      BY <2>1, HoldersFinite, FS_RemoveElement
    <2>3. permits'[p] = permits[p] + 1 /\ \A k \in Pool : k # p => permits'[k] = permits[k]
      BY <1>1, <1>5 DEF TypeOK
    <2>4. permits[p] + Cardinality(Holders(p)) = Limit[p]
      BY <1>1 DEF PermitsConserved
    <2>5. permits'[p] + Cardinality(Holders(p)') = Limit[p]
      BY <1>1, <1>3, <2>1, <2>2, <2>3, <2>4
    <2>6. \A k \in Pool : k # p => permits'[k] + Cardinality(Holders(k)') = Limit[k]
      BY <1>2, <2>3 DEF PermitsConserved
    <2> QED BY <2>5, <2>6 DEF PermitsConserved
  <1> QED BY <1>4, <1>5

(* The frames in a socket buffer are distinct requests, sent on that       *)
(* connection and not yet read.                                            *)
Buffered ==
    \A c \in Conns : \A i \in 1..Len(inbox[c]) :
        /\ owner[inbox[c][i]] = c
        /\ work[inbox[c][i]] = "buffered"
        /\ \A j \in 1..Len(inbox[c]) : inbox[c][i] = inbox[c][j] => i = j

(* Every step of the server conserves the permits: only Acquire takes one, *)
(* only Finish and Abort return one, each for its own request.             *)
LEMMA PermitsStep ==
  ASSUME TypeOK, PermitsConserved, Buffered, [Next]_vars
  PROVE  PermitsConserved'
  <1>1. ASSUME UNCHANGED <<work, permits>> PROVE PermitsConserved'
    BY <1>1, SameHolders
  <1>2. ASSUME NEW C \in SUBSET Conns, End(C, work), UNCHANGED permits PROVE PermitsConserved'
    <2>1. work' = Cut(work, C)
      BY <1>2 DEF End
    <2>2. \A r \in Requests : work'[r] \in Busy <=> work[r] \in Busy
      BY <2>1, CutFacts DEF TypeOK
    <2> QED BY <1>2, <2>2, SameHolders
  <1>3. ASSUME NEW c \in Conns, NEW r \in Requests, ClientSend(c, r) PROVE PermitsConserved'
    BY <1>3, SameHolders DEF ClientSend, Busy, TypeOK
  <1>4. ASSUME NEW c \in Conns, ClientLeave(c) \/ Accept(c) \/ Handshake(c) PROVE PermitsConserved'
    BY <1>1, <1>4 DEF ClientLeave, Accept, Handshake
  <1>5. ASSUME NEW c \in Conns, HandshakeFails(c) \/ EndOfStream(c) \/ EventArm(c)
        PROVE  PermitsConserved'
    BY <1>2, <1>5 DEF HandshakeFails, EndOfStream, EventArm
  <1>6. ASSUME NEW c \in Conns, NEW k \in Connection, NEW w \in [Requests -> Stage],
               LoopOrEnd(c, k, w), UNCHANGED permits,
               \A r \in Requests : w[r] \in Busy <=> work[r] \in Busy
        PROVE  PermitsConserved'
    BY <1>6, LoopFacts, SameHolders
  <1>7. ASSUME NEW c \in Conns, ShutdownArm(c) PROVE PermitsConserved'
    <2>1. conn[c] \in Connection /\ work \in [Requests -> Stage]
      BY DEF TypeOK
    <2>2. [conn[c] EXCEPT !.stopping = TRUE, !.accepts = FALSE] \in Connection
      BY <2>1 DEF Connection
    <2> QED BY <1>6, <1>7, <2>1, <2>2 DEF ShutdownArm
  <1>8. ASSUME NEW c \in Conns, JoinArm(c) PROVE PermitsConserved'
    <2>1. PICK r \in Requests :
            /\ work[r] = "finished"
            /\ \/ LoopOrEnd(c, conn[c], [work EXCEPT ![r] = "answered"])
               \/ LoopOrEnd(c, [conn[c] EXCEPT !.canSend = FALSE, !.accepts = FALSE],
                            [work EXCEPT ![r] = "dropped"])
      BY <1>8 DEF JoinArm, OwnedIn
    <2>2. conn[c] \in Connection
      BY DEF TypeOK
    <2>3. [conn[c] EXCEPT !.canSend = FALSE, !.accepts = FALSE] \in Connection
      BY <2>2 DEF Connection
    <2>4. \A s \in {"answered", "dropped"} :
            /\ [work EXCEPT ![r] = s] \in [Requests -> Stage]
            /\ \A q \in Requests : [work EXCEPT ![r] = s][q] \in Busy <=> work[q] \in Busy
      BY <2>1 DEF TypeOK, Stage, Busy
    <2> QED BY <1>6, <1>8, <2>1, <2>2, <2>3, <2>4 DEF JoinArm
  <1>9. ASSUME NEW c \in Conns, FrameArm(c) PROVE PermitsConserved'
    <2> DEFINE r == Head(inbox[c])
    <2>1. CASE End({c}, work)
      BY <1>2, <1>9, <2>1 DEF FrameArm
    <2>2. ASSUME NEW s \in {"answered", "waiting"}, work' = [work EXCEPT ![r] = s]
          PROVE  PermitsConserved'
      <3>1. \A q \in Requests : work'[q] = work[q] \/ q = r
        BY <2>2 DEF TypeOK
      <3>2. work[r] = "buffered"
        <4>1. inbox[c] \in Seq(Requests) /\ inbox[c] # <<>>
          BY <1>9 DEF FrameArm, TypeOK
        <4>2. 1 \in 1..Len(inbox[c]) /\ r = inbox[c][1]
          BY <4>1
        <4> QED BY <4>2 DEF Buffered
      <3>3. \A q \in Requests : work'[q] \in Busy <=> work[q] \in Busy
        BY <2>2, <3>1, <3>2 DEF Busy, TypeOK
      <3> QED BY <1>9, <3>3, SameHolders DEF FrameArm
    <2> QED BY <1>9, <2>1, <2>2 DEF FrameArm
  <1>10. ASSUME NEW c \in Conns, Acquire(c) PROVE PermitsConserved'
    <2>1. PICK r \in Requests :
            /\ work[r] = "waiting" /\ permits[PoolOf(r)] > 0
            /\ permits' = [permits EXCEPT ![PoolOf(r)] = permits[PoolOf(r)] - 1]
            /\ work' = [work EXCEPT ![r] = "running"]
      BY <1>10 DEF Acquire, OwnedIn
    <2> QED BY <2>1, HolderMoves DEF Busy, Stage
  <1>11. ASSUME NEW r \in Requests, Finish(r) \/ Abort(r) PROVE PermitsConserved'
    BY <1>11, HolderMoves DEF Finish, Abort, Release, Busy, Stage
  <1>12. ASSUME NEW r \in Requests, SpawnShutdown(r) \/ SendShutdown(r) PROVE PermitsConserved'
    BY <1>1, <1>12 DEF SpawnShutdown, SendShutdown
  <1>13. CASE CtrlC \/ Listen \/ StopListening \/ DrainDone \/ UNCHANGED vars
    BY <1>1, <1>13 DEF CtrlC, Listen, StopListening, DrainDone, vars
  <1>14. CASE DrainTimeout
    BY <1>2, <1>14 DEF DrainTimeout, LiveConns
  <1> QED
    BY <1>3, <1>4, <1>5, <1>7, <1>8, <1>9, <1>10, <1>11, <1>12, <1>13, <1>14
    DEF Next, DaemonStep, ConnStep, TaskStep, ServeStep

-----------------------------------------------------------------------------
(* The frames in the socket buffers.                                       *)

(* Steps that change no buffered request keep the buffers as they should   *)
(* be.                                                                     *)
LEMMA SameBuffers ==
  ASSUME TypeOK, Buffered, UNCHANGED <<inbox, owner>>,
         \A r \in Requests : work[r] = "buffered" => work'[r] = "buffered"
  PROVE  Buffered'
  <1>1. \A c \in Conns : \A i \in 1..Len(inbox[c]) : inbox[c][i] \in Requests
    BY DEF TypeOK
  <1> QED BY <1>1 DEF Buffered

(* When connections end their buffers go; the others keep theirs.          *)
LEMMA EndBuffers ==
  ASSUME TypeOK, Buffered, NEW C \in SUBSET Conns, NEW w \in [Requests -> Stage],
         \A r \in Requests : work[r] = "buffered" => w[r] = "buffered",
         End(C, w), UNCHANGED owner
  PROVE  Buffered'
  <1>1. work' = Cut(w, C) /\ inbox' = [c \in Conns |-> IF c \in C THEN <<>> ELSE inbox[c]]
    BY DEF End
  <1>2. \A r \in Requests : work[r] = "buffered" /\ owner[r] \notin C => work'[r] = "buffered"
    BY <1>1, CutFacts
  <1>3. SUFFICES ASSUME NEW c \in Conns, NEW i \in 1..Len(inbox'[c])
                 PROVE  /\ owner'[inbox'[c][i]] = c
                        /\ work'[inbox'[c][i]] = "buffered"
                        /\ \A j \in 1..Len(inbox'[c]) : inbox'[c][i] = inbox'[c][j] => i = j
    BY DEF Buffered
  <1>4. c \notin C /\ inbox'[c] = inbox[c]
    <2>1. Len(<<>>) = 0
      OBVIOUS
    <2> QED BY <1>1, <1>3, <2>1
  <1>5. inbox[c][i] \in Requests
    BY <1>3, <1>4 DEF TypeOK
  <1> QED BY <1>2, <1>3, <1>4, <1>5 DEF Buffered

(* Every step keeps the buffers as they should be.                         *)
LEMMA BufferedStep ==
  ASSUME TypeOK, Buffered, [Next]_vars
  PROVE  Buffered'
  <1>w. work \in [Requests -> Stage]
    BY DEF TypeOK
  <1>1. ASSUME NEW c \in Conns, NEW r \in Requests, ClientSend(c, r) PROVE Buffered'
    <2> DEFINE s == inbox[c]
    <2>1. s \in Seq(Requests) /\ \A k \in Conns : inbox[k] \in Seq(Requests)
      BY DEF TypeOK
    <2>2. /\ Len(Append(s, r)) = Len(s) + 1
          /\ Append(s, r)[Len(s) + 1] = r
          /\ \A i \in 1..Len(s) : Append(s, r)[i] = s[i]
      BY <2>1
    <2>3. \A k \in Conns : \A i \in 1..Len(inbox[k]) : inbox[k][i] \in Requests \ {r}
      BY <1>1, <2>1 DEF ClientSend, Buffered
    <2>4. inbox' = [inbox EXCEPT ![c] = Append(s, r)] /\ owner' = [owner EXCEPT ![r] = c]
          /\ work' = [work EXCEPT ![r] = "buffered"]
      BY <1>1 DEF ClientSend
    <2>5. SUFFICES ASSUME NEW k \in Conns, NEW i \in 1..Len(inbox'[k])
                   PROVE  /\ owner'[inbox'[k][i]] = k
                          /\ work'[inbox'[k][i]] = "buffered"
                          /\ \A j \in 1..Len(inbox'[k]) : inbox'[k][i] = inbox'[k][j] => i = j
      BY DEF Buffered
    <2>6. CASE k # c
      <3>1. inbox'[k] = inbox[k]
        BY <2>4, <2>6 DEF TypeOK
      <3> QED BY <2>3, <2>4, <2>5, <3>1 DEF Buffered, TypeOK
    <2>7. CASE k = c
      <3>1. inbox'[c] = Append(s, r)
        BY <2>4 DEF TypeOK
      <3>2. \A j \in 1..(Len(s) + 1) :
              \/ j \in 1..Len(s) /\ inbox'[c][j] = s[j] /\ s[j] # r
              \/ j = Len(s) + 1 /\ inbox'[c][j] = r
        <4>1. Len(s) \in Nat
          BY <2>1
        <4>2. \A j \in 1..Len(s) : s[j] # r
          BY <2>3
        <4> HIDE DEF s
        <4>3. \A j \in 1..(Len(s) + 1) : j \in 1..Len(s) \/ j = Len(s) + 1
          BY <4>1
        <4> QED BY <2>2, <3>1, <4>2, <4>3
      <3>3. owner'[r] = c /\ work'[r] = "buffered"
        BY <2>4 DEF TypeOK
      <3>4. \A j \in 1..Len(s) : owner'[s[j]] = c /\ work'[s[j]] = "buffered"
        BY <2>3, <2>4 DEF Buffered, TypeOK
      <3> HIDE DEF s
      <3> QED BY <2>5, <2>7, <2>2, <3>1, <3>2, <3>3, <3>4 DEF Buffered, s
    <2> QED BY <2>6, <2>7
  <1>2. ASSUME NEW c \in Conns, ClientLeave(c) \/ Accept(c) \/ Handshake(c) PROVE Buffered'
    BY <1>2, SameBuffers DEF ClientLeave, Accept, Handshake
  <1>3. ASSUME NEW c \in Conns, HandshakeFails(c) \/ EndOfStream(c) \/ EventArm(c) PROVE Buffered'
    BY <1>3, <1>w, EndBuffers DEF HandshakeFails, EndOfStream, EventArm
  <1>4. ASSUME NEW c \in Conns, NEW k, NEW w \in [Requests -> Stage],
               LoopOrEnd(c, k, w), UNCHANGED owner,
               \A r \in Requests : work[r] = "buffered" => w[r] = "buffered"
        PROVE  Buffered'
    <2>1. CASE End({c}, w)
      BY <1>4, <2>1, EndBuffers
    <2>2. CASE ~End({c}, w)
      BY <1>4, <2>2, SameBuffers DEF LoopOrEnd
    <2> QED BY <2>1, <2>2
  <1>5. ASSUME NEW c \in Conns, ShutdownArm(c) PROVE Buffered'
    BY <1>4, <1>5, <1>w DEF ShutdownArm
  <1>6. ASSUME NEW c \in Conns, JoinArm(c) PROVE Buffered'
    <2>1. PICK r \in Requests, s \in {"answered", "dropped"}, k \in {conn[c],
                 [conn[c] EXCEPT !.canSend = FALSE, !.accepts = FALSE]} :
            work[r] = "finished" /\ LoopOrEnd(c, k, [work EXCEPT ![r] = s])
      BY <1>6 DEF JoinArm, OwnedIn
    <2>2. /\ [work EXCEPT ![r] = s] \in [Requests -> Stage]
          /\ \A q \in Requests : work[q] = "buffered" => [work EXCEPT ![r] = s][q] = "buffered"
      BY <1>w, <2>1 DEF Stage
    <2> QED BY <1>4, <1>6, <2>1, <2>2 DEF JoinArm
  <1>7. ASSUME NEW c \in Conns, FrameArm(c) PROVE Buffered'
    <2> DEFINE r == Head(inbox[c])
    <2>1. CASE End({c}, work)
      BY <1>7, <1>w, <2>1, EndBuffers DEF FrameArm
    <2>2. ASSUME NEW s, inbox' = [inbox EXCEPT ![c] = Tail(inbox[c])],
                 work' = [work EXCEPT ![r] = s]
          PROVE  Buffered'
      <3>1. /\ inbox[c] \in Seq(Requests) /\ inbox[c] # <<>>
            /\ \A k \in Conns : inbox[k] \in Seq(Requests)
        BY <1>7 DEF FrameArm, TypeOK
      <3>2. /\ Len(Tail(inbox[c])) = Len(inbox[c]) - 1
            /\ \A i \in 1..Len(Tail(inbox[c])) : Tail(inbox[c])[i] = inbox[c][i + 1]
            /\ r = inbox[c][1] /\ Len(inbox[c]) \in Nat /\ Len(inbox[c]) > 0
        BY <3>1
      <3>3. owner' = owner
        BY <1>7 DEF FrameArm
      <3>4. SUFFICES ASSUME NEW k \in Conns, NEW i \in 1..Len(inbox'[k])
                     PROVE  /\ owner'[inbox'[k][i]] = k
                            /\ work'[inbox'[k][i]] = "buffered"
                            /\ \A j \in 1..Len(inbox'[k]) : inbox'[k][i] = inbox'[k][j] => i = j
        BY DEF Buffered
      <3>5. owner[r] = c
        BY <3>2 DEF Buffered
      <3> HIDE DEF r
      <3>6. CASE k # c
        <4>1. inbox'[k] = inbox[k]
          BY <2>2, <3>6 DEF TypeOK
        <4>2. inbox[k][i] \in Requests /\ owner[inbox[k][i]] = k /\ work[inbox[k][i]] = "buffered"
          BY <3>1, <3>4, <4>1 DEF Buffered
        <4>3. inbox[k][i] # r
          BY <3>5, <3>6, <4>2
        <4>4. work'[inbox[k][i]] = "buffered"
          BY <1>w, <2>2, <4>2, <4>3
        <4> QED BY <3>3, <3>4, <4>1, <4>2, <4>4 DEF Buffered
      <3>7. CASE k = c
        <4>1. inbox'[k] = Tail(inbox[c])
          BY <2>2, <3>7 DEF TypeOK
        <4>2. /\ i \in 1..(Len(inbox[c]) - 1) /\ i + 1 \in 1..Len(inbox[c])
              /\ inbox'[k][i] = inbox[c][i + 1]
          BY <3>2, <3>4, <4>1
        <4>3. inbox[c][i + 1] \in Requests /\ inbox[c][i + 1] # r
          BY <3>1, <3>2, <4>2 DEF Buffered
        <4>4. owner[inbox[c][i + 1]] = c /\ work[inbox[c][i + 1]] = "buffered"
          BY <4>2 DEF Buffered
        <4>5. work'[inbox[c][i + 1]] = "buffered"
          BY <1>w, <2>2, <4>3, <4>4
        <4>6. ASSUME NEW j \in 1..Len(inbox'[k]), inbox'[k][i] = inbox'[k][j]
              PROVE  i = j
          <5>1. j \in 1..(Len(inbox[c]) - 1) /\ j + 1 \in 1..Len(inbox[c])
                /\ inbox'[k][j] = inbox[c][j + 1]
            BY <3>2, <4>1, <4>6
          <5>2. \A a, b \in 1..Len(inbox[c]) : inbox[c][a] = inbox[c][b] => a = b
            BY DEF Buffered
          <5>3. i + 1 = j + 1
            BY <4>2, <4>6, <5>1, <5>2
          <5> QED BY <4>2, <5>1, <5>3
        <4> QED BY <3>3, <3>7, <4>2, <4>4, <4>5, <4>6
      <3> QED BY <3>6, <3>7
    <2> QED BY <1>7, <2>1, <2>2 DEF FrameArm
  <1>8. ASSUME NEW c \in Conns, Acquire(c) PROVE Buffered'
    <2>1. PICK r \in Requests : work[r] = "waiting" /\ work' = [work EXCEPT ![r] = "running"]
      BY <1>8 DEF Acquire, OwnedIn
    <2> QED BY <1>8, <1>w, <2>1, SameBuffers DEF Acquire
  <1>9. ASSUME NEW r \in Requests, TaskStep(r) PROVE Buffered'
    BY <1>9, <1>w, SameBuffers DEF TaskStep, SpawnShutdown, SendShutdown, Finish, Abort
  <1>10. CASE CtrlC \/ Listen \/ StopListening \/ DrainDone \/ UNCHANGED vars
    BY <1>10, SameBuffers DEF CtrlC, Listen, StopListening, DrainDone, vars
  <1>11. CASE DrainTimeout
    BY <1>11, <1>w, EndBuffers DEF DrainTimeout, LiveConns
  <1> QED
    BY <1>1, <1>2, <1>3, <1>5, <1>6, <1>7, <1>8, <1>9, <1>10, <1>11
    DEF Next, DaemonStep, ConnStep, ServeStep

(* The invariant behind the semaphores: PermitsConserved needs to know     *)
(* that a frame read from a buffer is not a request already running.       *)
PermitInv == TypeOK /\ Buffered /\ PermitsConserved

(* Initially nobody holds a permit and the buffers are empty.              *)
LEMMA PermitInit == Init => PermitInv
  <1> SUFFICES ASSUME Init PROVE PermitInv
    OBVIOUS
  <1>1. Buffered
    BY DEF Init, Buffered
  <1>2. \A k \in Pool : Holders(k) = {}
    BY DEF Init, Holders
  <1>3. \A k \in Pool : Limit[k] \in Nat
    BY DEF Limit
  <1>4. \A k \in Pool : Cardinality(Holders(k)) = 0
    BY <1>2, FS_EmptySet
  <1>5. permits = Limit
    BY DEF Init
  <1>6. PermitsConserved
    BY <1>3, <1>4, <1>5 DEF PermitsConserved
  <1> QED BY <1>1, <1>6, TypeInit DEF PermitInv

(* Server!PermitsConserved: whatever ends the requests, each of the two    *)
(* semaphores gets back every permit it gave out and no other, for any     *)
(* limits, connections and requests.                                       *)
THEOREM PermitsHold == Spec => []PermitsConserved
  <1>1. PermitInv /\ [Next]_vars => PermitInv'
    BY TypeStep, BufferedStep, PermitsStep DEF PermitInv
  <1>2. PermitInv => PermitsConserved
    BY DEF PermitInv
  <1> QED BY PermitInit, <1>1, <1>2, PTL DEF Spec

-----------------------------------------------------------------------------
(* Graceful shutdown.                                                      *)

(* Only a connection past its handshake has requests.                      *)
Owned ==
    \A r \in Requests :
        work[r] # "unsent" => owner[r] \in Conns /\ conn[owner[r]].phase \in {"open", "closed"}

(* A connection gives up sending only when its client is gone.             *)
GaveUp == \A c \in Conns : ~conn[c].canSend => ~conn[c].peer

DrainInv == TypeOK /\ Buffered /\ Owned /\ GaveUp

(* A step that sends no request and undoes no handshake keeps Owned.       *)
LEMMA SameOwners ==
  ASSUME TypeOK, Owned, UNCHANGED owner,
         \A r \in Requests : work[r] = "unsent" => work'[r] = "unsent",
         \A c \in Conns : conn[c].phase \in {"open", "closed"} => conn'[c].phase \in {"open", "closed"}
  PROVE  Owned'
  BY DEF Owned, TypeOK

(* One turn of the select loop keeps both facts, if a connection that      *)
(* stops sending has lost its client.                                      *)
LEMMA LoopDrain ==
  ASSUME TypeOK, Owned, GaveUp, NEW c \in Conns, NEW k \in Connection,
         NEW w \in [Requests -> Stage], LoopOrEnd(c, k, w), UNCHANGED owner,
         \A r \in Requests : work[r] = "unsent" => w[r] = "unsent",
         k.phase = conn[c].phase, k.peer = conn[c].peer, ~k.canSend => ~k.peer
  PROVE  Owned' /\ GaveUp'
  <1>1. \A r \in Requests : work[r] = "unsent" => work'[r] = "unsent"
    BY LoopFacts
  <1>2. CASE End({c}, w)
    <2>1. \A b \in Conns : /\ conn'[b].canSend = conn[b].canSend
                           /\ conn'[b].peer = conn[b].peer
                           /\ conn'[b].phase = conn[b].phase \/ conn'[b].phase = "closed"
      BY <1>2, EndFacts
    <2>2. \A b \in Conns : conn[b].phase \in {"open", "closed"} => conn'[b].phase \in {"open", "closed"}
      BY <2>1
    <2>3. Owned'
      BY <1>1, <2>2, SameOwners
    <2>4. GaveUp'
      BY <2>1 DEF GaveUp
    <2> QED BY <2>3, <2>4
  <1>3. CASE ~End({c}, w)
    <2>1. conn' = [conn EXCEPT ![c] = k]
      BY <1>3 DEF LoopOrEnd
    <2>2. \A b \in Conns : conn'[b] = IF b = c THEN k ELSE conn[b]
      BY <2>1 DEF TypeOK
    <2>3. \A b \in Conns : conn[b].phase \in {"open", "closed"} => conn'[b].phase \in {"open", "closed"}
      BY <2>2
    <2>4. Owned'
      BY <1>1, <2>3, SameOwners
    <2>5. GaveUp'
      BY <2>2 DEF GaveUp
    <2> QED BY <2>4, <2>5
  <1> QED BY <1>2, <1>3

(* Every step keeps Owned and GaveUp.                                      *)
LEMMA DrainInvStep ==
  ASSUME DrainInv, [Next]_vars
  PROVE  Owned' /\ GaveUp'
  <1> USE DEF DrainInv
  <1>t. /\ work \in [Requests -> Stage]
        /\ \A c \in Conns : conn[c] \in Connection
    BY DEF TypeOK
  <1>1. ASSUME NEW c \in Conns, NEW r \in Requests, ClientSend(c, r) PROVE Owned' /\ GaveUp'
    <2>1. /\ conn' = conn /\ conn[c].phase = "open"
          /\ owner' = [owner EXCEPT ![r] = c] /\ work' = [work EXCEPT ![r] = "buffered"]
      BY <1>1 DEF ClientSend
    <2> QED BY <2>1 DEF Owned, GaveUp, TypeOK
  <1>2. ASSUME UNCHANGED <<conn, owner>>,
               \A r \in Requests : work[r] = "unsent" => work'[r] = "unsent"
        PROVE  Owned' /\ GaveUp'
    BY <1>2, SameOwners DEF GaveUp
  <1>3. ASSUME NEW c \in Conns, ClientLeave(c) \/ Accept(c) \/ Handshake(c) PROVE Owned' /\ GaveUp'
    <2>1. \A b \in Conns : /\ conn'[b].canSend = conn[b].canSend
                           /\ conn'[b].peer => conn[b].peer
                           /\ conn[b].phase \in {"open", "closed"} => conn'[b].phase \in {"open", "closed"}
      <3>1. CASE ClientLeave(c)
        <4>1. conn' = [conn EXCEPT ![c] = [conn[c] EXCEPT !.peer = FALSE]]
          BY <3>1 DEF ClientLeave
        <4>2. \A b \in Conns : conn'[b] = IF b = c THEN [conn[c] EXCEPT !.peer = FALSE] ELSE conn[b]
          BY <4>1 DEF TypeOK
        <4> QED BY <1>t, <4>2 DEF Connection
      <3>2. ASSUME NEW p \in {"handshake", "open"}, conn[c].phase \in {"none", "handshake"},
                   conn' = [conn EXCEPT ![c] = [conn[c] EXCEPT !.phase = p]]
            PROVE  \A b \in Conns : /\ conn'[b].canSend = conn[b].canSend
                                    /\ conn'[b].peer => conn[b].peer
                                    /\ conn[b].phase \in {"open", "closed"}
                                         => conn'[b].phase \in {"open", "closed"}
        <4>2. \A b \in Conns : conn'[b] = IF b = c THEN [conn[c] EXCEPT !.phase = p] ELSE conn[b]
          BY <3>2 DEF TypeOK
        <4> QED BY <1>t, <3>2, <4>2 DEF Connection
      <3>3. CASE Accept(c)
        BY <3>2, <3>3 DEF Accept
      <3>4. CASE Handshake(c)
        BY <3>2, <3>4 DEF Handshake
      <3> QED BY <1>3, <3>1, <3>3, <3>4
    <2>2. owner' = owner /\ work' = work
      BY <1>3 DEF ClientLeave, Accept, Handshake
    <2>3. Owned'
      <3>1. \A q \in Requests : work[q] = "unsent" => work'[q] = "unsent"
        BY <2>2
      <3>2. \A b \in Conns : conn[b].phase \in {"open", "closed"} => conn'[b].phase \in {"open", "closed"}
        BY <2>1
      <3> QED BY <2>2, <3>1, <3>2, SameOwners
    <2>4. GaveUp'
      BY <2>1 DEF GaveUp
    <2> QED BY <2>3, <2>4
  <1>4. ASSUME NEW C \in SUBSET Conns, End(C, work), UNCHANGED owner PROVE Owned' /\ GaveUp'
    <2>1. /\ work' = Cut(work, C)
          /\ \A b \in Conns : /\ conn'[b].canSend = conn[b].canSend
                              /\ conn'[b].peer = conn[b].peer
                              /\ conn'[b].phase = conn[b].phase \/ conn'[b].phase = "closed"
      BY <1>4, <1>t, EndFacts
    <2>2. \A r \in Requests : work[r] = "unsent" => work'[r] = "unsent"
      BY <1>t, <2>1, CutFacts
    <2> QED BY <1>4, <2>1, <2>2, SameOwners DEF GaveUp
  <1>5. ASSUME NEW c \in Conns, HandshakeFails(c) \/ EndOfStream(c) \/ EventArm(c)
        PROVE  Owned' /\ GaveUp'
    BY <1>4, <1>5 DEF HandshakeFails, EndOfStream, EventArm
  <1>6. ASSUME NEW c \in Conns, ShutdownArm(c) PROVE Owned' /\ GaveUp'
    <2> DEFINE k == [conn[c] EXCEPT !.stopping = TRUE, !.accepts = FALSE]
    <2>1. /\ k \in Connection /\ k.phase = conn[c].phase /\ k.peer = conn[c].peer
          /\ k.canSend = conn[c].canSend
      BY <1>t DEF Connection
    <2>2. LoopOrEnd(c, k, work) /\ owner' = owner
      BY <1>6 DEF ShutdownArm
    <2> HIDE DEF k
    <2> QED BY <1>t, <2>1, <2>2, LoopDrain DEF GaveUp
  <1>7. ASSUME NEW c \in Conns, JoinArm(c) PROVE Owned' /\ GaveUp'
    <2> DEFINE k == [conn[c] EXCEPT !.canSend = FALSE, !.accepts = FALSE]
    <2>1. PICK r \in Requests :
            /\ work[r] = "finished"
            /\ \/ LoopOrEnd(c, conn[c], [work EXCEPT ![r] = "answered"])
               \/ /\ ~(conn[c].canSend /\ conn[c].peer)
                  /\ LoopOrEnd(c, k, [work EXCEPT ![r] = "dropped"])
      BY <1>7 DEF JoinArm, OwnedIn
    <2>2. /\ k \in Connection /\ k.phase = conn[c].phase /\ k.peer = conn[c].peer
      BY <1>t DEF Connection
    <2>3. \A s \in {"answered", "dropped"} :
            /\ [work EXCEPT ![r] = s] \in [Requests -> Stage]
            /\ \A q \in Requests : work[q] = "unsent" => [work EXCEPT ![r] = s][q] = "unsent"
      BY <1>t, <2>1 DEF Stage
    <2>4. owner' = owner
      BY <1>7 DEF JoinArm
    <2> HIDE DEF k
    <2>5. CASE LoopOrEnd(c, conn[c], [work EXCEPT ![r] = "answered"])
      BY <1>t, <2>3, <2>4, <2>5, LoopDrain DEF GaveUp
    <2>6. CASE /\ ~(conn[c].canSend /\ conn[c].peer)
               /\ LoopOrEnd(c, k, [work EXCEPT ![r] = "dropped"])
      <3>1. ~conn[c].peer
        BY <2>6 DEF GaveUp
      <3> QED BY <1>t, <2>2, <2>3, <2>4, <2>6, <3>1, LoopDrain
    <2> QED BY <2>1, <2>5, <2>6
  <1>8. ASSUME NEW c \in Conns, FrameArm(c) PROVE Owned' /\ GaveUp'
    <2> DEFINE r == Head(inbox[c])
    <2>1. CASE End({c}, work)
      BY <1>4, <1>8, <2>1 DEF FrameArm
    <2>2. ASSUME NEW s \in {"answered", "waiting"}, work' = [work EXCEPT ![r] = s],
                 \/ UNCHANGED conn
                 \/ conn' = [conn EXCEPT ![c].listening = TRUE]
          PROVE  Owned' /\ GaveUp'
      <3>1. \A b \in Conns : /\ conn'[b].canSend = conn[b].canSend
                             /\ conn'[b].peer = conn[b].peer
                             /\ conn'[b].phase = conn[b].phase
        <4>1. CASE UNCHANGED conn
          BY <4>1
        <4>2. CASE conn' = [conn EXCEPT ![c].listening = TRUE]
          <5>1. \A b \in Conns :
                  conn'[b] = IF b = c THEN [conn[c] EXCEPT !.listening = TRUE] ELSE conn[b]
            BY <4>2 DEF TypeOK
          <5> QED BY <1>t, <5>1 DEF Connection
        <4> QED BY <2>2, <4>1, <4>2
      <3>2. owner' = owner /\ conn[c].phase = "open"
        BY <1>8 DEF FrameArm, Polls
      <3>3. \A q \in Requests : q # r => work'[q] = work[q]
        BY <1>t, <2>2
      <3>4. owner[r] = c
        <4>1. inbox[c] \in Seq(Requests) /\ inbox[c] # <<>>
          BY <1>8 DEF FrameArm, TypeOK
        <4>2. 1 \in 1..Len(inbox[c]) /\ r = inbox[c][1]
          BY <4>1
        <4> QED BY <4>2 DEF Buffered
      <3> HIDE DEF r
      <3> QED BY <3>1, <3>2, <3>3, <3>4 DEF Owned, GaveUp, TypeOK
    <2> QED BY <1>8, <2>1, <2>2 DEF FrameArm
  <1>9. ASSUME NEW c \in Conns, Acquire(c) PROVE Owned' /\ GaveUp'
    <2>1. PICK r \in Requests : work[r] = "waiting" /\ work' = [work EXCEPT ![r] = "running"]
      BY <1>9 DEF Acquire, OwnedIn
    <2> QED BY <1>2, <1>9, <1>t, <2>1 DEF Acquire
  <1>10. ASSUME NEW r \in Requests, TaskStep(r) PROVE Owned' /\ GaveUp'
    BY <1>2, <1>10, <1>t DEF TaskStep, SpawnShutdown, SendShutdown, Finish, Abort
  <1>11. CASE CtrlC \/ Listen \/ StopListening \/ DrainDone \/ UNCHANGED vars
    BY <1>2, <1>11 DEF CtrlC, Listen, StopListening, DrainDone, vars
  <1>12. CASE DrainTimeout
    BY <1>4, <1>12 DEF DrainTimeout, LiveConns
  <1> QED
    BY <1>1, <1>3, <1>5, <1>6, <1>7, <1>8, <1>9, <1>10, <1>11, <1>12
    DEF Next, DaemonStep, ConnStep, ServeStep

(* A request in progress that is given up in a step: the reasons.          *)
LEMMA GivenUp ==
  ASSUME DrainInv, [Next]_vars, NEW r \in Requests,
         work[r] \in {"waiting", "running", "finished"}, work'[r] \in {"aborting", "dropped"}
  PROVE  \/ ~conn[owner[r]].peer
         \/ daemon' = "expired"
         \/ Len(inbox[owner[r]]) > 0 /\ Head(inbox[owner[r]]) \in Damaged
  <1> USE DEF DrainInv
  <1> DEFINE Reason == \/ ~conn[owner[r]].peer
                       \/ daemon' = "expired"
                       \/ Len(inbox[owner[r]]) > 0 /\ Head(inbox[owner[r]]) \in Damaged
  <1>t. work \in [Requests -> Stage] /\ owner[r] \in Conns
        /\ conn[owner[r]].phase \in {"open", "closed"}
    BY DEF TypeOK, Owned
  <1>1. work' # work
    OBVIOUS
  <1>2. ASSUME NEW C, work' = Cut(work, C) PROVE owner[r] \in C
    BY <1>2, <1>t, CutFacts
  <1>3. ASSUME NEW q \in Requests, NEW s \in Stage, work' = [work EXCEPT ![q] = s]
        PROVE  q = r /\ s \in {"aborting", "dropped"}
    BY <1>3, <1>t
  <1>4. ASSUME NEW c \in Conns, HandshakeFails(c) \/ EndOfStream(c) \/ EventArm(c) PROVE Reason
    <2>1. owner[r] = c
      BY <1>2, <1>4 DEF HandshakeFails, EndOfStream, EventArm, End
    <2> QED BY <1>4, <1>t, <2>1 DEF HandshakeFails, EndOfStream, EventArm
  <1>5. CASE DrainTimeout
    BY <1>5 DEF DrainTimeout
  <1>6. ASSUME NEW c \in Conns, FrameArm(c) PROVE Reason
    <2>1. inbox[c] \in Seq(Requests) /\ inbox[c] # <<>>
      BY <1>6 DEF FrameArm, TypeOK
    <2>2. Head(inbox[c]) \in Requests /\ Len(inbox[c]) > 0
      BY <2>1
    <2>3. ~(work' = [work EXCEPT ![Head(inbox[c])] = "answered"])
          /\ ~(work' = [work EXCEPT ![Head(inbox[c])] = "waiting"])
      BY <1>3, <2>2 DEF Stage
    <2>4. /\ Head(inbox[c]) \in Damaged \/ (Head(inbox[c]) \in Subscribes /\ ~conn[c].peer)
          /\ End({c}, work)
      BY <1>6, <2>3 DEF FrameArm
    <2>5. owner[r] = c
      BY <1>2, <2>4 DEF End
    <2> QED BY <2>2, <2>4, <2>5
  <1>7. ASSUME NEW c \in Conns, Polls(c), NEW k, NEW w \in [Requests -> Stage],
               LoopOrEnd(c, k, w), w[r] = work[r]
        PROVE  FALSE
    <2>1. CASE ~k.accepts /\ {q \in Requests : owner[q] = c /\ w[q] \in {"running", "finished"}} = {}
      <3>1. work' = Cut(w, {c})
        BY <1>7, <2>1 DEF LoopOrEnd, End
      <3>2. owner[r] = c
        BY <1>7, <3>1, CutFacts
      <3>3. work[r] # "waiting"
        BY <1>7, <3>2 DEF Polls, OwnedIn
      <3> QED BY <1>7, <2>1, <3>2, <3>3
    <2>2. CASE ~(~k.accepts /\ {q \in Requests : owner[q] = c /\ w[q] \in {"running", "finished"}} = {})
      <3>1. work' = w
        BY <1>7, <2>2 DEF LoopOrEnd
      <3> QED BY <1>7, <3>1
    <2> QED BY <2>1, <2>2
  <1>8. ASSUME NEW c \in Conns, ShutdownArm(c) PROVE Reason
    BY <1>7, <1>8, <1>t DEF ShutdownArm
  <1>9. ASSUME NEW c \in Conns, JoinArm(c) PROVE Reason
    <2>1. PICK q \in OwnedIn(c, {"finished"}) :
            \/ LoopOrEnd(c, conn[c], [work EXCEPT ![q] = "answered"])
            \/ /\ ~(conn[c].canSend /\ conn[c].peer)
               /\ LoopOrEnd(c, [conn[c] EXCEPT !.canSend = FALSE, !.accepts = FALSE],
                            [work EXCEPT ![q] = "dropped"])
      BY <1>9 DEF JoinArm
    <2>2. q \in Requests /\ owner[q] = c /\ Polls(c)
      BY <1>9 DEF JoinArm, OwnedIn
    <2>3. \A s \in {"answered", "dropped"} : [work EXCEPT ![q] = s] \in [Requests -> Stage]
      BY <1>t DEF Stage
    <2>4. q = r
      <3>1. SUFFICES ASSUME q # r PROVE FALSE
        OBVIOUS
      <3>2. \A s \in {"answered", "dropped"} : [work EXCEPT ![q] = s][r] = work[r]
        BY <1>t, <3>1
      <3> QED BY <1>7, <2>1, <2>2, <2>3, <3>2
    <2>5. CASE LoopOrEnd(c, conn[c], [work EXCEPT ![q] = "answered"])
      <3>1. [work EXCEPT ![q] = "answered"][r] = "answered"
        BY <1>t, <2>4
      <3>2. work' = Cut([work EXCEPT ![q] = "answered"], {c})
            \/ work' = [work EXCEPT ![q] = "answered"]
        BY <2>5 DEF LoopOrEnd, End
      <3>3. Cut([work EXCEPT ![q] = "answered"], {c})[r] = "answered"
        BY <3>1 DEF Cut
      <3> QED BY <3>1, <3>2, <3>3
    <2>6. CASE ~(conn[c].canSend /\ conn[c].peer)
      BY <2>2, <2>4, <2>6 DEF GaveUp
    <2> QED BY <2>1, <2>5, <2>6
  <1>10. ASSUME NEW c \in Conns, Acquire(c) PROVE Reason
    BY <1>3, <1>10 DEF Acquire, OwnedIn, Stage
  <1>11. ASSUME NEW q \in Requests, TaskStep(q) PROVE Reason
    BY <1>1, <1>3, <1>11 DEF TaskStep, SpawnShutdown, SendShutdown, Finish, Abort, Stage
  <1>12. ASSUME NEW c \in Conns, NEW q \in Requests, ClientSend(c, q) PROVE Reason
    BY <1>3, <1>12 DEF ClientSend, Stage
  <1>13. ASSUME NEW c \in Conns, ClientLeave(c) \/ Accept(c) \/ Handshake(c) PROVE Reason
    BY <1>1, <1>13 DEF ClientLeave, Accept, Handshake
  <1>14. CASE CtrlC \/ Listen \/ StopListening \/ DrainDone \/ UNCHANGED vars
    BY <1>1, <1>14 DEF CtrlC, Listen, StopListening, DrainDone, vars
  <1> QED
    BY <1>4, <1>5, <1>6, <1>8, <1>9, <1>10, <1>11, <1>12, <1>13, <1>14
    DEF Next, DaemonStep, ConnStep, ServeStep

(* Server!GracefulDrain: no shutdown signal, however it interleaves with   *)
(* finishing requests, permits and other connections, makes the daemon     *)
(* give up a request it has read, before the drain deadline passes.        *)
THEOREM DrainIsGraceful == Spec => GracefulDrain
  <1>1. Init => DrainInv
    BY TypeInit, PermitInit DEF Init, DrainInv, PermitInv, Owned, GaveUp
  <1>2. DrainInv /\ [Next]_vars => DrainInv'
    BY TypeStep, BufferedStep, DrainInvStep DEF DrainInv
  <1>3. ASSUME DrainInv, [Next]_vars
        PROVE  [\A r \in Requests :
                  work[r] \in {"waiting", "running", "finished"} /\ work'[r] \in {"aborting", "dropped"} =>
                     \/ ~conn[owner[r]].peer
                     \/ daemon' = "expired"
                     \/ Len(inbox[owner[r]]) > 0 /\ Head(inbox[owner[r]]) \in Damaged]_vars
    BY <1>3, GivenUp
  <1> QED BY <1>1, <1>2, <1>3, PTL DEF Spec, GracefulDrain
=============================================================================
