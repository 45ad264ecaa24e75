------------------------------- MODULE Server -------------------------------
(***************************************************************************)
(* The daemon's IPC server (daemon/server.rs): the accept loop, one task   *)
(* per connection with its biased select loop, one task per request behind *)
(* two semaphores, the shutdown broadcast and the drain with a deadline.   *)
(*                                                                         *)
(* A request is an opaque id; what its handler does to the store is the    *)
(* subject of Lifecycle.  Contents of frames and of events are left out.   *)
(***************************************************************************)
EXTENDS Naturals, Sequences, FiniteSets

CONSTANTS
    Conns,          \* connections
    Requests,       \* frames the clients send
    Bulk,           \* requests that is_bulk_payload sends to the small semaphore
    Stops,          \* Diagnostics::Shutdown requests
    Subscribes,     \* Memory::Subscribe requests
    Damaged,        \* frames that may fail to decode
    NoConn,         \* the owner of a request nobody has sent
    Listener,       \* the accept loop as a receiver of the broadcast
    RequestLimit,   \* REQUEST_CONCURRENCY_LIMIT: 64
    BulkLimit       \* BULK_CONCURRENCY_LIMIT: 8

ASSUME ServerAssumption ==
    /\ IsFiniteSet(Requests)
    /\ Bulk \cup Stops \cup Subscribes \cup Damaged \subseteq Requests
    /\ NoConn \notin Conns /\ Listener \notin Conns
    /\ RequestLimit \in Nat \ {0} /\ BulkLimit \in Nat \ {0}

VARIABLES
    daemon,       \* "starting", "serving", "draining", "expired" or "stopped"
    interrupted,  \* Ctrl-C was pressed: its task waits for it once
    pending,      \* shutdown requests whose spawned task has not sent yet
    sent,         \* shutdown requests whose spawned task has sent
    wake,         \* receivers with an unread shutdown broadcast
    conn,         \* the state of each connection
    inbox,        \* frames in the socket buffer of each connection
    owner,        \* the connection a request came on
    work,         \* how far each request is
    permits       \* free permits of the two semaphores

vars == <<daemon, interrupted, pending, sent, wake, conn, inbox, owner, work, permits>>

Pool == {"request", "bulk"}
PoolOf(r) == IF r \in Bulk THEN "bulk" ELSE "request"
Limit == [k \in Pool |-> IF k = "bulk" THEN BulkLimit ELSE RequestLimit]

Stage == {"unsent", "buffered", "waiting", "running", "finished", "aborting", "answered", "dropped"}

Connection ==
    [ phase     : {"none", "handshake", "open", "closed"},
      accepts   : BOOLEAN,      \* accept_requests
      canSend   : BOOLEAN,      \* can_send
      stopping  : BOOLEAN,      \* shutdown_requested
      listening : BOOLEAN,      \* event_rx.is_some()
      peer      : BOOLEAN ]     \* the client has not closed its end

TypeOK ==
    /\ daemon \in {"starting", "serving", "draining", "expired", "stopped"}
    /\ interrupted \in BOOLEAN
    /\ pending \subseteq Stops
    /\ sent \subseteq Stops
    /\ wake \subseteq Conns \cup {Listener}
    /\ conn \in [Conns -> Connection]
    /\ inbox \in [Conns -> Seq(Requests)]
    /\ owner \in [Requests -> Conns \cup {NoConn}]
    /\ work \in [Requests -> Stage]
    /\ permits \in [Pool -> Nat]

Init ==
    /\ daemon = "starting"
    /\ interrupted = FALSE
    /\ pending = {} /\ sent = {} /\ wake = {}
    /\ conn = [c \in Conns |-> [phase |-> "none", accepts |-> TRUE, canSend |-> TRUE,
                                stopping |-> FALSE, listening |-> FALSE, peer |-> TRUE]]
    /\ inbox = [c \in Conns |-> <<>>]
    /\ owner = [r \in Requests |-> NoConn]
    /\ work = [r \in Requests |-> "unsent"]
    /\ permits = Limit

Alive == daemon # "stopped"

OwnedIn(c, S) == {r \in Requests : owner[r] = c /\ work[r] \in S}

LiveConns == {c \in Conns : conn[c].phase \in {"handshake", "open"}}

\* Mutant: an aborted request forgets its permit.
CutForgettingPermit(w, C) ==
    [r \in Requests |->
        IF owner[r] \in C /\ w[r] \in {"buffered", "waiting", "running", "finished"}
        THEN "dropped" ELSE w[r]]

\* The requests of the connections C when these end: the JoinSets are
\* dropped, which aborts the tasks still running.
Cut(w, C) ==
    [r \in Requests |->
        IF owner[r] \notin C THEN w[r]
        ELSE IF w[r] = "running" THEN "aborting"
        ELSE IF w[r] \in {"buffered", "waiting", "finished"} THEN "dropped"
        ELSE w[r]]

\* handle_connection returns (or is aborted) on every connection of C.
End(C, w) ==
    /\ conn' = [c \in Conns |-> IF c \in C THEN [conn[c] EXCEPT !.phase = "closed"] ELSE conn[c]]
    /\ inbox' = [c \in Conns |-> IF c \in C THEN <<>> ELSE inbox[c]]
    /\ wake' = wake \ C
    /\ work' = Cut(w, C)

-----------------------------------------------------------------------------
(* Clients.                                                                *)

ClientSend(c, r) ==
    /\ conn[c].phase = "open" /\ conn[c].peer
    /\ work[r] = "unsent"
    /\ inbox' = [inbox EXCEPT ![c] = Append(inbox[c], r)]
    /\ owner' = [owner EXCEPT ![r] = c]
    /\ work' = [work EXCEPT ![r] = "buffered"]
    /\ UNCHANGED <<daemon, interrupted, pending, sent, wake, conn, permits>>

ClientLeave(c) ==
    /\ c \in LiveConns /\ conn[c].peer
    /\ conn' = [conn EXCEPT ![c].peer = FALSE]
    /\ UNCHANGED <<daemon, interrupted, pending, sent, wake, inbox, owner, work, permits>>

-----------------------------------------------------------------------------
(* The shutdown broadcast reaches the receivers that exist at that moment. *)

Broadcast ==
    wake' = wake \cup LiveConns \cup (IF daemon = "serving" THEN {Listener} ELSE {})

\* Sent before the accept loop subscribes, the broadcast has no receiver.
CtrlC ==
    /\ Alive /\ ~interrupted
    /\ interrupted' = TRUE
    /\ Broadcast
    /\ UNCHANGED <<daemon, pending, sent, conn, inbox, owner, work, permits>>

SendShutdown(r) ==
    /\ Alive /\ r \in pending
    /\ pending' = pending \ {r}
    /\ sent' = sent \cup {r}
    /\ Broadcast
    /\ UNCHANGED <<daemon, interrupted, conn, inbox, owner, work, permits>>

-----------------------------------------------------------------------------
(* Daemon::serve.                                                          *)

Listen ==
    /\ daemon = "starting"
    /\ daemon' = "serving"
    /\ UNCHANGED <<interrupted, pending, sent, wake, conn, inbox, owner, work, permits>>

\* The receiver of the new connection sees later broadcasts only.
Accept(c) ==
    /\ daemon = "serving"
    /\ conn[c].phase = "none"
    /\ conn' = [conn EXCEPT ![c].phase = "handshake"]
    /\ UNCHANGED <<daemon, interrupted, pending, sent, wake, inbox, owner, work, permits>>

StopListening ==
    /\ daemon = "serving" /\ Listener \in wake
    /\ daemon' = "draining"
    /\ wake' = wake \ {Listener}
    /\ UNCHANGED <<interrupted, pending, sent, conn, inbox, owner, work, permits>>

\* Mutant: drain_connection_tasks has no deadline.
DrainTimeoutNever == FALSE

\* The deadline passes: every connection task is aborted.
DrainTimeout ==
    /\ daemon = "draining" /\ LiveConns # {}
    /\ daemon' = "expired"
    /\ End(LiveConns, work)
    /\ UNCHANGED <<interrupted, pending, sent, owner, permits>>

DrainDone ==
    /\ daemon \in {"draining", "expired"} /\ LiveConns = {}
    /\ daemon' = "stopped"
    /\ UNCHANGED <<interrupted, pending, sent, wake, conn, inbox, owner, work, permits>>

-----------------------------------------------------------------------------
(* handle_connection: the handshake, which does not watch the broadcast.   *)

Handshake(c) ==
    /\ conn[c].phase = "handshake" /\ conn[c].peer
    /\ conn' = [conn EXCEPT ![c].phase = "open"]
    /\ UNCHANGED <<daemon, interrupted, pending, sent, wake, inbox, owner, work, permits>>

\* Protocol mismatch, a malformed Hello, or end of file.
HandshakeFails(c) ==
    /\ conn[c].phase = "handshake"
    /\ End({c}, work)
    /\ UNCHANGED <<daemon, interrupted, pending, sent, owner, permits>>

-----------------------------------------------------------------------------
(* handle_connection: the select loop.  Its arms are tried in order: a     *)
(* finished request, a frame, an event, the broadcast.  While the frame    *)
(* arm waits for a permit no arm runs.                                     *)

Polls(c) == conn[c].phase = "open" /\ OwnedIn(c, {"waiting"}) = {}

\* The frame arm has nothing to do.
NoFrame(c) == conn[c].accepts => inbox[c] = <<>> /\ conn[c].peer

\* The check at the bottom of the loop, for connection state k and stages w.
LoopOrEnd(c, k, w) ==
    IF ~k.accepts /\ {r \in Requests : owner[r] = c /\ w[r] \in {"running", "finished"}} = {}
    THEN End({c}, w)
    ELSE /\ conn' = [conn EXCEPT ![c] = k]
         /\ work' = w
         /\ UNCHANGED <<inbox, wake>>

\* A client that is gone makes the send fail: the connection takes no more
\* frames and sends no more, but lets the other requests finish.
JoinArm(c) ==
    /\ Polls(c)
    /\ \E r \in OwnedIn(c, {"finished"}) :
          \/ /\ conn[c].canSend /\ conn[c].peer
             /\ LoopOrEnd(c, conn[c], [work EXCEPT ![r] = "answered"])
          \/ /\ ~(conn[c].canSend /\ conn[c].peer)
             /\ LoopOrEnd(c, [conn[c] EXCEPT !.canSend = FALSE, !.accepts = FALSE],
                          [work EXCEPT ![r] = "dropped"])
    /\ UNCHANGED <<daemon, interrupted, pending, sent, owner, permits>>

\* A frame: a subscription is answered on the spot, another request goes
\* on to wait for a permit, a decode error ends the connection.
FrameArm(c) ==
    /\ Polls(c) /\ conn[c].accepts
    /\ OwnedIn(c, {"finished"}) = {}
    /\ inbox[c] # <<>>
    /\ LET r == Head(inbox[c])
       IN  \/ /\ r \in Damaged \/ (r \in Subscribes /\ ~conn[c].peer)
              /\ End({c}, work)
           \/ /\ r \in Subscribes /\ conn[c].peer
              /\ conn' = [conn EXCEPT ![c].listening = TRUE]
              /\ inbox' = [inbox EXCEPT ![c] = Tail(inbox[c])]
              /\ work' = [work EXCEPT ![r] = "answered"]
              /\ UNCHANGED wake
           \/ /\ r \notin Subscribes
              /\ inbox' = [inbox EXCEPT ![c] = Tail(inbox[c])]
              /\ work' = [work EXCEPT ![r] = "waiting"]
              /\ UNCHANGED <<conn, wake>>
    /\ UNCHANGED <<daemon, interrupted, pending, sent, owner, permits>>

EndOfStream(c) ==
    /\ Polls(c) /\ conn[c].accepts
    /\ OwnedIn(c, {"finished"}) = {}
    /\ inbox[c] = <<>> /\ ~conn[c].peer
    /\ End({c}, work)
    /\ UNCHANGED <<daemon, interrupted, pending, sent, owner, permits>>

\* An event that cannot be sent ends the connection; one that can changes
\* nothing here.
EventArm(c) ==
    /\ Polls(c) /\ conn[c].listening
    /\ OwnedIn(c, {"finished"}) = {} /\ NoFrame(c)
    /\ ~conn[c].peer
    /\ End({c}, work)
    /\ UNCHANGED <<daemon, interrupted, pending, sent, owner, permits>>

\* Mutant: the broadcast ends the loop at once.
ShutdownArmAtOnce(c) ==
    /\ Polls(c) /\ ~conn[c].stopping /\ c \in wake
    /\ OwnedIn(c, {"finished"}) = {} /\ NoFrame(c)
    /\ End({c}, work)
    /\ UNCHANGED <<daemon, interrupted, pending, sent, owner, permits>>

ShutdownArm(c) ==
    /\ Polls(c) /\ ~conn[c].stopping /\ c \in wake
    /\ OwnedIn(c, {"finished"}) = {} /\ NoFrame(c)
    /\ LoopOrEnd(c, [conn[c] EXCEPT !.stopping = TRUE, !.accepts = FALSE], work)
    /\ UNCHANGED <<daemon, interrupted, pending, sent, owner, permits>>

\* Mutant: the task is spawned without waiting for the permit.
AcquireAtOnce(c) ==
    /\ conn[c].phase = "open"
    /\ \E r \in OwnedIn(c, {"waiting"}) :
          /\ permits' = [permits EXCEPT ![PoolOf(r)] = permits[PoolOf(r)] - 1]
          /\ work' = [work EXCEPT ![r] = "running"]
    /\ UNCHANGED <<daemon, interrupted, pending, sent, wake, conn, inbox, owner>>

\* The permit arrives and the request's task is spawned.
Acquire(c) ==
    /\ conn[c].phase = "open"
    /\ \E r \in OwnedIn(c, {"waiting"}) :
          /\ permits[PoolOf(r)] > 0
          /\ permits' = [permits EXCEPT ![PoolOf(r)] = permits[PoolOf(r)] - 1]
          /\ work' = [work EXCEPT ![r] = "running"]
    /\ UNCHANGED <<daemon, interrupted, pending, sent, wake, conn, inbox, owner>>

-----------------------------------------------------------------------------
(* Request tasks.                                                          *)

\* handle_shutdown spawns the task that sends the broadcast and returns.
SpawnShutdown(r) ==
    /\ Alive /\ work[r] \in {"running", "aborting"}
    /\ r \in Stops \ (pending \cup sent)
    /\ pending' = pending \cup {r}
    /\ UNCHANGED <<daemon, interrupted, sent, wake, conn, inbox, owner, work, permits>>

Release(r) == permits' = [permits EXCEPT ![PoolOf(r)] = permits[PoolOf(r)] + 1]

\* Mutant: the permit is part of the task's result.
FinishHoldingPermit(r) ==
    /\ Alive /\ work[r] = "running"
    /\ r \in Stops => r \in pending \cup sent
    /\ work' = [work EXCEPT ![r] = "finished"]
    /\ UNCHANGED <<daemon, interrupted, pending, sent, wake, conn, inbox, owner, permits>>

\* The handler returns (a panic is caught): its permit is released here,
\* not when the response is sent.
Finish(r) ==
    /\ Alive /\ work[r] = "running"
    /\ r \in Stops => r \in pending \cup sent
    /\ work' = [work EXCEPT ![r] = "finished"]
    /\ Release(r)
    /\ UNCHANGED <<daemon, interrupted, pending, sent, wake, conn, inbox, owner>>

\* An aborted task is dropped at its next await, or finishes unheard.
Abort(r) ==
    /\ Alive /\ work[r] = "aborting"
    /\ work' = [work EXCEPT ![r] = "dropped"]
    /\ Release(r)
    /\ UNCHANGED <<daemon, interrupted, pending, sent, wake, conn, inbox, owner>>

-----------------------------------------------------------------------------
ConnStep(c) ==
    \/ JoinArm(c) \/ FrameArm(c) \/ EndOfStream(c) \/ EventArm(c) \/ ShutdownArm(c)
    \/ Acquire(c)

TaskStep(r) == SpawnShutdown(r) \/ SendShutdown(r) \/ Finish(r) \/ Abort(r)

ServeStep == Listen \/ StopListening \/ DrainTimeout \/ DrainDone

DaemonStep ==
    \/ \E c \in Conns : ConnStep(c)
    \/ \E r \in Requests : TaskStep(r)
    \/ ServeStep

Next ==
    \/ \E c \in Conns, r \in Requests : ClientSend(c, r)
    \/ \E c \in Conns : ClientLeave(c) \/ Accept(c) \/ Handshake(c) \/ HandshakeFails(c)
    \/ DaemonStep
    \/ CtrlC

Spec == Init /\ [][Next]_vars

(* Fairness.  tokio polls every ready task, the deadline of the drain      *)
(* passes, and a handler returns: the wait for the writer connection has a *)
(* time limit, and the model providers, whose HTTP clients set none, are   *)
(* assumed to answer.  So the daemon does not stand still while any of its *)
(* own steps is possible.  That is weaker than fairness for each task, and *)
(* enough.  Clients, their Hello frame included, are not fair.             *)
FairSpec == Spec /\ WF_vars(DaemonStep)

-----------------------------------------------------------------------------
(* Properties.                                                             *)

Holders(k) == {r \in Requests : PoolOf(r) = k /\ work[r] \in {"running", "aborting"}}

(* No permit is lost or given twice, whatever ends a request: its handler  *)
(* returning, its client leaving, a malformed frame, or an aborted drain.  *)
(* A leaked permit would shrink the 64 or the 8 until the daemon refuses   *)
(* to run anything (server.rs 359-373).                                    *)
PermitsConserved == \A k \in Pool : permits[k] + Cardinality(Holders(k)) = Limit[k]

(* A request that was read from its connection is given up only when its   *)
(* client is gone or broke the framing, or when the drain deadline passed: *)
(* the shutdown broadcast itself lets in-flight requests finish and        *)
(* answers them (server.rs 406-414, ARCHITECTURE.md 126).                  *)
GracefulDrain ==
    [][\A r \in Requests :
          work[r] \in {"waiting", "running", "finished"} /\ work'[r] \in {"aborting", "dropped"} =>
             \/ ~conn[owner[r]].peer
             \/ daemon' = "expired"
             \/ Len(inbox[owner[r]]) > 0 /\ Head(inbox[owner[r]]) \in Damaged]_vars

(* Every request is answered or its connection ends: the loop that waits   *)
(* for a permit reads no results, so it must never wait for a permit that  *)
(* only its own unread results hold (server.rs 312, 364-373).              *)
Settled == \A r \in Requests :
    work[r] = "buffered" ~> work[r] \in {"answered", "dropped", "aborting"}

(* A shutdown broadcast that the accept loop receives stops the daemon,    *)
(* although a connection accepted after the send, one still in its         *)
(* handshake and one whose client keeps sending do not react to it         *)
(* (server.rs 243-251, 419-449).                                           *)
ShutdownStops == daemon = "serving" /\ Listener \in wake ~> daemon = "stopped"
=============================================================================
