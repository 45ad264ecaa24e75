------------------------------ MODULE Session ------------------------------
(***************************************************************************)
(* What one connection carries: the client library (crates/client), the    *)
(* select loop that serves it in the daemon (handle_connection in          *)
(* daemon/server.rs) and the broadcast channel of events.                  *)
(*                                                                         *)
(* A client has one request outstanding at a time, but a request that      *)
(* timed out is still served: its response arrives late, before or after   *)
(* those of later requests, on the same stream as events.  Semaphores,     *)
(* shutdown and the aborting of tasks are the subject of Server.           *)
(***************************************************************************)
EXTENDS Integers, Sequences, FiniteSets

CONSTANTS
    Conns,        \* connections
    Callers,      \* those held by a program that keeps its client
    Kinds,        \* what these programs request
    Payloads,     \* data that a response may carry
    Capacity,     \* EVENT_CHANNEL_CAPACITY: 1024
    MaxId,        \* bound on the requests of one client
    MaxEvents,    \* bound on the events of a behaviour
    MaxRestarts   \* bound on the restarts of the daemon

ASSUME SessionAssumption ==
    /\ Callers \subseteq Conns
    /\ Kinds \subseteq {"work", "tick", "subscribe", "replay"}
    /\ Payloads \cap {"ok", "error", "none", "timeout", "mismatch", "closed"} = {}
    /\ Capacity \in Nat \ {0}
    /\ {MaxId, MaxEvents, MaxRestarts} \subseteq Nat

\* Memory::Subscribe without and with replay_snapshot.
Subscribing == {"subscribe", "replay"}

\* What a response says: done, failed, or the data asked for.
Answer == {"ok", "error"} \cup Payloads

Frame ==
    [type : {"response"}, id : Nat, answer : Answer]
    \cup [type : {"event"}, seq : Nat]          \* TickCompleted; id 0 on the wire
    \cup [type : {"lagged"}, skipped : Nat]     \* EventStreamLagged
    \cup [type : {"state"}, seq : Nat]          \* CurrentState, read after so many events

VARIABLES
    up,          \* the daemon is running
    restarts,    \* how often it was started again
    published,   \* events sent on the broadcast channel
    client,      \* the client's end of each connection
    inbox,       \* requests on their way to the daemon
    loop,        \* the daemon's end of each connection
    wire,        \* frames on their way to the client
    told,        \* history: the stream has accounted for all events before this one
    executed     \* history: how often the handler of a request took effect

vars == <<up, restarts, published, client, inbox, loop, wire, told, executed>>

\* The requests of programs, and those of the bridge.
Request == [id : Nat, kind : {"work", "tick", "subscribe", "replay", "mint", "validate", "call"}]

\* next_id, the id being awaited (0: none), how the last request ended,
\* and whether any request of this client ever timed out.
ClientState ==
    [open : BOOLEAN, next : Nat, waits : Nat, late : BOOLEAN,
     last : Answer \cup {"none", "timeout", "mismatch", "closed"},
     lastId : Nat]

NoClient == [open |-> FALSE, next |-> 1, waits |-> 0, late |-> FALSE,
             last |-> "none", lastId |-> 0]

\* request_tasks (running, finished), event_rx (0: none, else the number of
\* the next event), and where a Subscribe is that must replay a snapshot.
LoopState ==
    [open : BOOLEAN, running : SUBSET Request,
     finished : SUBSET [id : Nat, answer : Answer],
     rx : Nat, at : {"select", "count", "send"}, count : Nat]

NoLoop == [open |-> FALSE, running |-> {}, finished |-> {}, rx |-> 0,
           at |-> "select", count |-> 0]

TypeOK ==
    /\ up \in BOOLEAN /\ restarts \in 0..MaxRestarts /\ published \in 0..MaxEvents
    /\ client \in [Conns -> ClientState]
    /\ inbox \in [Conns -> Seq(Request)]
    /\ loop \in [Conns -> LoopState]
    /\ wire \in [Conns -> Seq(Frame)]
    /\ told \in [Conns -> Nat]
    /\ executed \in [Conns -> [1..MaxId -> Nat]]

Init ==
    /\ up = TRUE /\ restarts = 0 /\ published = 0
    /\ client = [c \in Conns |-> NoClient]
    /\ inbox = [c \in Conns |-> <<>>]
    /\ loop = [c \in Conns |-> NoLoop]
    /\ wire = [c \in Conns |-> <<>>]
    /\ told = [c \in Conns |-> 0]
    /\ executed = [c \in Conns |-> [i \in 1..MaxId |-> 0]]

-----------------------------------------------------------------------------
(* The client library.                                                     *)

\* Client::connect with its handshake; it fails while the daemon is down.
Connect(c) ==
    /\ up /\ ~client[c].open /\ ~loop[c].open
    /\ client' = [client EXCEPT ![c] = [NoClient EXCEPT !.open = TRUE]]
    /\ loop' = [loop EXCEPT ![c] = [NoLoop EXCEPT !.open = TRUE]]
    /\ inbox' = [inbox EXCEPT ![c] = <<>>]
    /\ wire' = [wire EXCEPT ![c] = <<>>]
    /\ told' = [told EXCEPT ![c] = 0]
    /\ executed' = [executed EXCEPT ![c] = [i \in 1..MaxId |-> 0]]
    /\ UNCHANGED <<up, restarts, published>>

\* request_inner up to its first await on the stream: the id is used up
\* even when the frame cannot be sent.
Send(c, kind) ==
    /\ client[c].open /\ client[c].waits = 0 /\ client[c].next <= MaxId
    /\ \/ /\ loop[c].open
          /\ inbox' = [inbox EXCEPT ![c] = Append(inbox[c], [id |-> client[c].next, kind |-> kind])]
          /\ client' = [client EXCEPT ![c].next = client[c].next + 1,
                                      ![c].waits = client[c].next]
       \/ /\ ~loop[c].open
          /\ client' = [client EXCEPT ![c].next = client[c].next + 1,
                                      ![c].last = "closed", ![c].lastId = client[c].next]
          /\ UNCHANGED inbox
    /\ UNCHANGED <<up, restarts, published, loop, wire, told, executed>>

Finish(c, how) ==
    client' = [client EXCEPT ![c].waits = 0, ![c].last = how, ![c].lastId = client[c].waits,
                             ![c].late = client[c].late \/ how = "timeout"]

\* Mutant: the id of the response is not compared.
RecvUnchecked(c) ==
    /\ client[c].waits # 0 /\ wire[c] # <<>>
    /\ LET f == Head(wire[c])
       IN  \/ /\ f.type # "response"
              /\ UNCHANGED client
           \/ /\ f.type = "response"
              /\ Finish(c, f.answer)
    /\ wire' = [wire EXCEPT ![c] = Tail(wire[c])]
    /\ UNCHANGED <<up, restarts, published, inbox, loop, told, executed>>

\* Mutant: events are not skipped; their id is 0.
RecvAnyFrame(c) ==
    /\ client[c].waits # 0 /\ wire[c] # <<>>
    /\ LET f == Head(wire[c])
       IN  Finish(c, IF f.type = "response" /\ f.id = client[c].waits
                     THEN f.answer ELSE "mismatch")
    /\ wire' = [wire EXCEPT ![c] = Tail(wire[c])]
    /\ UNCHANGED <<up, restarts, published, inbox, loop, told, executed>>

\* One frame of the loop in request_inner: events are skipped, a response
\* with another id ends the request with IdMismatch.
Recv(c) ==
    /\ client[c].waits # 0 /\ wire[c] # <<>>
    /\ LET f == Head(wire[c])
       IN  \/ /\ f.type # "response"
              /\ UNCHANGED client
           \/ /\ f.type = "response"
              /\ Finish(c, IF f.id = client[c].waits THEN f.answer ELSE "mismatch")
    /\ wire' = [wire EXCEPT ![c] = Tail(wire[c])]
    /\ UNCHANGED <<up, restarts, published, inbox, loop, told, executed>>

\* The stream ends after the last buffered frame.
RecvClosed(c) ==
    /\ client[c].waits # 0 /\ wire[c] = <<>> /\ ~loop[c].open
    /\ Finish(c, "closed")
    /\ UNCHANGED <<up, restarts, published, inbox, loop, wire, told, executed>>

\* tokio::time::timeout drops the future: nothing tells the daemon.
Timeout(c) ==
    /\ client[c].waits # 0
    /\ Finish(c, "timeout")
    /\ UNCHANGED <<up, restarts, published, inbox, loop, wire, told, executed>>

\* The client is dropped, waiting or not, and with it the socket.
Leave(c) ==
    /\ client[c].open
    /\ client' = [client EXCEPT ![c].open = FALSE, ![c].waits = 0]
    /\ UNCHANGED <<up, restarts, published, inbox, loop, wire, told, executed>>

-----------------------------------------------------------------------------
(* The connection loop.  While it counts memories for a snapshot it does   *)
(* nothing else; tasks and the other connections go on.                    *)

Later(m, n) == IF m > n THEN m ELSE n

Selecting(c) == loop[c].open /\ loop[c].at = "select"

Put(c, f) == wire' = [wire EXCEPT ![c] = Append(wire[c], f)]

\* A request other than Subscribe is spawned as a task.
Spawn(c) ==
    /\ Selecting(c) /\ inbox[c] # <<>> /\ Head(inbox[c]).kind \notin Subscribing
    /\ loop' = [loop EXCEPT ![c].running = loop[c].running \cup {Head(inbox[c])}]
    /\ inbox' = [inbox EXCEPT ![c] = Tail(inbox[c])]
    /\ UNCHANGED <<up, restarts, published, client, wire, told, executed>>

\* Subscribe: a receiver first (it replaces an earlier one, with whatever
\* that one had not delivered), then the response, then the snapshot.
Subscribe(c) ==
    /\ Selecting(c) /\ inbox[c] # <<>> /\ Head(inbox[c]).kind \in Subscribing
    /\ LET r == Head(inbox[c])
       IN  /\ loop' = [loop EXCEPT ![c].rx = published + 1,
                                   ![c].at = IF r.kind = "replay" THEN "count" ELSE "select"]
           /\ Put(c, [type |-> "response", id |-> r.id, answer |-> "ok"])
    /\ inbox' = [inbox EXCEPT ![c] = Tail(inbox[c])]
    /\ told' = [told EXCEPT ![c] = published + 1]
    /\ executed' = [executed EXCEPT ![c][Head(inbox[c]).id] = 1]
    /\ UNCHANGED <<up, restarts, published, client>>

\* current_state_event reads the number of memories, or fails: then no
\* snapshot is sent.
CountMemories(c) ==
    /\ loop[c].open /\ loop[c].at = "count"
    /\ loop' = [loop EXCEPT ![c].at = "send", ![c].count = published]
    /\ UNCHANGED <<up, restarts, published, client, inbox, wire, told, executed>>

CountFails(c) ==
    /\ loop[c].open /\ loop[c].at = "count"
    /\ loop' = [loop EXCEPT ![c].at = "select"]
    /\ UNCHANGED <<up, restarts, published, client, inbox, wire, told, executed>>

\* Mutant: the receiver is created once the snapshot has been sent.
SendSnapshotThenListen(c) ==
    /\ loop[c].open /\ loop[c].at = "send"
    /\ Put(c, [type |-> "state", seq |-> loop[c].count])
    /\ told' = [told EXCEPT ![c] = Later(told[c], loop[c].count + 1)]
    /\ loop' = [loop EXCEPT ![c].at = "select", ![c].count = 0, ![c].rx = published + 1]
    /\ UNCHANGED <<up, restarts, published, client, inbox, executed>>

SendSnapshot(c) ==
    /\ loop[c].open /\ loop[c].at = "send"
    /\ Put(c, [type |-> "state", seq |-> loop[c].count])
    /\ told' = [told EXCEPT ![c] = Later(told[c], loop[c].count + 1)]
    /\ loop' = [loop EXCEPT ![c].at = "select", ![c].count = 0]
    /\ UNCHANGED <<up, restarts, published, client, inbox, executed>>

\* The handler of request r ends; its task waits to be joined.
Answered(c, r, answer) ==
    /\ r \in loop[c].running
    /\ loop' = [loop EXCEPT ![c].running = loop[c].running \ {r},
                            ![c].finished = loop[c].finished \cup {[id |-> r.id, answer |-> answer]}]

\* A handler takes effect or fails, before or after its first write; a
\* tick broadcasts TickCompleted just before it returns.
Handle(c) ==
    /\ c \in Callers
    /\ \E r \in loop[c].running :
          \/ /\ Answered(c, r, "ok")
             /\ executed' = [executed EXCEPT ![c][r.id] = executed[c][r.id] + 1]
             /\ r.kind = "tick" => published < MaxEvents
             /\ published' = IF r.kind = "tick" THEN published + 1 ELSE published
          \/ /\ Answered(c, r, "error")
             /\ \E n \in {0, 1} : executed' = [executed EXCEPT ![c][r.id] = executed[c][r.id] + n]
             /\ UNCHANGED published
    /\ UNCHANGED <<up, restarts, client, inbox, wire, told>>

\* join_next: responses leave in the order in which the tasks end.
Respond(c) ==
    /\ Selecting(c)
    /\ \E a \in loop[c].finished :
          /\ loop' = [loop EXCEPT ![c].finished = loop[c].finished \ {a}]
          /\ IF client[c].open
             THEN Put(c, [type |-> "response", id |-> a.id, answer |-> a.answer])
             ELSE UNCHANGED wire
    /\ UNCHANGED <<up, restarts, published, client, inbox, told, executed>>

Oldest == IF published > Capacity THEN published - Capacity + 1 ELSE 1

\* recv: the next event, or Lagged with the number of those overwritten.
Deliver(c) ==
    /\ Selecting(c) /\ loop[c].rx # 0 /\ loop[c].rx <= published
    /\ LET rx == loop[c].rx
       IN  \/ /\ rx >= Oldest
              /\ Put(c, [type |-> "event", seq |-> rx])
              /\ loop' = [loop EXCEPT ![c].rx = rx + 1]
              /\ told' = [told EXCEPT ![c] = Later(told[c], rx + 1)]
           \/ /\ rx < Oldest
              /\ Put(c, [type |-> "lagged", skipped |-> Oldest - rx])
              /\ loop' = [loop EXCEPT ![c].rx = Oldest]
              /\ told' = [told EXCEPT ![c] = Later(told[c], Oldest)]
    /\ UNCHANGED <<up, restarts, published, client, inbox, executed>>

\* The client left: the loop ends and drops the tasks that still run.
Hangup(c) ==
    /\ loop[c].open /\ ~client[c].open
    /\ loop' = [loop EXCEPT ![c] = NoLoop]
    /\ inbox' = [inbox EXCEPT ![c] = <<>>]
    /\ UNCHANGED <<up, restarts, published, client, wire, told, executed>>

\* The daemon dies; what it has written can still be read.
Die ==
    /\ up /\ restarts < MaxRestarts
    /\ up' = FALSE
    /\ loop' = [c \in Conns |-> NoLoop]
    /\ inbox' = [c \in Conns |-> <<>>]
    /\ UNCHANGED <<restarts, published, client, wire, told, executed>>

Start ==
    /\ ~up
    /\ up' = TRUE /\ restarts' = restarts + 1
    /\ UNCHANGED <<published, client, inbox, loop, wire, told, executed>>

Serve(c) ==
    \/ Spawn(c) \/ Subscribe(c) \/ CountMemories(c) \/ CountFails(c) \/ SendSnapshot(c)
    \/ Respond(c) \/ Deliver(c) \/ Hangup(c)

Call(c) ==
    \/ Connect(c) \/ (\E k \in Kinds : Send(c, k))
    \/ Recv(c) \/ RecvClosed(c) \/ Timeout(c) \/ Leave(c)

Next ==
    \/ \E c \in Conns : Serve(c) \/ Handle(c)
    \/ \E c \in Callers : Call(c)
    \/ Die \/ Start

Spec == Init /\ [][Next]_vars

-----------------------------------------------------------------------------
(* Invariants.                                                             *)

(* A request that the client library returns as answered got its own       *)
(* response: "ok" means that this very request took effect, once, and not  *)
(* an earlier one that timed out and answered late.                        *)
OwnAnswer ==
    \A c \in Callers : client[c].last = "ok" =>
        executed[c][client[c].lastId] = 1

(* A response never fails to match unless an earlier request on the same   *)
(* connection timed out: neither events, which share the stream and carry  *)
(* id 0, nor the order in which tasks end disturb a client that waits.     *)
MismatchNeedsTimeout ==
    \A c \in Callers : client[c].last = "mismatch" => client[c].late

(* The receiver of a subscriber never moves past what its stream has told: *)
(* every event after the snapshot, or after the subscription without one,  *)
(* is delivered or counted as skipped, however slow the subscriber is and  *)
(* whenever ticks complete while the snapshot is being read.               *)
NothingMissed == \A c \in Conns : loop[c].rx <= told[c]
=============================================================================
