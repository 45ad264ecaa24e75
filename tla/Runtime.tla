------------------------------ MODULE Runtime ------------------------------
(***************************************************************************)
(* Daemon processes, the files they share, and the operators that start    *)
(* and stop them: Store::open and its migrations (store/pool.rs),          *)
(* Daemon::serve around its accept loop (daemon/server.rs), and the CLI's  *)
(* connect_or_spawn, start, stop and restart (cli/main.rs).                *)
(*                                                                         *)
(* The socket file is the process whose bind created it; a connect reaches *)
(* that process while its listener is open, and fails on a file left       *)
(* behind.  A process id is free again once the process is gone.           *)
(***************************************************************************)
EXTENDS Naturals

CONSTANTS
    Procs,         \* process ids
    Operators,     \* people or scripts that run cm concurrently
    None,          \* no file, no process
    Empty,         \* a pid file that has been truncated and not yet written
    Commands,      \* what the operators do
    MaxCrashes,    \* bound on the number of daemons killed
    MaxHaste,      \* bound on the steps that do not wait for a daemon to come up or go
    Versions,      \* migrations: 5
    Statements     \* SQL statements in a migration

AllCommands == {"start", "foreground", "stop", "restart"}

ASSUME RuntimeAssumption ==
    /\ None \notin Procs /\ Empty \notin Procs \cup {None}
    /\ Commands \subseteq AllCommands
    /\ MaxCrashes \in Nat /\ MaxHaste \in Nat
    /\ Versions \in Nat \ {0} /\ Statements \in Nat \ {0}

VARIABLES
    schema,     \* how many statements of each migration have been executed
    applied,    \* the versions in schema_migrations
    sock,       \* the process that created the socket file, or None
    pidfile,    \* the process id in the pid file, Empty or None
    stage,      \* what each daemon process does next
    mig,        \* the migration and the statement it is at
    failed,     \* processes that gave up on a migration
    cli,        \* what each operator's command does next
    haste,      \* how often somebody did not wait for a daemon to come up or go
    crashes

vars == <<schema, applied, sock, pidfile, stage, mig, failed, cli, haste, crashes>>
files == <<sock, pidfile>>
tables == <<schema, applied>>
notes == <<haste, crashes>>

Starting == {"migrate", "inspect", "probe", "unlink_stale", "bind", "truncate_pid", "write_pid"}
Leaving == {"draining", "unlink_socket", "unlink_pid"}
Stages == {"none", "serving"} \cup Starting \cup Leaving

AtPrompt == [pc |-> "idle", cmd |-> "start", pid |-> None]

TypeOK ==
    /\ schema \in [1..Versions -> 0..Statements]
    /\ applied \subseteq 1..Versions
    /\ sock \in Procs \cup {None}
    /\ pidfile \in Procs \cup {None, Empty}
    /\ stage \in [Procs -> Stages]
    /\ mig \in [Procs -> [version : 1..(Versions + 1), next : 0..(Statements + 1)]]
    /\ failed \subseteq Procs
    /\ cli \in [Operators ->
                  [pc  : {"idle", "connect", "recover", "read_pid", "signal", "remove_pid",
                          "remove_socket", "spawn", "wait_ready", "wait_exit", "attached"},
                   cmd : AllCommands,
                   pid : Procs \cup {None}]]
    /\ haste \in 0..MaxHaste
    /\ crashes \in 0..MaxCrashes

Init ==
    /\ schema = [v \in 1..Versions |-> 0]
    /\ applied = {}
    /\ sock = None /\ pidfile = None
    /\ stage = [p \in Procs |-> "none"]
    /\ mig = [p \in Procs |-> [version |-> 1, next |-> 0]]
    /\ failed = {}
    /\ cli = [o \in Operators |-> AtPrompt]
    /\ haste = 0 /\ crashes = 0

\* The listener exists from bind until the accept loop ends.
Listening(p) == p # None /\ stage[p] \in {"truncate_pid", "write_pid", "serving"}

\* UnixStream::connect on the socket path.
Reachable == Listening(sock)

IsAlive(p) == p \in Procs /\ stage[p] # "none"

\* Neither coming up nor going away.
Settled(p) == stage[p] \in {"none", "serving"}

At(p, s) == stage[p] = s
Goto(p, s) == stage' = [stage EXCEPT ![p] = s]

-----------------------------------------------------------------------------
(* Store::open: each version is looked up, its statements are executed one *)
(* by one outside a transaction, and it is recorded last.  A statement     *)
(* that was executed before fails: no table, column or index is created    *)
(* with IF NOT EXISTS.                                                     *)

\* Mutant: the version is recorded before its statements are executed.
IsMigrationAppliedEagerly(p) ==
    /\ At(p, "migrate") /\ mig[p].next = 0 /\ mig[p].version <= Versions
    /\ applied' = applied \cup {mig[p].version}
    /\ mig' = [mig EXCEPT ![p] =
                  IF mig[p].version \in applied
                  THEN [version |-> mig[p].version + 1, next |-> 0]
                  ELSE [version |-> mig[p].version, next |-> 1]]
    /\ UNCHANGED <<schema, files, stage, failed, cli, notes>>

IsMigrationApplied(p) ==
    /\ At(p, "migrate") /\ mig[p].next = 0 /\ mig[p].version <= Versions
    /\ mig' = [mig EXCEPT ![p] =
                  IF mig[p].version \in applied
                  THEN [version |-> mig[p].version + 1, next |-> 0]
                  ELSE [version |-> mig[p].version, next |-> 1]]
    /\ UNCHANGED <<tables, files, stage, failed, cli, notes>>

GiveUp(p) == Goto(p, "none") /\ failed' = failed \cup {p}

ExecuteStatement(p) ==
    LET v == mig[p].version
        n == mig[p].next
    IN  /\ At(p, "migrate") /\ n \in 1..Statements
        /\ \/ /\ schema[v] < n
              /\ schema' = [schema EXCEPT ![v] = n]
              /\ mig' = [mig EXCEPT ![p] = [version |-> v, next |-> n + 1]]
              /\ UNCHANGED <<stage, failed>>
           \/ /\ schema[v] >= n
              /\ GiveUp(p)
              /\ UNCHANGED <<schema, mig>>
        /\ UNCHANGED <<applied, files, cli, notes>>

\* Mutant: the loop over the migrations advances twice.
RecordVersionSkipping(p) ==
    /\ At(p, "migrate") /\ mig[p].next = Statements + 1
    /\ applied' = applied \cup {mig[p].version}
    /\ mig' = [mig EXCEPT ![p] = [version |-> mig[p].version + 2, next |-> 0]]
    /\ UNCHANGED <<schema, files, stage, failed, cli, notes>>

RecordVersion(p) ==
    LET v == mig[p].version
    IN  /\ At(p, "migrate") /\ mig[p].next = Statements + 1
        /\ \/ /\ v \notin applied
              /\ applied' = applied \cup {v}
              /\ mig' = [mig EXCEPT ![p] = [version |-> v + 1, next |-> 0]]
              /\ UNCHANGED <<stage, failed>>
           \/ /\ v \in applied
              /\ GiveUp(p)
              /\ UNCHANGED <<applied, mig>>
        /\ UNCHANGED <<schema, files, cli, notes>>

Opened(p) ==
    /\ At(p, "migrate") /\ mig[p].version > Versions
    /\ Goto(p, "inspect")
    /\ UNCHANGED <<tables, files, mig, failed, cli, notes>>

-----------------------------------------------------------------------------
(* Daemon::serve.                                                          *)

Inspect(p) ==
    /\ At(p, "inspect")
    /\ Goto(p, IF sock # None THEN "probe" ELSE "bind")
    /\ UNCHANGED <<tables, files, mig, failed, cli, notes>>

\* Mutant: an existing socket file is taken to be stale.
ProbeNothing(p) ==
    /\ At(p, "probe")
    /\ Goto(p, "unlink_stale")
    /\ UNCHANGED <<tables, files, mig, failed, cli, notes>>

\* A socket that answers: AlreadyRunning.
Probe(p) ==
    /\ At(p, "probe")
    /\ Goto(p, IF Reachable THEN "none" ELSE "unlink_stale")
    /\ UNCHANGED <<tables, files, mig, failed, cli, notes>>

\* remove_file fails if the file is gone meanwhile.
UnlinkStale(p) ==
    /\ At(p, "unlink_stale")
    /\ Goto(p, IF sock = None THEN "none" ELSE "bind")
    /\ sock' = None
    /\ UNCHANGED <<tables, pidfile, mig, failed, cli, notes>>

\* bind fails if the file exists.
Bind(p) ==
    /\ At(p, "bind")
    /\ \/ sock = None /\ sock' = p /\ Goto(p, "truncate_pid")
       \/ sock # None /\ Goto(p, "none") /\ UNCHANGED sock
    /\ UNCHANGED <<tables, pidfile, mig, failed, cli, notes>>

\* write_pid_file: std::fs::write truncates the file before it writes.
TruncatePid(p) ==
    /\ At(p, "truncate_pid")
    /\ pidfile' = Empty
    /\ Goto(p, "write_pid")
    /\ UNCHANGED <<tables, sock, mig, failed, cli, notes>>

WritePid(p) ==
    /\ At(p, "write_pid")
    /\ pidfile' = p
    /\ Goto(p, "serving")
    /\ UNCHANGED <<tables, sock, mig, failed, cli, notes>>

\* The drain ends (see Server).
Drained(p) ==
    /\ At(p, "draining")
    /\ Goto(p, "unlink_socket")
    /\ UNCHANGED <<tables, files, mig, failed, cli, notes>>

\* The files are removed by path, whosever they are.
UnlinkSocket(p) ==
    /\ At(p, "unlink_socket")
    /\ sock' = None
    /\ Goto(p, "unlink_pid")
    /\ UNCHANGED <<tables, pidfile, mig, failed, cli, notes>>

UnlinkPid(p) ==
    /\ At(p, "unlink_pid")
    /\ pidfile' = None
    /\ Goto(p, "none")
    /\ UNCHANGED <<tables, sock, mig, failed, cli, notes>>

Killed(p) == crashes < MaxCrashes /\ crashes' = crashes + 1 /\ Goto(p, "none")

\* Killed, at any step; what it wrote stays.
Crash(p) ==
    /\ stage[p] # "none" /\ Killed(p)
    /\ UNCHANGED <<tables, files, mig, failed, cli, haste>>

-----------------------------------------------------------------------------
(* Commands.                                                               *)

Is(o, pc) == cli[o].pc = pc
Do(o, pc) == cli' = [cli EXCEPT ![o].pc = pc]
Return(o) == cli' = [cli EXCEPT ![o] = AtPrompt]

\* Nobody else's command is on its way, and every daemon but p is up or gone.
Calm(o, p) ==
    /\ \A q \in Operators \ {o} : cli[q].pc \in {"idle", "attached"}
    /\ \A q \in Procs \ {p} : Settled(q)

\* Nothing makes an operator wait for that.
MayHurry(calm) ==
    \/ calm /\ UNCHANGED haste
    \/ ~calm /\ haste < MaxHaste /\ haste' = haste + 1

\* start --foreground runs the daemon without a look at the socket.
Begin(o, cmd) ==
    /\ Is(o, "idle") /\ cmd \in Commands
    /\ cli' = [cli EXCEPT ![o] = [pc |-> IF cmd = "foreground" THEN "spawn" ELSE "connect",
                                  cmd |-> cmd, pid |-> None]]
    /\ MayHurry(Calm(o, None))
    /\ UNCHANGED <<tables, files, stage, mig, failed, crashes>>

\* Ctrl-C in the terminal of a foreground daemon reaches cm, which has no
\* handler and ends at once, and the daemon.  A serving daemon drains; one
\* that is going away goes on.  Before its handler is installed the signal
\* kills it; until serve has subscribed the broadcast may be lost instead.
Interrupt(o) ==
    /\ Is(o, "attached")
    /\ LET p == cli[o].pid
       IN  /\ \/ At(p, "serving") /\ Goto(p, "draining") /\ UNCHANGED crashes
              \/ stage[p] \in Leaving /\ UNCHANGED <<stage, crashes>>
              \/ stage[p] \in Starting /\ Killed(p)
              \/ stage[p] \in Starting \ {"migrate"} /\ UNCHANGED <<stage, crashes>>
           /\ MayHurry(Calm(o, p))
    /\ Return(o)
    /\ UNCHANGED <<tables, files, mig, failed>>

\* The foreground daemon exits by itself, and cm with it.
Detach(o) ==
    /\ Is(o, "attached") /\ At(cli[o].pid, "none")
    /\ Return(o)
    /\ UNCHANGED <<tables, files, stage, mig, failed, notes>>

\* Client::connect: it fails on an unreachable socket and may fail on a
\* reachable one (another protocol version).  stop and restart go on to
\* send Diagnostics::Shutdown, which the accept loop must be there to take.
Connect(o) ==
    /\ Is(o, "connect")
    /\ \/ /\ cli[o].cmd = "start" /\ Reachable
          /\ Return(o)
          /\ UNCHANGED stage
       \/ /\ cli[o].cmd \in {"stop", "restart"} /\ Reachable /\ At(sock, "serving")
          /\ Goto(sock, "draining")
          /\ Do(o, "wait_exit")
       \/ /\ cli[o].cmd = "stop"
          /\ Return(o)
          /\ UNCHANGED stage
       \/ /\ cli[o].cmd \in {"start", "restart"}
          /\ Do(o, "recover")
          /\ UNCHANGED stage
    /\ UNCHANGED <<tables, files, mig, failed, notes>>

(* recover_broken_daemon *)

Recover(o) ==
    /\ Is(o, "recover")
    /\ Do(o, IF Reachable THEN "spawn" ELSE "read_pid")
    /\ UNCHANGED <<tables, files, stage, mig, failed, notes>>

\* Mutant: a pid file is taken for a running daemon.
ReadPidTrusting(o) ==
    /\ Is(o, "read_pid")
    /\ \/ pidfile # None /\ Return(o)
       \/ pidfile = None /\ Do(o, "remove_socket")
    /\ UNCHANGED <<tables, files, stage, mig, failed, notes>>

\* An empty pid file does not parse: the command fails.
ReadPid(o) ==
    /\ Is(o, "read_pid")
    /\ \/ pidfile = Empty /\ Return(o)
       \/ pidfile = None /\ Do(o, "remove_socket")
       \/ pidfile \in Procs /\ cli' = [cli EXCEPT ![o].pc = "signal", ![o].pid = pidfile]
    /\ UNCHANGED <<tables, files, stage, mig, failed, notes>>

\* SIGTERM is not handled by the daemon, so it ends the process.
Signal(o) ==
    /\ Is(o, "signal")
    /\ Goto(cli[o].pid, "none")
    /\ Do(o, "remove_pid")
    /\ UNCHANGED <<tables, files, mig, failed, notes>>

RemovePid(o) ==
    /\ Is(o, "remove_pid")
    /\ pidfile' = None
    /\ Do(o, "remove_socket")
    /\ UNCHANGED <<tables, sock, stage, mig, failed, notes>>

RemoveSocket(o) ==
    /\ Is(o, "remove_socket")
    /\ sock' = None
    /\ Do(o, "spawn")
    /\ UNCHANGED <<tables, pidfile, stage, mig, failed, notes>>

\* spawn_daemon, or the child of start --foreground.  The id of a child
\* that its command has not reaped is not free.  A restart does not look
\* whether the daemon it stopped is gone.
Spawn(o) ==
    /\ Is(o, "spawn")
    /\ \E p \in Procs :
          /\ At(p, "none")
          /\ \A q \in Operators : cli[q].pc \in {"wait_ready", "attached"} => cli[q].pid # p
          /\ Goto(p, "migrate")
          /\ mig' = [mig EXCEPT ![p] = [version |-> 1, next |-> 0]]
          /\ cli' = [cli EXCEPT ![o].pc = IF cli[o].cmd = "foreground" THEN "attached"
                                          ELSE "wait_ready",
                                ![o].pid = p]
    /\ MayHurry(cli[o].cmd = "restart" => \A p \in Procs : Settled(p))
    /\ UNCHANGED <<tables, files, failed, crashes>>

\* The child answers on the socket with its own pid; or the wait expires,
\* whatever the child is doing by then.
WaitReady(o) ==
    /\ Is(o, "wait_ready")
    /\ Return(o)
    /\ UNCHANGED <<tables, files, stage, mig, failed, notes>>

AfterExit(o) == IF cli[o].cmd = "restart" THEN Do(o, "spawn") ELSE Return(o)

\* The socket is dead and so is the process of the pid file, the pid file
\* does not parse, or the wait expires: five seconds, which is what the drain
\* may take.  All but the first are errors for stop and ignored by restart.
WaitExit(o) ==
    /\ Is(o, "wait_exit")
    /\ AfterExit(o)
    /\ UNCHANGED <<tables, files, stage, mig, failed, notes>>

-----------------------------------------------------------------------------
ProcStep(p) ==
    \/ IsMigrationApplied(p) \/ ExecuteStatement(p) \/ RecordVersion(p) \/ Opened(p)
    \/ Inspect(p) \/ Probe(p) \/ UnlinkStale(p) \/ Bind(p)
    \/ TruncatePid(p) \/ WritePid(p)
    \/ Drained(p) \/ UnlinkSocket(p) \/ UnlinkPid(p)

CliStep(o) ==
    \/ Connect(o) \/ Recover(o) \/ ReadPid(o) \/ Signal(o) \/ RemovePid(o) \/ RemoveSocket(o)
    \/ Spawn(o) \/ WaitReady(o) \/ WaitExit(o) \/ Detach(o)

Next ==
    \/ \E p \in Procs : ProcStep(p) \/ Crash(p)
    \/ \E o \in Operators : CliStep(o)
    \/ \E o \in Operators, cmd \in Commands : Begin(o, cmd)
    \/ \E o \in Operators : Interrupt(o)

Spec == Init /\ [][Next]_vars

(* Fairness.  The operating system runs every process, the drain has a     *)
(* deadline (Server!ShutdownStops), whoever runs a daemon in the           *)
(* foreground ends it some time, and cm keeps being used.                  *)
FairSpec ==
    /\ Spec
    /\ \A p \in Procs : WF_vars(ProcStep(p))
    /\ \A o \in Operators :
          WF_vars(CliStep(o)) /\ WF_vars(Interrupt(o)) /\ SF_vars(Begin(o, "start"))

-----------------------------------------------------------------------------
(* Properties.                                                             *)

(* A daemon that gets past Store::open has a database in which every       *)
(* statement of every migration was executed and recorded, however many    *)
(* daemons migrate at the same time and wherever they are killed (pool.rs  *)
(* 85-125): a half-applied migration blocks the start, it never serves.    *)
SchemaComplete ==
    \A p \in Procs : stage[p] \notin {"none", "migrate"} =>
        applied = 1..Versions /\ \A v \in 1..Versions : schema[v] = Statements

(* The files lead to the daemon that listens and name the daemon that      *)
(* serves, after any sequence of kills, Ctrl-Cs, refused starts, stops and *)
(* restarts, as long as there was no haste: each command, Ctrl-C and start *)
(* of a daemon found all others up or gone and no other command on its way *)
(* (server.rs 199-214, 250-253, cli/main.rs 1166-1260).  A restart whose   *)
(* wait of 5 s expired during the drain of 5 s is haste; second_daemon     *)
(* shows what haste can do.                                                *)
FilesOwned ==
    haste = 0 => \A p \in Procs :
        /\ Listening(p) => sock = p
        /\ stage[p] = "serving" => pidfile = p

(* ARCHITECTURE.md 122: "The daemon ... refuses to bind over a reachable   *)
(* socket. A second daemon cannot delete the live socket out from under    *)
(* the first."  Whether a daemon removes a file it found stale or cleans   *)
(* up behind itself, the socket of another daemon that is listening is not *)
(* touched.                                                                *)
SecondDaemonHarmless ==
    [][\A p, q \in Procs :
          /\ p # q /\ sock = p /\ Listening(p) /\ Listening(p)'
          /\ stage[q] \in {"unlink_stale", "unlink_socket"} /\ stage'[q] # stage[q]
          => sock' = p]_vars

(* What a kill can leave behind that no start gets over: a pid file cut    *)
(* off before it was written (server.rs 600), which read_pid_file reports  *)
(* as an error, and a half-applied migration.                              *)
Stuck ==
    \/ pidfile = Empty /\ \A p \in Procs : stage[p] # "write_pid"
    \/ /\ \E v \in (1..Versions) \ applied : schema[v] > 0
       /\ \A p \in Procs : stage[p] # "migrate"

(* Using cm brings a daemon back, whatever one left behind when it was     *)
(* killed (socket, pid file, both, a pid that is in use again), and after  *)
(* daemons removed each other's files, unless it is Stuck: ARCHITECTURE.md *)
(* 117 and 130 promise it without the exception.                           *)
Recovers == []<>(Reachable \/ Stuck)

(* ARCHITECTURE.md 132 and SECURITY.md 74: "a half-applied migration       *)
(* replays cleanly": no start fails because of an earlier one.             *)
MigrationsReplay == failed = {}
=============================================================================
