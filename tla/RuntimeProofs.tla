--------------------------- MODULE RuntimeProofs ---------------------------
(***************************************************************************)
(* Proofs about Runtime, for any number of processes, operators,           *)
(* migrations and kills.                                                   *)
(*                                                                         *)
(* First, a daemon that is past Store::open has a complete schema, whoever *)
(* migrates concurrently and wherever daemons are killed.  Second, without *)
(* haste (every command, Ctrl-C and start of a daemon finds the others up  *)
(* or gone) the socket and the pid file are those of the daemon that       *)
(* serves.  The run second_daemon shows that one hasty step is enough to   *)
(* lose them.                                                              *)
(***************************************************************************)
EXTENDS Runtime, TLAPS

-----------------------------------------------------------------------------
(* Migrations.                                                             *)

(* Migrations are recorded in order, and a process that is past the first  *)
(* statements of one has seen them executed.                               *)
Migrated(m, s) ==
    /\ 1..(m.version - 1) \subseteq applied
    /\ m.next # 0 => m.version <= Versions /\ m.next <= schema[m.version] + 1
    /\ s \notin {"none", "migrate"} => m.version = Versions + 1

(* A version is recorded once all its statements have been executed.       *)
Recorded == \A v \in applied : schema[v] = Statements

MInv ==
    /\ TypeOK
    /\ \A p \in Procs : Migrated(mig[p], stage[p])
    /\ Recorded

(* A step that neither migrates nor moves a process past Store::open.      *)
LEMMA NoMigration ==
  ASSUME MInv, TypeOK', UNCHANGED <<schema, applied>>,
         \A p \in Procs : mig'[p] = mig[p] \/ mig'[p] = [version |-> 1, next |-> 0],
         \A p \in Procs : stage'[p] \notin {"none", "migrate"} =>
                             stage[p] \notin {"none", "migrate"} /\ mig'[p] = mig[p]
  PROVE  MInv'
  <1>1. ASSUME NEW p \in Procs PROVE Migrated(mig[p], stage[p])'
    <2>1. Migrated(mig[p], stage[p])
      BY DEF MInv
    <2>2. CASE mig'[p] = mig[p]
      BY <2>1, <2>2 DEF Migrated
    <2>3. CASE mig'[p] = [version |-> 1, next |-> 0] /\ mig'[p] # mig[p]
      <3>1. mig'[p].version = 1 /\ mig'[p].next = 0 /\ stage'[p] \in {"none", "migrate"}
        BY <2>3
      <3>2. 1..(mig'[p].version - 1) = {}
        BY <3>1
      <3> QED BY <3>1, <3>2 DEF Migrated
    <2> QED BY <2>2, <2>3
  <1> QED BY <1>1 DEF MInv, Recorded

(* Every step keeps the types.                                             *)
LEMMA TypesKept ==
  ASSUME MInv, Next
  PROVE  TypeOK'
  <1> USE RuntimeAssumption
  <1>0. /\ TypeOK
        /\ stage \in [Procs -> Stages]
        /\ mig \in [Procs -> [version : 1..(Versions + 1), next : 0..(Statements + 1)]]
    BY DEF MInv, TypeOK
  <1>1. ASSUME NEW p \in Procs, IsMigrationApplied(p) PROVE TypeOK'
    <2>1. mig[p].version + 1 \in 1..(Versions + 1) /\ 1 \in 0..(Statements + 1)
          /\ mig[p].version \in 1..(Versions + 1) /\ 0 \in 0..(Statements + 1)
      BY <1>0, <1>1 DEF IsMigrationApplied
    <2>2. mig' \in [Procs -> [version : 1..(Versions + 1), next : 0..(Statements + 1)]]
      BY <1>0, <1>1, <2>1 DEF IsMigrationApplied
    <2> QED BY <1>0, <1>1, <2>2 DEF IsMigrationApplied, TypeOK, tables, files, notes
  <1>2. ASSUME NEW p \in Procs, ExecuteStatement(p) PROVE TypeOK'
    <2> DEFINE v == mig[p].version
               n == mig[p].next
    <2>0. v \in 1..(Versions + 1) /\ n \in 1..Statements
          /\ schema \in [1..Versions -> 0..Statements] /\ failed \subseteq Procs
      BY <1>0, <1>2 DEF ExecuteStatement, TypeOK
    <2>1. n + 1 \in 0..(Statements + 1) /\ n \in 0..Statements
      BY <2>0
    <2>2. UNCHANGED <<applied, sock, pidfile, cli, haste, crashes>>
      BY <1>2 DEF ExecuteStatement, files, notes
    <2> HIDE DEF v, n
    <2>3. CASE /\ schema' = [schema EXCEPT ![v] = n] /\ UNCHANGED <<stage, failed>>
               /\ mig' = [mig EXCEPT ![p] = [version |-> v, next |-> n + 1]]
      <3>1. schema' \in [1..Versions -> 0..Statements]
        BY <2>0, <2>1, <2>3
      <3>2. mig' \in [Procs -> [version : 1..(Versions + 1), next : 0..(Statements + 1)]]
        BY <1>0, <2>0, <2>1, <2>3
      <3> QED BY <1>0, <2>2, <2>3, <3>1, <3>2 DEF TypeOK
    <2>4. CASE GiveUp(p) /\ UNCHANGED <<schema, mig>>
      <3>1. stage' \in [Procs -> Stages] /\ failed' \subseteq Procs
        BY <1>0, <2>0, <2>4 DEF GiveUp, Goto, Stages, Starting, Leaving
      <3> QED BY <1>0, <2>2, <2>4, <3>1 DEF TypeOK
    <2> QED BY <1>2, <2>3, <2>4 DEF ExecuteStatement, v, n
  <1>3. ASSUME NEW p \in Procs, RecordVersion(p) PROVE TypeOK'
    <2> DEFINE v == mig[p].version
    <2>0. v \in 1..Versions /\ applied \subseteq 1..Versions /\ failed \subseteq Procs
      BY <1>0, <1>3 DEF RecordVersion, TypeOK, MInv, Migrated
    <2>1. v + 1 \in 1..(Versions + 1) /\ 0 \in 0..(Statements + 1)
      BY <2>0
    <2>2. UNCHANGED <<schema, sock, pidfile, cli, haste, crashes>>
      BY <1>3 DEF RecordVersion, files, notes
    <2> HIDE DEF v
    <2>3. CASE /\ applied' = applied \cup {v} /\ UNCHANGED <<stage, failed>>
               /\ mig' = [mig EXCEPT ![p] = [version |-> v + 1, next |-> 0]]
      <3>1. applied' \subseteq 1..Versions
        BY <2>0, <2>3
      <3>2. mig' \in [Procs -> [version : 1..(Versions + 1), next : 0..(Statements + 1)]]
        BY <1>0, <2>1, <2>3
      <3> QED BY <1>0, <2>2, <2>3, <3>1, <3>2 DEF TypeOK
    <2>4. CASE GiveUp(p) /\ UNCHANGED <<applied, mig>>
      <3>1. stage' \in [Procs -> Stages] /\ failed' \subseteq Procs
        BY <1>0, <2>0, <2>4 DEF GiveUp, Goto, Stages, Starting, Leaving
      <3> QED BY <1>0, <2>2, <2>4, <3>1 DEF TypeOK
    <2> QED BY <1>3, <2>3, <2>4 DEF RecordVersion, v
  <1>4. ASSUME NEW p \in Procs,
               Opened(p) \/ Inspect(p) \/ Probe(p) \/ UnlinkStale(p) \/ Bind(p)
               \/ TruncatePid(p) \/ WritePid(p) \/ Drained(p) \/ UnlinkSocket(p) \/ UnlinkPid(p)
        PROVE  TypeOK'
    <2>1. \E s \in Stages : stage' = [stage EXCEPT ![p] = s]
      BY <1>4 DEF Opened, Inspect, Probe, UnlinkStale, Bind, TruncatePid, WritePid, Drained,
                  UnlinkSocket, UnlinkPid, Goto, Stages, Starting, Leaving
    <2>2. UNCHANGED <<schema, applied, mig, failed, cli, haste, crashes>>
      BY <1>4 DEF Opened, Inspect, Probe, UnlinkStale, Bind, TruncatePid, WritePid, Drained,
                  UnlinkSocket, UnlinkPid, tables, notes
    <2>3. sock' \in {sock, None, p} /\ pidfile' \in {pidfile, None, Empty, p}
      BY <1>4 DEF Opened, Inspect, Probe, UnlinkStale, Bind, TruncatePid, WritePid, Drained,
                  UnlinkSocket, UnlinkPid, files
    <2> QED BY <1>0, <2>1, <2>2, <2>3 DEF TypeOK
  <1>5. ASSUME NEW p \in Procs, Crash(p) PROVE TypeOK'
    <2>1. stage' = [stage EXCEPT ![p] = "none"] /\ "none" \in Stages
          /\ UNCHANGED <<schema, applied, sock, pidfile, mig, failed, cli, haste>>
      BY <1>5 DEF Crash, Killed, Goto, Stages, Starting, Leaving, tables, files
    <2>2. crashes' \in 0..MaxCrashes
      BY <1>0, <1>5 DEF Crash, Killed, TypeOK
    <2> QED BY <1>0, <2>1, <2>2 DEF TypeOK
  <1> DEFINE Pc == {"idle", "connect", "recover", "read_pid", "signal", "remove_pid",
                    "remove_socket", "spawn", "wait_ready", "wait_exit", "attached"}
             Cli == [pc : Pc, cmd : AllCommands, pid : Procs \cup {None}]
  <1>6. cli \in [Operators -> Cli] /\ AtPrompt \in Cli
    BY <1>0 DEF TypeOK, AtPrompt, AllCommands
  <1>7. ASSUME NEW o \in Operators, NEW s \in Pc, Do(o, s) PROVE cli' \in [Operators -> Cli]
    BY <1>6, <1>7 DEF Do
  <1>8. ASSUME NEW o \in Operators, Return(o) PROVE cli' \in [Operators -> Cli]
    BY <1>6, <1>8 DEF Return
  <1>9. ASSUME cli' \in [Operators -> Cli], stage' \in [Procs -> Stages],
               sock' \in {sock, None}, pidfile' \in {pidfile, None},
               UNCHANGED <<schema, applied, failed>>,
               haste' \in 0..MaxHaste, crashes' \in 0..MaxCrashes,
               mig' \in [Procs -> [version : 1..(Versions + 1), next : 0..(Statements + 1)]]
        PROVE  TypeOK'
    BY <1>0, <1>9 DEF TypeOK
  <1>17. haste \in 0..MaxHaste /\ crashes \in 0..MaxCrashes /\ MaxHaste \in Nat
    BY <1>0 DEF TypeOK
  <1>18. ASSUME NEW calm, MayHurry(calm) PROVE haste' \in 0..MaxHaste
    BY <1>17, <1>18 DEF MayHurry
  <1>10. ASSUME NEW o \in Operators, Connect(o) PROVE TypeOK'
    <2>1. cli' \in [Operators -> Cli]
      BY <1>7, <1>8, <1>10 DEF Connect
    <2>2. stage' \in [Procs -> Stages]
      BY <1>0, <1>10 DEF Connect, Goto, Stages, Starting, Leaving
    <2> HIDE DEF Cli
    <2> QED BY <1>0, <1>9, <1>17, <1>10, <2>1, <2>2 DEF Connect, tables, files, notes
  <1>11. ASSUME NEW o \in Operators, Recover(o) \/ WaitReady(o) \/ WaitExit(o) \/ Detach(o)
         PROVE  TypeOK'
    <2>1. cli' \in [Operators -> Cli]
      BY <1>7, <1>8, <1>11 DEF Recover, WaitReady, WaitExit, Detach, AfterExit
    <2> HIDE DEF Cli
    <2> QED BY <1>0, <1>9, <1>17, <1>11, <2>1 DEF Recover, WaitReady, WaitExit, Detach, tables, files, notes
  <1>12. ASSUME NEW o \in Operators, ReadPid(o) PROVE TypeOK'
    <2>1. cli' \in [Operators -> Cli]
      <3>1. CASE pidfile \in Procs /\ cli' = [cli EXCEPT ![o].pc = "signal", ![o].pid = pidfile]
        BY <1>6, <3>1
      <3> QED BY <1>7, <1>8, <1>12, <3>1 DEF ReadPid
    <2> HIDE DEF Cli
    <2> QED BY <1>0, <1>9, <1>17, <1>12, <2>1 DEF ReadPid, tables, files, notes
  <1>13. ASSUME NEW o \in Operators, Signal(o) \/ RemovePid(o) \/ RemoveSocket(o) PROVE TypeOK'
    <2>1. cli' \in [Operators -> Cli]
      BY <1>7, <1>13 DEF Signal, RemovePid, RemoveSocket
    <2>2. stage' \in [Procs -> Stages]
      BY <1>0, <1>13 DEF Signal, RemovePid, RemoveSocket, Goto, Stages, Starting, Leaving
    <2> HIDE DEF Cli
    <2> QED BY <1>0, <1>9, <1>17, <1>13, <2>1, <2>2 DEF Signal, RemovePid, RemoveSocket, tables, files, notes
  <1>14. ASSUME NEW o \in Operators, Spawn(o) PROVE TypeOK'
    <2>1. PICK p \in Procs :
            /\ Goto(p, "migrate")
            /\ mig' = [mig EXCEPT ![p] = [version |-> 1, next |-> 0]]
            /\ cli' = [cli EXCEPT ![o].pc = IF cli[o].cmd = "foreground" THEN "attached"
                                            ELSE "wait_ready",
                                  ![o].pid = p]
      BY <1>14 DEF Spawn
    <2> DEFINE s == IF cli[o].cmd = "foreground" THEN "attached" ELSE "wait_ready"
    <2>2. s \in Pc /\ cli' = [cli EXCEPT ![o].pc = s, ![o].pid = p]
      BY <2>1
    <2>3. cli' \in [Operators -> Cli]
      <3> HIDE DEF s
      <3> QED BY <1>6, <2>2
    <2>4. stage' \in [Procs -> Stages]
      BY <1>0, <2>1 DEF Goto, Stages, Starting, Leaving
    <2>5. mig' \in [Procs -> [version : 1..(Versions + 1), next : 0..(Statements + 1)]]
      BY <1>0, <2>1
    <2> HIDE DEF Cli
    <2>6. haste' \in 0..MaxHaste
      BY <1>14, <1>18 DEF Spawn
    <2> QED BY <1>0, <1>9, <1>14, <1>17, <2>3, <2>4, <2>5, <2>6 DEF Spawn, tables, files
  <1>15. ASSUME NEW o \in Operators, NEW cmd \in Commands, Begin(o, cmd) PROVE TypeOK'
    <2>1. cli' \in [Operators -> Cli]
      BY <1>6, <1>15 DEF Begin
    <2> HIDE DEF Cli
    <2>2. haste' \in 0..MaxHaste
      BY <1>15, <1>18 DEF Begin
    <2> QED BY <1>0, <1>9, <1>15, <1>17, <2>1, <2>2 DEF Begin, tables, files
  <1>16. ASSUME NEW o \in Operators, Interrupt(o) PROVE TypeOK'
    <2>1. stage' \in [Procs -> Stages]
      BY <1>0, <1>16 DEF Interrupt, Killed, Goto, Stages, Starting, Leaving
    <2>2. cli' \in [Operators -> Cli]
      BY <1>8, <1>16 DEF Interrupt
    <2>3. haste' \in 0..MaxHaste
      BY <1>16, <1>18 DEF Interrupt
    <2>4. crashes' \in 0..MaxCrashes
      BY <1>16, <1>17 DEF Interrupt, Killed
    <2> HIDE DEF Cli
    <2> QED BY <1>0, <1>9, <1>16, <2>1, <2>2, <2>3, <2>4 DEF Interrupt, tables, files
  <1> QED BY <1>1, <1>2, <1>3, <1>4, <1>5, <1>10, <1>11, <1>12, <1>13, <1>14, <1>15, <1>16
          DEF Next, ProcStep, CliStep

(* A process goes on to another migration or statement.                    *)
LEMMA MigrationStep ==
  ASSUME MInv, TypeOK', NEW p \in Procs,
         IsMigrationApplied(p) \/ ExecuteStatement(p) \/ RecordVersion(p) \/ Opened(p)
  PROVE  MInv'
  <1> DEFINE v == mig[p].version
             n == mig[p].next
  <1>0. /\ v \in 1..(Versions + 1) /\ n \in 0..(Statements + 1)
        /\ schema \in [1..Versions -> 0..Statements] /\ applied \subseteq 1..Versions
        /\ mig \in [Procs -> [version : 1..(Versions + 1), next : 0..(Statements + 1)]]
        /\ stage \in [Procs -> Stages]
        /\ Versions \in Nat /\ Statements \in Nat
    BY RuntimeAssumption DEF MInv, TypeOK
  <1>1. /\ 1..(v - 1) \subseteq applied
        /\ n # 0 => v <= Versions /\ n <= schema[v] + 1
    BY DEF MInv, Migrated
  <1>2. \A q \in Procs : Migrated(mig[q], stage[q])
    BY DEF MInv
  <1>3. CASE IsMigrationApplied(p)
    <2>1. /\ mig' = [mig EXCEPT ![p] = IF v \in applied THEN [version |-> v + 1, next |-> 0]
                                       ELSE [version |-> v, next |-> 1]]
          /\ UNCHANGED <<schema, applied, stage>> /\ v <= Versions /\ stage[p] = "migrate"
      BY <1>3 DEF IsMigrationApplied, tables, At
    <2>2. ASSUME NEW q \in Procs PROVE Migrated(mig[q], stage[q])'
      <3>1. CASE q # p
        <4>1. mig'[q] = mig[q] /\ stage'[q] = stage[q]
          BY <1>0, <2>1, <3>1
        <4> QED BY <1>2, <2>1, <4>1 DEF Migrated
      <3>2. CASE q = p /\ v \in applied
        <4>1. mig'[q].version = v + 1 /\ mig'[q].next = 0 /\ stage'[q] = "migrate"
          BY <1>0, <2>1, <3>2
        <4>2. 1..((v + 1) - 1) \subseteq applied
          BY <1>0, <1>1, <3>2
        <4> QED BY <2>1, <4>1, <4>2 DEF Migrated
      <3>3. CASE q = p /\ v \notin applied
        <4>1. mig'[q].version = v /\ mig'[q].next = 1 /\ stage'[q] = "migrate"
          BY <1>0, <2>1, <3>3
        <4>2. 1 <= schema[v] + 1
          BY <1>0, <2>1
        <4> HIDE DEF v
        <4> QED BY <1>1, <2>1, <4>1, <4>2 DEF Migrated
      <3> QED BY <3>1, <3>2, <3>3
    <2>3. Recorded'
      BY <2>1 DEF MInv, Recorded
    <2> QED BY <2>2, <2>3 DEF MInv
  <1>4. CASE ExecuteStatement(p) /\ schema[v] < n
    <2>1. /\ schema' = [schema EXCEPT ![v] = n] /\ n \in 1..Statements
          /\ mig' = [mig EXCEPT ![p] = [version |-> v, next |-> n + 1]]
          /\ UNCHANGED <<applied, stage>> /\ stage[p] = "migrate" /\ v \in 1..Versions
      <3>1. n \in 1..Statements /\ stage[p] = "migrate" /\ UNCHANGED applied
        BY <1>4 DEF ExecuteStatement, At
      <3>2. v \in 1..Versions /\ schema[v] \in 0..Statements
        BY <1>0, <1>1, <3>1
      <3>3. ~(schema[v] >= n)
        BY <1>0, <1>4, <3>1, <3>2
      <3> QED BY <1>4, <3>1, <3>2, <3>3 DEF ExecuteStatement
    <2> HIDE DEF v, n
    <2>2. schema'[v] = n /\ \A u \in 1..Versions : u # v => schema'[u] = schema[u]
      BY <1>0, <2>1
    <2>3. \A u \in 1..Versions : schema[u] <= schema'[u]
      BY <1>0, <1>4, <2>1, <2>2
    <2>4. ASSUME NEW q \in Procs PROVE Migrated(mig[q], stage[q])'
      <3>1. CASE q # p
        <4>1. mig'[q] = mig[q] /\ stage'[q] = stage[q]
          BY <1>0, <2>1, <3>1
        <4> DEFINE u == mig[q].version
                   k == mig[q].next
        <4>2. u \in 1..(Versions + 1) /\ k \in 0..(Statements + 1)
          BY <1>0
        <4>3. k # 0 => u <= Versions /\ k <= schema[u] + 1
          BY <1>2 DEF Migrated
        <4>4. k # 0 => u <= Versions /\ k <= schema'[u] + 1
          <5> HIDE DEF u, k
          <5> SUFFICES ASSUME k # 0 PROVE u <= Versions /\ k <= schema'[u] + 1
            OBVIOUS
          <5>1. u \in 1..Versions /\ k <= schema[u] + 1
            BY <4>2, <4>3
          <5>2. schema[u] <= schema'[u] /\ schema[u] \in Nat /\ schema'[u] \in Nat
            BY <1>0, <2>3, <5>1 DEF TypeOK
          <5> QED BY <4>2, <5>1, <5>2
        <4> QED BY <1>2, <2>1, <4>1, <4>4 DEF Migrated
      <3>2. CASE q = p
        <4>1. mig'[q].version = v /\ mig'[q].next = n + 1 /\ stage'[q] = "migrate"
          BY <1>0, <2>1, <3>2
        <4> QED BY <1>1, <2>1, <2>2, <4>1 DEF Migrated
      <3> QED BY <3>1, <3>2
    <2>5. Recorded'
      <3>1. v \notin applied
        BY <1>0, <1>4, <2>1 DEF MInv, Recorded
      <3> QED BY <1>0, <2>1, <2>2, <3>1 DEF MInv, Recorded
    <2> QED BY <2>4, <2>5 DEF MInv
  <1>5. CASE RecordVersion(p) /\ v \notin applied
    <2>1. /\ applied' = applied \cup {v} /\ mig' = [mig EXCEPT ![p] = [version |-> v + 1, next |-> 0]]
          /\ UNCHANGED <<schema, stage>> /\ stage[p] = "migrate" /\ n = Statements + 1
      BY <1>5 DEF RecordVersion, At
    <2>2. v \in 1..Versions /\ schema[v] = Statements
      <3>1. v \in 1..Versions /\ Statements + 1 <= schema[v] + 1
        BY <1>0, <1>1, <2>1
      <3>2. schema[v] \in 0..Statements
        BY <1>0, <3>1
      <3> QED BY <1>0, <3>1, <3>2
    <2> HIDE DEF v, n
    <2>3. ASSUME NEW q \in Procs PROVE Migrated(mig[q], stage[q])'
      <3>1. CASE q # p
        <4>1. mig'[q] = mig[q] /\ stage'[q] = stage[q]
          BY <1>0, <2>1, <3>1
        <4> QED BY <1>2, <2>1, <4>1 DEF Migrated
      <3>2. CASE q = p
        <4>1. mig'[q].version = v + 1 /\ mig'[q].next = 0 /\ stage'[q] = "migrate"
          BY <1>0, <2>1, <3>2
        <4>2. 1..((v + 1) - 1) \subseteq applied'
          BY <1>0, <1>1, <2>1
        <4> QED BY <4>1, <4>2 DEF Migrated
      <3> QED BY <3>1, <3>2
    <2>4. Recorded'
      BY <2>1, <2>2 DEF MInv, Recorded
    <2> QED BY <2>3, <2>4 DEF MInv
  <1>6. CASE GiveUp(p) /\ UNCHANGED <<schema, applied, mig>>
    <2>1. stage' = [stage EXCEPT ![p] = "none"]
      BY <1>6 DEF GiveUp, Goto
    <2>2. \A q \in Procs : stage'[q] \in {stage[q], "none"}
      BY <1>0, <2>1
    <2> QED BY <1>6, <2>2, NoMigration
  <1>7. CASE Opened(p)
    <2>1. /\ stage' = [stage EXCEPT ![p] = "inspect"] /\ UNCHANGED <<schema, applied, mig>>
          /\ v > Versions
      BY <1>7 DEF Opened, Goto, tables
    <2>2. ASSUME NEW q \in Procs PROVE Migrated(mig[q], stage[q])'
      <3>1. CASE q # p
        BY <1>0, <1>2, <2>1, <3>1 DEF Migrated
      <3>2. CASE q = p
        <4>1. mig'[q].version = Versions + 1
          BY <1>0, <2>1, <3>2
        <4> QED BY <1>2, <2>1, <4>1 DEF Migrated
      <3> QED BY <3>1, <3>2
    <2> QED BY <2>1, <2>2 DEF MInv, Recorded
  <1>8. ASSUME ExecuteStatement(p), ~(schema[v] < n) PROVE GiveUp(p) /\ UNCHANGED <<schema, applied, mig>>
    BY <1>8 DEF ExecuteStatement
  <1>9. ASSUME RecordVersion(p), v \in applied PROVE GiveUp(p) /\ UNCHANGED <<schema, applied, mig>>
    BY <1>9 DEF RecordVersion
  <1> QED BY <1>3, <1>4, <1>5, <1>6, <1>7, <1>8, <1>9

(* The invariant of the migrations.                                        *)
LEMMA MInvInit == Init => MInv
  <1> SUFFICES ASSUME Init PROVE MInv
    OBVIOUS
  <1> USE RuntimeAssumption
  <1>1. /\ schema = [v \in 1..Versions |-> 0] /\ applied = {} /\ sock = None /\ pidfile = None
        /\ stage = [p \in Procs |-> "none"] /\ mig = [p \in Procs |-> [version |-> 1, next |-> 0]]
        /\ failed = {} /\ cli = [o \in Operators |-> AtPrompt] /\ haste = 0 /\ crashes = 0
    BY DEF Init
  <1>2. TypeOK
    <2>1. schema \in [1..Versions -> 0..Statements] /\ crashes \in 0..MaxCrashes
      BY <1>1
    <2>2. mig \in [Procs -> [version : 1..(Versions + 1), next : 0..(Statements + 1)]]
      BY <1>1
    <2>3. stage \in [Procs -> Stages] /\ haste \in 0..MaxHaste
      BY <1>1 DEF Stages
    <2> QED BY <1>1, <2>1, <2>2, <2>3 DEF TypeOK, AtPrompt, AllCommands
  <1>3. ASSUME NEW p \in Procs PROVE Migrated(mig[p], stage[p])
    <2>1. mig[p].version = 1 /\ mig[p].next = 0 /\ stage[p] = "none" /\ 1..(1 - 1) = {}
      BY <1>1
    <2> QED BY <2>1 DEF Migrated
  <1> QED BY <1>1, <1>2, <1>3 DEF MInv, Recorded

LEMMA MInvStep == MInv /\ [Next]_vars => MInv'
  <1> SUFFICES ASSUME MInv, [Next]_vars PROVE MInv'
    OBVIOUS
  <1>1. CASE UNCHANGED vars
    BY <1>1 DEF vars, MInv, TypeOK, Recorded, Migrated
  <1>2. CASE Next
    <2>0. TypeOK' /\ stage \in [Procs -> Stages]
          /\ mig \in [Procs -> [version : 1..(Versions + 1), next : 0..(Statements + 1)]]
      BY <1>2, TypesKept DEF MInv, TypeOK
    <2>1. ASSUME NEW p \in Procs,
                 IsMigrationApplied(p) \/ ExecuteStatement(p) \/ RecordVersion(p) \/ Opened(p)
          PROVE  MInv'
      BY <2>0, <2>1, MigrationStep
    <2>2. ASSUME UNCHANGED <<schema, applied, mig>>,
                 \A p \in Procs : stage'[p] \in {stage[p], "none"} \/ stage[p] \notin {"none", "migrate"}
          PROVE  MInv'
      BY <2>0, <2>2, NoMigration
    <2>3. ASSUME NEW p \in Procs,
                 Inspect(p) \/ Probe(p) \/ UnlinkStale(p) \/ Bind(p)
                 \/ TruncatePid(p) \/ WritePid(p) \/ Drained(p) \/ UnlinkSocket(p)
                 \/ UnlinkPid(p) \/ Crash(p)
          PROVE  MInv'
      <3>1. stage[p] \notin {"none", "migrate"} \/ stage' = [stage EXCEPT ![p] = "none"]
        BY <2>3 DEF Inspect, Probe, UnlinkStale, Bind, TruncatePid, WritePid, Drained,
                    UnlinkSocket, UnlinkPid, Crash, Killed, Goto, At
      <3>2. (\E s : stage' = [stage EXCEPT ![p] = s]) /\ UNCHANGED <<schema, applied, mig>>
        BY <2>3 DEF Inspect, Probe, UnlinkStale, Bind, TruncatePid, WritePid, Drained,
                    UnlinkSocket, UnlinkPid, Crash, Killed, Goto, At, tables
      <3>3. \A q \in Procs : stage'[q] \in {stage[q], "none"} \/ stage[q] \notin {"none", "migrate"}
        BY <2>0, <3>1, <3>2
      <3> QED BY <2>2, <3>2, <3>3
    <2>4. ASSUME NEW o \in Operators, Connect(o) \/ Signal(o) \/ Interrupt(o) PROVE MInv'
      <3>1. UNCHANGED <<schema, applied, mig>>
        BY <2>4 DEF Connect, Signal, Interrupt, tables
      <3>2. \/ UNCHANGED stage
            \/ \E p : stage' = [stage EXCEPT ![p] = "none"]
            \/ \E p : stage[p] = "serving" /\ stage' = [stage EXCEPT ![p] = "draining"]
        BY <2>4 DEF Connect, Signal, Interrupt, Killed, Goto, At
      <3>3. \A q \in Procs : stage'[q] \in {stage[q], "none"} \/ stage[q] \notin {"none", "migrate"}
        BY <2>0, <3>2
      <3> QED BY <2>2, <3>1, <3>3
    <2>5. ASSUME NEW o \in Operators,
                 \/ Recover(o) \/ ReadPid(o) \/ RemovePid(o) \/ RemoveSocket(o)
                 \/ WaitReady(o) \/ WaitExit(o) \/ Detach(o)
                 \/ \E cmd \in Commands : Begin(o, cmd)
          PROVE  MInv'
      <3>1. UNCHANGED <<schema, applied, mig, stage>>
        BY <2>5 DEF Recover, ReadPid, RemovePid, RemoveSocket, WaitReady, WaitExit, Detach, Begin,
                    tables
      <3> QED BY <2>2, <3>1
    <2>6. ASSUME NEW o \in Operators, Spawn(o) PROVE MInv'
      <3>1. PICK p \in Procs : /\ stage' = [stage EXCEPT ![p] = "migrate"]
                               /\ mig' = [mig EXCEPT ![p] = [version |-> 1, next |-> 0]]
        BY <2>6 DEF Spawn, Goto
      <3>2. UNCHANGED <<schema, applied>>
        BY <2>6 DEF Spawn, tables
      <3>3. \A q \in Procs : mig'[q] = mig[q] \/ mig'[q] = [version |-> 1, next |-> 0]
        BY <2>0, <3>1
      <3>4. \A q \in Procs : stage'[q] \notin {"none", "migrate"} =>
                                stage[q] \notin {"none", "migrate"} /\ mig'[q] = mig[q]
        BY <2>0, <3>1
      <3> QED BY <2>0, <3>2, <3>3, <3>4, NoMigration
    <2> QED BY <1>2, <2>1, <2>3, <2>4, <2>5, <2>6 DEF Next, ProcStep, CliStep
  <1> QED BY <1>1, <1>2

LEMMA MInvHolds == Spec => []MInv
  BY MInvInit, MInvStep, PTL DEF Spec

(* Files, tables, processes and commands keep their types.                 *)
THEOREM RuntimeTypeCorrect == Spec => []TypeOK
  <1>1. MInv => TypeOK
    BY DEF MInv
  <1> QED BY <1>1, MInvHolds, PTL

(* No daemon gets past Store::open with a database that lacks a statement  *)
(* or the record of a migration.                                           *)
THEOREM SchemaHolds == Spec => []SchemaComplete
  <1>1. ASSUME MInv PROVE SchemaComplete
    <2> SUFFICES ASSUME NEW p \in Procs, stage[p] \notin {"none", "migrate"}
                 PROVE  applied = 1..Versions /\ \A v \in 1..Versions : schema[v] = Statements
      BY DEF SchemaComplete
    <2>1. mig[p].version = Versions + 1 /\ 1..(mig[p].version - 1) \subseteq applied
      BY <1>1 DEF MInv, Migrated
    <2>2. 1..Versions \subseteq applied /\ applied \subseteq 1..Versions
      <3>1. (Versions + 1) - 1 = Versions
        BY RuntimeAssumption
      <3> QED BY <1>1, <2>1, <3>1 DEF MInv, TypeOK
    <2> QED BY <1>1, <2>2 DEF MInv, Recorded
  <1> QED BY <1>1, MInvHolds, PTL

-----------------------------------------------------------------------------
(* Files.  Nothing but the CLI and the daemon's own clean-up removes them, *)
(* and without haste at most one command is on its way and at most one     *)
(* daemon is coming up or going away.                                      *)

(* What each command relies on: where a daemon can be while a command is   *)
(* at a point.                                                             *)
Allowed(c, p) ==
    /\ c.pc \in {"connect", "recover"} => Settled(p)
    /\ c.pc \in {"read_pid", "signal", "remove_pid", "remove_socket"} => stage[p] = "none"
    /\ c.pc = "wait_exit" => stage[p] \in {"none"} \cup Leaving
    /\ c.pc = "spawn" => Settled(p) \/ stage[p] \in Leaving
    /\ c.pc = "spawn" /\ c.cmd # "restart" => Settled(p)

(* A command that waits for a process or signals it knows its id.          *)
Aimed(c) == c.pc \in {"wait_ready", "attached", "signal"} => c.pid \in Procs

Busy(c) == c.pc \notin {"idle", "attached"}

(* A daemon that has found no other one listening, or that is going away,  *)
(* is the only one.                                                        *)
Alone(p, q) ==
    stage[p] \in {"unlink_stale", "bind", "truncate_pid", "write_pid"} \cup Leaving /\ q # p
        => stage[q] = "none"

(* The files belong to the daemon that made them until it removes them.    *)
Named(p) ==
    /\ stage[p] \in {"truncate_pid", "write_pid", "serving", "draining", "unlink_socket"} => sock = p
    /\ stage[p] \in {"serving"} \cup Leaving => pidfile = p

FInv ==
    /\ \A o, u \in Operators : Busy(cli[o]) /\ Busy(cli[u]) => o = u
    /\ \A o \in Operators : Aimed(cli[o]) /\ \A p \in Procs : Allowed(cli[o], p)
    /\ \A p, q \in Procs : p # q /\ ~Settled(p) => Settled(q)
    /\ \A p, q \in Procs : Alone(p, q)
    /\ \A p \in Procs : Named(p)

(* A daemon takes a step of its own.                                       *)
LEMMA OwnStep ==
  ASSUME TypeOK, FInv, NEW p \in Procs, ProcStep(p) \/ Crash(p)
  PROVE  FInv'
  <1> USE DEF Settled
  <1>0. /\ stage \in [Procs -> Stages] /\ None \notin Procs
        /\ stage[p] \in {"migrate", "inspect", "probe"} =>
              \A q \in Procs : q # p => stage[q] \in {"none", "serving"}
    BY RuntimeAssumption DEF TypeOK, FInv
  <1>1. ASSUME UNCHANGED <<stage, sock, pidfile, cli>> PROVE FInv'
    BY <1>1 DEF FInv, Busy, Aimed, Allowed, Alone, Named
  <1>2. ASSUME NEW s, stage' = [stage EXCEPT ![p] = s], UNCHANGED cli
        PROVE  stage'[p] = s /\ \A q \in Procs : q # p => stage'[q] = stage[q]
    BY <1>0, <1>2
  <1>3. ASSUME stage' = [stage EXCEPT ![p] = "none"], UNCHANGED <<sock, pidfile, cli>> PROVE FInv'
    <2>1. stage'[p] = "none" /\ \A q \in Procs : q # p => stage'[q] = stage[q]
      BY <1>2, <1>3
    <2> QED BY <1>3, <2>1 DEF FInv, Busy, Aimed, Allowed, Alone, Named, Leaving
  <1>4. CASE IsMigrationApplied(p)
    BY <1>1, <1>4 DEF IsMigrationApplied, files
  <1>5. CASE ExecuteStatement(p) \/ RecordVersion(p)
    BY <1>1, <1>3, <1>5 DEF ExecuteStatement, RecordVersion, GiveUp, Goto, files
  <1>6. CASE Crash(p)
    BY <1>3, <1>6 DEF Crash, Killed, Goto, files
  <1>7. CASE Opened(p)
    <2>1. stage[p] = "migrate" /\ UNCHANGED <<sock, pidfile, cli>>
      BY <1>7 DEF Opened, At, files
    <2>2. stage'[p] = "inspect" /\ \A q \in Procs : q # p => stage'[q] = stage[q]
      BY <1>2, <1>7 DEF Opened, Goto
    <2> QED BY <2>1, <2>2 DEF FInv, Busy, Aimed, Allowed, Alone, Named, Leaving
  <1>8. CASE Inspect(p)
    <2>1. stage[p] = "inspect" /\ UNCHANGED <<sock, pidfile, cli>>
      BY <1>8 DEF Inspect, At, files
    <2>2. CASE sock # None
      <3>1. stage'[p] = "probe" /\ \A q \in Procs : q # p => stage'[q] = stage[q]
        BY <1>2, <1>8, <2>2 DEF Inspect, Goto
      <3> QED BY <2>1, <3>1 DEF FInv, Busy, Aimed, Allowed, Alone, Named, Leaving
    <2>3. CASE sock = None
      <3>1. stage'[p] = "bind" /\ \A q \in Procs : q # p => stage'[q] = stage[q]
        BY <1>2, <1>8, <2>3 DEF Inspect, Goto
      <3>2. \A q \in Procs : q # p => stage[q] = "none"
        BY <1>0, <2>1, <2>3 DEF FInv, Named
      <3> QED BY <2>1, <3>1, <3>2 DEF FInv, Busy, Aimed, Allowed, Alone, Named, Leaving
    <2> QED BY <2>2, <2>3
  <1>9. CASE Probe(p)
    <2>1. stage[p] = "probe" /\ UNCHANGED <<sock, pidfile, cli>>
      BY <1>9 DEF Probe, At, files
    <2>2. CASE Reachable
      BY <1>3, <1>9, <2>1, <2>2 DEF Probe, Goto
    <2>3. CASE ~Reachable
      <3>1. stage'[p] = "unlink_stale" /\ \A q \in Procs : q # p => stage'[q] = stage[q]
        BY <1>2, <1>9, <2>3 DEF Probe, Goto
      <3>2. \A q \in Procs : q # p => stage[q] = "none"
        BY <1>0, <2>1, <2>3 DEF FInv, Named, Reachable, Listening
      <3> QED BY <2>1, <3>1, <3>2 DEF FInv, Busy, Aimed, Allowed, Alone, Named, Leaving
    <2> QED BY <2>2, <2>3
  <1>10. ASSUME stage[p] \in {"unlink_stale", "bind", "truncate_pid", "write_pid"} \cup Leaving,
                NEW s, stage' = [stage EXCEPT ![p] = s], UNCHANGED cli
         PROVE  /\ stage'[p] = s
                /\ \A q \in Procs : q # p => stage'[q] = "none" /\ stage[q] = "none"
    BY <1>2, <1>10 DEF FInv, Alone
  <1>11. CASE UnlinkStale(p)
    <2>1. stage[p] = "unlink_stale" /\ UNCHANGED <<pidfile, cli>>
      BY <1>11 DEF UnlinkStale, At
    <2>2. PICK s \in {"none", "bind"} : stage' = [stage EXCEPT ![p] = s]
      BY <1>11 DEF UnlinkStale, Goto
    <2>3. stage'[p] = s /\ \A q \in Procs : q # p => stage'[q] = "none" /\ stage[q] = "none"
      BY <1>10, <2>1, <2>2
    <2> QED BY <2>1, <2>2, <2>3 DEF FInv, Busy, Aimed, Allowed, Alone, Named, Leaving
  <1>12. CASE Bind(p)
    <2>1. stage[p] = "bind" /\ UNCHANGED <<pidfile, cli>>
      BY <1>12 DEF Bind, At
    <2>2. CASE sock = None
      <3>1. sock' = p /\ stage' = [stage EXCEPT ![p] = "truncate_pid"]
        BY <1>12, <2>2 DEF Bind, Goto
      <3>2. /\ stage'[p] = "truncate_pid"
            /\ \A q \in Procs : q # p => stage'[q] = "none" /\ stage[q] = "none"
        BY <1>10, <2>1, <3>1
      <3> QED BY <2>1, <3>1, <3>2 DEF FInv, Busy, Aimed, Allowed, Alone, Named, Leaving
    <2>3. CASE sock # None
      BY <1>3, <1>12, <2>1, <2>3 DEF Bind, Goto
    <2> QED BY <2>2, <2>3
  <1>13. CASE TruncatePid(p)
    <2>1. stage[p] = "truncate_pid" /\ UNCHANGED <<sock, cli>>
      BY <1>13 DEF TruncatePid, At
    <2>2. /\ stage'[p] = "write_pid"
          /\ \A q \in Procs : q # p => stage'[q] = "none" /\ stage[q] = "none"
      BY <1>10, <1>13, <2>1 DEF TruncatePid, Goto
    <2> QED BY <2>1, <2>2 DEF FInv, Busy, Aimed, Allowed, Alone, Named, Leaving
  <1>14. CASE WritePid(p)
    <2>1. stage[p] = "write_pid" /\ pidfile' = p /\ UNCHANGED <<sock, cli>>
      BY <1>14 DEF WritePid, At
    <2>2. /\ stage'[p] = "serving"
          /\ \A q \in Procs : q # p => stage'[q] = "none" /\ stage[q] = "none"
      BY <1>10, <1>14, <2>1 DEF WritePid, Goto
    <2> QED BY <2>1, <2>2 DEF FInv, Busy, Aimed, Allowed, Alone, Named, Leaving
  <1>15. CASE Drained(p)
    <2>1. stage[p] = "draining" /\ UNCHANGED <<sock, pidfile, cli>>
      BY <1>15 DEF Drained, At, files
    <2>2. /\ stage'[p] = "unlink_socket"
          /\ \A q \in Procs : q # p => stage'[q] = "none" /\ stage[q] = "none"
      BY <1>10, <1>15, <2>1 DEF Drained, Goto, Leaving
    <2> QED BY <2>1, <2>2 DEF FInv, Busy, Aimed, Allowed, Alone, Named, Leaving
  <1>16. CASE UnlinkSocket(p)
    <2>1. stage[p] = "unlink_socket" /\ UNCHANGED <<pidfile, cli>>
      BY <1>16 DEF UnlinkSocket, At
    <2>2. /\ stage'[p] = "unlink_pid"
          /\ \A q \in Procs : q # p => stage'[q] = "none" /\ stage[q] = "none"
      BY <1>10, <1>16, <2>1 DEF UnlinkSocket, Goto, Leaving
    <2> QED BY <2>1, <2>2 DEF FInv, Busy, Aimed, Allowed, Alone, Named, Leaving
  <1>17. CASE UnlinkPid(p)
    <2>1. stage[p] = "unlink_pid" /\ UNCHANGED <<sock, cli>>
      BY <1>17 DEF UnlinkPid, At
    <2>2. /\ stage'[p] = "none"
          /\ \A q \in Procs : q # p => stage'[q] = "none" /\ stage[q] = "none"
      BY <1>10, <1>17, <2>1 DEF UnlinkPid, Goto, Leaving
    <2> QED BY <2>1, <2>2 DEF FInv, Busy, Aimed, Allowed, Alone, Named, Leaving
  <1> QED BY <1>4, <1>5, <1>6, <1>7, <1>8, <1>9, <1>11, <1>12, <1>13, <1>14, <1>15, <1>16, <1>17
          DEF ProcStep

(* A command takes a step, none of them in haste.                          *)
LEMMA CommandStep ==
  ASSUME TypeOK, FInv, haste = 0, haste' = 0, NEW o \in Operators,
         CliStep(o) \/ Interrupt(o) \/ \E cmd \in Commands : Begin(o, cmd)
  PROVE  FInv'
  <1> USE DEF Settled
  <1> DEFINE c == cli[o]
             d == cli'[o]
             Rest == \A u \in Operators : u # o => cli'[u] = cli[u]
             OthersFree == \A u \in Operators : u # o => ~Busy(cli[u])
  <1>0. /\ None \notin Procs
        /\ stage \in [Procs -> Stages] /\ sock \in Procs \cup {None}
        /\ pidfile \in Procs \cup {None, Empty} /\ Empty \notin Procs \cup {None}
        /\ cli \in [Operators ->
                       [pc  : {"idle", "connect", "recover", "read_pid", "signal", "remove_pid",
                               "remove_socket", "spawn", "wait_ready", "wait_exit", "attached"},
                        cmd : AllCommands,
                        pid : Procs \cup {None}]]
    BY RuntimeAssumption DEF TypeOK
  <1>1. /\ Aimed(c) /\ \A p \in Procs : Allowed(c, p) /\ Named(p)
        /\ \A p, q \in Procs : p # q /\ ~Settled(p) => Settled(q)
        /\ \A p, q \in Procs : Alone(p, q)
        /\ \A u \in Operators : Aimed(cli[u]) /\ \A p \in Procs : Allowed(cli[u], p)
    BY DEF FInv
  <1>2. ASSUME NEW s, Do(o, s) PROVE d.pc = s /\ d.pid = c.pid /\ d.cmd = c.cmd /\ Rest
    BY <1>0, <1>2 DEF Do
  <1>3. ASSUME Return(o) PROVE d.pc = "idle" /\ Rest
    BY <1>0, <1>3 DEF Return, AtPrompt
  <1>4. ASSUME Busy(c) PROVE OthersFree
    BY <1>4 DEF FInv
  <1>5. ASSUME NEW calm, MayHurry(calm) PROVE calm
    BY <1>5 DEF MayHurry
  \* A step after which the daemons and the files are as FInv wants them.
  <1>6. ASSUME OthersFree, Rest, Aimed(d), \A p \in Procs : Allowed(cli[o], p)',
               (\A p, q \in Procs : p # q /\ ~Settled(p) => Settled(q))',
               (\A p, q \in Procs : Alone(p, q))', (\A p \in Procs : Named(p))'
        PROVE  FInv'
    <2>1. ASSUME NEW u \in Operators PROVE (Aimed(cli[u]) /\ \A p \in Procs : Allowed(cli[u], p))'
      <3>1. CASE u = o
        BY <1>6, <3>1 DEF Aimed
      <3>2. CASE u # o
        BY <1>1, <1>6, <3>2 DEF Aimed, Allowed, Busy
      <3> QED BY <3>1, <3>2
    <2>2. ASSUME NEW u \in Operators, NEW w \in Operators, Busy(cli[u])', Busy(cli[w])' PROVE u = w
      BY <1>6, <2>2 DEF Busy
    <2> QED BY <1>6, <2>1, <2>2 DEF FInv
  \* A step of a command alone.
  <1>7. ASSUME OthersFree, Rest, Aimed(d), \A p \in Procs : Allowed(cli[o], p)',
               UNCHANGED <<stage, sock, pidfile>>
        PROVE  FInv'
    <2>1. /\ (\A p, q \in Procs : p # q /\ ~Settled(p) => Settled(q))'
          /\ (\A p, q \in Procs : Alone(p, q))' /\ (\A p \in Procs : Named(p))'
      BY <1>1, <1>7 DEF Alone, Named
    <2> QED BY <1>6, <1>7, <2>1
  <1>8. CASE \E cmd \in Commands : Begin(o, cmd)
    <2>1. c.pc = "idle" /\ UNCHANGED <<stage, sock, pidfile>> /\ Calm(o, None)
      BY <1>5, <1>8 DEF Begin, Is, files
    <2>2. d.pc \in {"connect", "spawn"} /\ Rest
      BY <1>0, <1>8 DEF Begin
    <2>3. OthersFree /\ \A p \in Procs : Settled(p)
      BY <1>0, <2>1 DEF Calm, Busy
    <2> QED BY <1>7, <2>1, <2>2, <2>3 DEF Allowed, Aimed
  <1>9. CASE Interrupt(o)
    <2> DEFINE p == c.pid
    <2>1. /\ c.pc = "attached" /\ UNCHANGED <<sock, pidfile>> /\ Return(o) /\ Calm(o, p)
          /\ \/ stage[p] = "serving" /\ stage' = [stage EXCEPT ![p] = "draining"]
             \/ UNCHANGED stage
             \/ stage' = [stage EXCEPT ![p] = "none"]
      BY <1>5, <1>9 DEF Interrupt, Killed, Is, At, Goto, files
    <2>2. p \in Procs /\ OthersFree /\ \A q \in Procs : q # p => Settled(q)
      BY <1>1, <2>1 DEF Aimed, Calm, Busy
    <2>3. Rest /\ Aimed(d) /\ \A q \in Procs : Allowed(cli[o], q)'
      BY <1>3, <2>1 DEF Aimed, Allowed
    <2>4. CASE UNCHANGED stage
      BY <1>7, <2>1, <2>2, <2>3, <2>4
    <2>5. CASE stage' = [stage EXCEPT ![p] = "none"]
      <3>1. stage'[p] = "none" /\ \A q \in Procs : q # p => stage'[q] = stage[q]
        BY <1>0, <2>2, <2>5
      <3>2. /\ (\A q, r \in Procs : q # r /\ ~Settled(q) => Settled(r))'
            /\ (\A q, r \in Procs : Alone(q, r))' /\ (\A q \in Procs : Named(q))'
        BY <1>1, <2>1, <3>1 DEF Alone, Named, Leaving
      <3> QED BY <1>6, <2>2, <2>3, <3>2
    <2>6. CASE stage[p] = "serving" /\ stage' = [stage EXCEPT ![p] = "draining"]
      <3>1. stage'[p] = "draining" /\ \A q \in Procs : q # p => stage'[q] = stage[q]
        BY <1>0, <2>2, <2>6
      <3>2. \A q \in Procs : q # p => stage[q] = "none"
        BY <1>1, <2>2, <2>6 DEF Named
      <3>3. /\ (\A q, r \in Procs : q # r /\ ~Settled(q) => Settled(r))'
            /\ (\A q, r \in Procs : Alone(q, r))' /\ (\A q \in Procs : Named(q))'
        <4> HIDE DEF c, p
        <4> QED BY <1>1, <2>1, <2>2, <2>6, <3>1, <3>2 DEF Alone, Named, Leaving
      <3> QED BY <1>6, <2>2, <2>3, <3>3
    <2> QED BY <2>1, <2>4, <2>5, <2>6
  <1>10. CASE Detach(o)
    <2>1. UNCHANGED <<stage, sock, pidfile>> /\ d.pc = "idle" /\ Rest
      BY <1>3, <1>10 DEF Detach, files
    <2>2. ASSUME NEW u \in Operators
          PROVE  /\ (Aimed(cli[u]) /\ \A q \in Procs : Allowed(cli[u], q))'
                 /\ Busy(cli[u])' => Busy(cli[u])
      <3>1. CASE u = o
        BY <2>1, <3>1 DEF Aimed, Allowed, Busy
      <3>2. CASE u # o
        BY <1>1, <2>1, <3>2 DEF Aimed, Allowed, Busy
      <3> QED BY <3>1, <3>2
    <2> QED BY <2>1, <2>2 DEF FInv, Alone, Named
  <1>11. CASE Connect(o)
    <2>1. c.pc = "connect" /\ UNCHANGED <<sock, pidfile>> /\ OthersFree
      BY <1>4, <1>11 DEF Connect, Is, files, Busy
    <2>2. CASE (Return(o) \/ Do(o, "recover")) /\ UNCHANGED stage
      <3>1. d.pc \in {"idle", "recover"} /\ Rest
        BY <1>2, <1>3, <2>2
      <3> QED BY <1>1, <1>7, <2>1, <2>2, <3>1 DEF Allowed, Aimed
    <2>3. CASE Reachable /\ At(sock, "serving") /\ Goto(sock, "draining") /\ Do(o, "wait_exit")
      <3>2. sock \in Procs /\ stage[sock] = "serving" /\ d.pc = "wait_exit" /\ Rest
        BY <1>0, <1>2, <2>3 DEF Reachable, Listening, At
      <3>3. stage'[sock] = "draining" /\ \A q \in Procs : q # sock => stage'[q] = stage[q]
        BY <1>0, <2>3, <3>2 DEF Goto
      <3>4. \A q \in Procs : q # sock => stage[q] = "none"
        BY <1>1, <2>1 DEF Allowed, Named
      <3>5. Aimed(d) /\ \A q \in Procs : Allowed(cli[o], q)'
        BY <3>2, <3>3, <3>4 DEF Aimed, Allowed, Leaving
      <3>6. /\ (\A q, r \in Procs : q # r /\ ~Settled(q) => Settled(r))'
            /\ (\A q, r \in Procs : Alone(q, r))' /\ (\A q \in Procs : Named(q))'
        BY <1>1, <2>1, <3>2, <3>3, <3>4 DEF Alone, Named, Leaving
      <3> QED BY <1>6, <2>1, <3>2, <3>5, <3>6
    <2> QED BY <1>11, <2>2, <2>3 DEF Connect
  <1>12. CASE Recover(o)
    <2>1. c.pc = "recover" /\ UNCHANGED <<stage, sock, pidfile>> /\ OthersFree
      BY <1>4, <1>12 DEF Recover, Is, files, Busy
    <2>2. CASE Reachable
      <3>1. d.pc = "spawn" /\ Rest
        BY <1>2, <1>12, <2>2 DEF Recover
      <3> QED BY <1>1, <1>7, <2>1, <3>1 DEF Allowed, Aimed
    <2>3. CASE ~Reachable
      <3>1. d.pc = "read_pid" /\ Rest
        BY <1>2, <1>12, <2>3 DEF Recover
      <3>2. \A p \in Procs : stage[p] = "none"
        BY <1>0, <1>1, <2>1, <2>3 DEF Allowed, Named, Reachable, Listening
      <3> QED BY <1>1, <1>7, <2>1, <3>1, <3>2 DEF Allowed, Aimed
    <2> QED BY <2>2, <2>3
  <1>13. CASE ReadPid(o)
    <2>1. c.pc = "read_pid" /\ UNCHANGED <<stage, sock, pidfile>> /\ OthersFree
      BY <1>4, <1>13 DEF ReadPid, Is, files, Busy
    <2>2. Rest /\ (d.pc \in {"idle", "remove_socket"} \/ (d.pc = "signal" /\ d.pid \in Procs))
      <3>1. CASE pidfile \in Procs
        BY <1>0, <1>13, <3>1 DEF ReadPid
      <3>2. CASE pidfile \notin Procs
        BY <1>2, <1>3, <1>13, <3>2 DEF ReadPid
      <3> QED BY <3>1, <3>2
    <2> QED BY <1>1, <1>7, <2>1, <2>2 DEF Allowed, Aimed
  <1>14. CASE Signal(o) \/ RemovePid(o) \/ RemoveSocket(o)
    <2>1. /\ c.pc \in {"signal", "remove_pid", "remove_socket"} /\ OthersFree /\ Rest
          /\ d.pc \in {"remove_pid", "remove_socket", "spawn"}
      BY <1>2, <1>4, <1>14 DEF Signal, RemovePid, RemoveSocket, Is, Busy
    <2>2. \A p \in Procs : stage[p] = "none"
      BY <1>1, <2>1 DEF Allowed
    <2>3. UNCHANGED stage \/ stage' = [stage EXCEPT ![c.pid] = "none"]
      BY <1>14 DEF Signal, RemovePid, RemoveSocket, Goto
    <2>4. \A p \in Procs : stage'[p] = "none"
      BY <1>0, <2>2, <2>3
    <2>5. Aimed(d) /\ \A q \in Procs : Allowed(cli[o], q)'
      BY <2>1, <2>4 DEF Aimed, Allowed
    <2>6. /\ (\A q, r \in Procs : q # r /\ ~Settled(q) => Settled(r))'
          /\ (\A q, r \in Procs : Alone(q, r))' /\ (\A q \in Procs : Named(q))'
      BY <2>4 DEF Alone, Named, Leaving
    <2> QED BY <1>6, <2>1, <2>5, <2>6
  <1>15. CASE Spawn(o)
    <2>1. PICK p \in Procs :
             /\ stage[p] = "none" /\ stage' = [stage EXCEPT ![p] = "migrate"]
             /\ cli' = [cli EXCEPT ![o].pc = IF cli[o].cmd = "foreground" THEN "attached"
                                             ELSE "wait_ready",
                                   ![o].pid = p]
      BY <1>15 DEF Spawn, At, Goto
    <2>2. c.pc = "spawn" /\ UNCHANGED <<sock, pidfile>> /\ OthersFree
      BY <1>4, <1>15 DEF Spawn, Is, files, Busy
    <2>3. d.pc \in {"wait_ready", "attached"} /\ d.pid = p /\ Rest
      BY <1>0, <2>1
    <2>4. stage'[p] = "migrate" /\ \A q \in Procs : q # p => stage'[q] = stage[q]
      BY <1>0, <2>1
    <2>5. \A q \in Procs : Settled(q)
      <3>1. c.cmd = "restart" => \A q \in Procs : Settled(q)
        BY <1>5, <1>15 DEF Spawn
      <3> QED BY <1>1, <2>2, <3>1 DEF Allowed
    <2>6. Aimed(d) /\ \A q \in Procs : Allowed(cli[o], q)'
      BY <2>3 DEF Aimed, Allowed
    <2>7. /\ (\A q, r \in Procs : q # r /\ ~Settled(q) => Settled(r))'
          /\ (\A q, r \in Procs : Alone(q, r))' /\ (\A q \in Procs : Named(q))'
      BY <1>1, <2>2, <2>4, <2>5 DEF Alone, Named, Leaving
    <2> QED BY <1>6, <2>2, <2>3, <2>6, <2>7
  <1>16. CASE WaitReady(o)
    <2>1. UNCHANGED <<stage, sock, pidfile>> /\ OthersFree /\ d.pc = "idle" /\ Rest
      BY <1>3, <1>4, <1>16 DEF WaitReady, Is, files, Busy
    <2> QED BY <1>7, <2>1 DEF Allowed, Aimed
  <1>17. CASE WaitExit(o)
    <2>1. c.pc = "wait_exit" /\ UNCHANGED <<stage, sock, pidfile>> /\ OthersFree
      BY <1>4, <1>17 DEF WaitExit, Is, files, Busy
    <2>2. Rest /\ (d.pc = "idle" \/ (d.pc = "spawn" /\ d.cmd = "restart"))
      BY <1>2, <1>3, <1>17 DEF WaitExit, AfterExit
    <2> QED BY <1>1, <1>7, <2>1, <2>2 DEF Allowed, Aimed
  <1> QED BY <1>8, <1>9, <1>10, <1>11, <1>12, <1>13, <1>14, <1>15, <1>16, <1>17 DEF CliStep

(* The invariant of the files: haste never decreases, so a state without   *)
(* it was reached without it.                                              *)
HInv == haste = 0 => FInv

LEMMA FilesHold == Spec => []HInv
  <1>1. ASSUME Init PROVE HInv
    BY <1>1 DEF Init, HInv, FInv, Busy, Aimed, Allowed, Alone, Named, AtPrompt, Leaving, Settled
  <1>2. ASSUME TypeOK, HInv, [Next]_vars PROVE HInv'
    <2> SUFFICES ASSUME haste' = 0 PROVE FInv'
      BY DEF HInv
    <2>1. haste = 0
      <3>1. haste' = haste \/ haste' = haste + 1
        BY <1>2 DEF Next, ProcStep, CliStep, vars, notes, MayHurry, Crash, Begin, Interrupt,
                    IsMigrationApplied, ExecuteStatement, RecordVersion, Opened, Inspect, Probe,
                    UnlinkStale, Bind, TruncatePid, WritePid, Drained, UnlinkSocket, UnlinkPid,
                    Connect, Recover, ReadPid, Signal, RemovePid, RemoveSocket, Spawn, WaitReady,
                    WaitExit, Detach
      <3> QED BY <1>2, <3>1 DEF TypeOK
    <2>2. FInv
      BY <1>2, <2>1 DEF HInv
    <2>3. CASE UNCHANGED vars
      BY <2>2, <2>3 DEF vars, FInv, Busy, Aimed, Allowed, Alone, Named, Settled
    <2>4. ASSUME NEW p \in Procs, ProcStep(p) \/ Crash(p) PROVE FInv'
      BY <1>2, <2>4, <2>2, OwnStep
    <2>5. ASSUME NEW o \in Operators,
                 CliStep(o) \/ Interrupt(o) \/ \E cmd \in Commands : Begin(o, cmd)
          PROVE  FInv'
      BY <1>2, <2>1, <2>5, <2>2, CommandStep
    <2> QED BY <1>2, <2>3, <2>4, <2>5 DEF Next
  <1> QED BY <1>1, <1>2, RuntimeTypeCorrect, PTL DEF Spec

(* Without haste the files lead to the daemon that listens and name the    *)
(* one that serves, after any sequence of kills, Ctrl-Cs, refused starts,  *)
(* stops and restarts by any number of operators (server.rs 199-214,       *)
(* 250-253, cli/main.rs 1166-1260).                                        *)
THEOREM FilesOwnedHolds == Spec => []FilesOwned
  <1>1. HInv => FilesOwned
    BY DEF HInv, FInv, Named, FilesOwned, Listening
  <1> QED BY <1>1, FilesHold, PTL
=============================================================================
