--------------------------- MODULE DaemonProcess ---------------------------
(***************************************************************************)
(* Configuration sets, their run directories, and the commands that spawn, *)
(* stop and call the worker process of a set: daemon/process.py, pid.py,   *)
(* client.py, operations/daemon.py and configuration_set.py.               *)
(*                                                                         *)
(* A run directory holds a pid file, a port file and the list of mapping   *)
(* files its worker was started with.  Commands are processes of their own *)
(* that read and write these files without a lock; a worker dies whenever  *)
(* it likes and leaves its files behind, and its pid may be given to       *)
(* another program.  A dead worker stays a zombie, alive for everybody but *)
(* its parent, while the command that spawned it is open.                  *)
(***************************************************************************)
EXTENDS Naturals, FiniteSets

CONSTANTS
  Files,      \* mapping files
  Global,     \* the global set; the other sets are singletons, named by their file
  Shells,     \* terminals, each with one command at a time
  Calls,      \* the requests they send to the daemon
  Pids,       \* process ids
  None,
  FirstList,  \* the mapping files the pointer list names at first
  Overlapped, \* whether a start or stop may begin while another runs
  ListEdits,  \* whether the pointer list is edited while a global worker runs
  MaxEdits,   \* bound: edits of the pointer list
  MaxLost,    \* bound: starts that lose a worker they spawned
  MaxFaults,  \* bound: workers that crash
  MaxForeign  \* bound: pids given to other programs

Sets == {Global} \cup Files

ASSUME NamesAssumption ==
  /\ Global \notin Files
  /\ None \notin Files \cup {Global} \cup Pids \cup Shells
  /\ FirstList \subseteq Files
  /\ Calls \subseteq {"status", "reload"}

ASSUME BoundsAssumption ==
  /\ {MaxEdits, MaxLost, MaxFaults, MaxForeign} \subseteq Nat
  /\ {Overlapped, ListEdits} \subseteq BOOLEAN

VARIABLES
  list,      \* the mapping files ~/.blf/config names
  pidFile, portFile, recorded,  \* daemon.pid, daemon.port, mapping-files of each set
  snapshot,  \* the mapping files behind its mapping-snapshot.yml
  proc,      \* what runs under each pid
  shell,     \* the command of each terminal
  count      \* how often each bounded thing has happened

files == <<pidFile, portFile, recorded, snapshot>>
vars  == <<list, files, proc, shell, count>>

Phases == {"free", "foreign", "zombie", "starting", "bound", "ready", "closing"}
Process == [phase : Phases, set : Sets \cup {None}, loaded : SUBSET Files,
            term : {"no", "failed", "signal"}, parent : Shells \cup {None}]
NoProcess == [phase |-> "free", set |-> None, loaded |-> {}, term |-> "no", parent |-> None]

Steps == {"idle", "refuse", "ingest", "spawn", "popen", "record", "port", "wait",
          "read", "term", "stopping", "killed", "connect", "screen"}
Command == [op : {"none", "start", "stop", "status", "reload"}, set : Sets \cup {None},
            at : Steps, pid : Pids \cup {None}]
NoCommand == [op |-> "none", set |-> None, at |-> "idle", pid |-> None]

TypeOK ==
  /\ list \subseteq Files
  /\ pidFile \in [Sets -> Pids \cup {None}]
  /\ portFile \in [Sets -> Pids \cup {None}]
  /\ recorded \in [Sets -> SUBSET Files]
  /\ snapshot \in [Sets -> SUBSET Files]
  /\ proc \in [Pids -> Process]
  /\ shell \in [Shells -> Command]
  /\ \A s \in Shells : shell[s].at = "idle" <=> shell[s] = NoCommand
  /\ \A p \in Pids : /\ proc[p].phase = "zombie" => proc[p].parent # None
                     /\ proc[p].parent # None => shell[proc[p].parent].op = "start"
  /\ count \in [{"edits", "lost", "faults", "foreign"} -> Nat]

Happens(what, max) ==
  /\ count[what] < max
  /\ count' = [count EXCEPT ![what] = @ + 1]

-----------------------------------------------------------------------------
\* What the files say

Daemon(p) == proc[p].phase \in {"starting", "bound", "ready"}

\* pid_is_alive, asked by command s: a zombie is dead for its parent only.
Alive(p, s) ==
  /\ proc[p].phase # "free"
  /\ ~(proc[p].phase = "zombie" /\ proc[p].parent = s)

IsRunning(c, s) == pidFile[c] # None /\ Alive(pidFile[c], s)

MappingFiles(c) == IF c = Global THEN list ELSE {c}

\* _loaded_mapping_files, with what running_overlap takes for a set without a list.
LoadedFiles(c) == IF recorded[c] = {} THEN MappingFiles(c) ELSE recorded[c]

\* running_overlap: the running sets that loaded one of these files.
Overlaps(wanted, s) == {d \in Sets : IsRunning(d, s) /\ LoadedFiles(d) \cap wanted # {}}

\* Mutant: a singleton is never looked for in the global set.
ShellSetAsked(c, s) == c

\* configuration_set_for_shell: the set a command with -c c talks to.  The run
\* directories of singletons sort before that of the global set.
ShellSet(c, s) ==
  LET owners == Overlaps({c}, s)
  IN  IF c = Global \/ owners = {} \/ c \in owners THEN c
      ELSE IF owners \ {Global} = {} THEN Global ELSE CHOOSE d \in owners \ {Global} : TRUE

-----------------------------------------------------------------------------
\* Commands

Goto(s, at, p) == shell' = [shell EXCEPT ![s] = [@ EXCEPT !.at = at, !.pid = p]]

\* Mutant: the children of a command that ended are still its own.
EndAlone(s) == shell' = [shell EXCEPT ![s] = NoCommand] /\ UNCHANGED proc

\* The command of s ends: its children are init's, which reaps the dead ones.
End(s) ==
  /\ shell' = [shell EXCEPT ![s] = NoCommand]
  /\ proc' = [p \in Pids |->
               IF proc[p].parent # s THEN proc[p]
               ELSE IF proc[p].phase = "zombie" THEN NoProcess
               ELSE [proc[p] EXCEPT !.parent = None]]

\* _clear_runtime_files: the list of mapping files stays.
Clear(c) ==
  /\ pidFile' = [pidFile EXCEPT ![c] = None]
  /\ portFile' = [portFile EXCEPT ![c] = None]
  /\ UNCHANGED <<recorded, snapshot>>

Busy(s) == shell[s].at # "idle"
Writes(s) == shell[s].op \in {"start", "stop"} /\ shell[s].at # "screen"

Begin(s, op, c, at) ==
  /\ ~Busy(s)
  /\ op \in {"start", "stop"} => Overlapped \/ \A t \in Shells : ~Writes(t)
  /\ shell' = [shell EXCEPT ![s] = [op |-> op, set |-> c, at |-> at, pid |-> None]]
  /\ UNCHANGED <<list, files, proc, count>>

\* configuration_set_for_start attaches to no other set; the other commands do.
BeginStart(s, c) == MappingFiles(c) # {} /\ Begin(s, "start", c, "refuse")
BeginStop(s, c)  == MappingFiles(c) # {} /\ Begin(s, "stop", ShellSet(c, s), "read")

\* call_daemon; without a running daemon it prints a hint.
BeginCall(s, op, c) ==
  /\ MappingFiles(c) # {} /\ IsRunning(ShellSet(c, s), s)
  /\ Begin(s, op, ShellSet(c, s), "connect")

-----------------------------------------------------------------------------
\* daemon start

At(s, op, at) == shell[s].op = op /\ shell[s].at = at

\* Mutant: only singletons are refused when their file is loaded already.
RefuseSingletons(s) ==
  /\ At(s, "start", "refuse")
  /\ IF \/ IsRunning(shell[s].set, s)
        \/ shell[s].set # Global /\ Overlaps(MappingFiles(shell[s].set), s) # {}
     THEN End(s) ELSE Goto(s, "ingest", None) /\ UNCHANGED proc
  /\ UNCHANGED <<list, files, count>>

\* _refuse_start
Refuse(s) ==
  /\ At(s, "start", "refuse")
  /\ IF \/ IsRunning(shell[s].set, s)
        \/ Overlaps(MappingFiles(shell[s].set), s) # {}
     THEN End(s) ELSE Goto(s, "ingest", None) /\ UNCHANGED proc
  /\ UNCHANGED <<list, files, count>>

\* The mapping file may not load, and the user may decline the removals; a snapshot
\* there is is brought up to date.
Ingest(s) ==
  LET c == shell[s].set
  IN  /\ At(s, "start", "ingest")
      /\ \/ End(s) /\ UNCHANGED files
         \/ /\ Goto(s, "spawn", None)
            /\ snapshot' = IF snapshot[c] = {} THEN snapshot
                           ELSE [snapshot EXCEPT ![c] = MappingFiles(c)]
            /\ UNCHANGED <<pidFile, portFile, recorded, proc>>
      /\ UNCHANGED <<list, count>>

\* spawn_worker, up to Popen
Spawn(s) ==
  LET c == shell[s].set
  IN  /\ At(s, "start", "spawn")
      /\ IF IsRunning(c, s) THEN End(s) /\ UNCHANGED files
         ELSE /\ Goto(s, "popen", None) /\ UNCHANGED proc
              /\ pidFile' = [pidFile EXCEPT ![c] = None]
              /\ portFile' = [portFile EXCEPT ![c] = None]
              /\ recorded' = [recorded EXCEPT ![c] = MappingFiles(c)]
              /\ UNCHANGED snapshot
      /\ UNCHANGED <<list, count>>

\* Without a free pid it raises.
Popen(s) ==
  /\ At(s, "start", "popen")
  /\ \/ \E p \in Pids :
          /\ proc[p].phase = "free"
          /\ proc' = [proc EXCEPT ![p] = [NoProcess EXCEPT !.phase = "starting",
                                                           !.set = shell[s].set, !.parent = s]]
          /\ Goto(s, "record", p)
     \/ (\A p \in Pids : proc[p].phase # "free") /\ End(s)
  /\ UNCHANGED <<list, files, count>>

WritePid(s) ==
  /\ At(s, "start", "record")
  /\ pidFile' = [pidFile EXCEPT ![shell[s].set] = shell[s].pid]
  /\ Goto(s, "port", shell[s].pid)
  /\ UNCHANGED <<list, portFile, recorded, snapshot, proc, count>>

\* _wait_for_port sees the port; spawn_and_wait reads the pid file.
PortSeen(s) ==
  /\ At(s, "start", "port")
  /\ portFile[shell[s].set] # None
  /\ Goto(s, "wait", pidFile[shell[s].set])
  /\ UNCHANGED <<list, files, proc, count>>

\* Mutant: a port that is late ends the start like a dead worker.
PortLate(s) ==
  /\ At(s, "start", "port")
  /\ portFile[shell[s].set] = None
  /\ Clear(shell[s].set) /\ End(s)
  /\ UNCHANGED <<list, count>>

\* _wait_for_port: the worker has died, or 30 s have passed.
PortFails(s) ==
  /\ At(s, "start", "port")
  /\ portFile[shell[s].set] = None
  /\ IF Alive(shell[s].pid, s) THEN Happens("lost", MaxLost) ELSE UNCHANGED count
  /\ Clear(shell[s].set) /\ End(s)
  /\ UNCHANGED list

\* A request is answered by the worker that listens on the port: status at once,
\* others when it is ready.
Answers(c, op) ==
  LET p == portFile[c]
  IN  /\ p # None /\ proc[p].set = c
      /\ proc[p].phase = "ready" \/ (op = "status" /\ proc[p].phase = "bound")

\* Mutant: a daemon in its catch-up is as good as gone.
UnreachableUntilReady(c, s) ==
  ~(IsRunning(c, s) /\ proc[pidFile[c]].phase = "ready")

\* _retry_while_down gives up when the worker is gone or closes the connection.
Unreachable(c, s) ==
  ~(IsRunning(c, s) /\ proc[pidFile[c]].phase # "closing")

\* wait_until_ready answers: the pid read before it must still be alive.
StartAnswered(s) ==
  LET c == shell[s].set
      p == shell[s].pid
  IN  /\ At(s, "start", "wait")
      /\ Answers(c, "wait")
      /\ IF p # None /\ Alive(p, s) THEN Goto(s, "screen", None) /\ UNCHANGED <<files, proc>>
         ELSE End(s) /\ Clear(c)
      /\ UNCHANGED <<list, count>>

\* wait_until_ready fails: no worker, or nothing heard of it for too long.
StartFails(s) ==
  LET c == shell[s].set
  IN  /\ At(s, "start", "wait")
      /\ IF Unreachable(c, s) THEN UNCHANGED count ELSE Happens("lost", MaxLost)
      /\ End(s) /\ Clear(c)
      /\ UNCHANGED list

\* Ctrl-C, or the terminal is closed, or the screen of a start; the worker has a
\* session of its own.
Interrupt(s) ==
  /\ Writes(s) \/ shell[s].at = "screen"
  /\ IF shell[s].at = "record" THEN Happens("lost", MaxLost) ELSE UNCHANGED count
  /\ End(s)
  /\ UNCHANGED <<list, files>>

StartSteps(s) ==
  \/ Refuse(s) \/ Ingest(s) \/ Spawn(s) \/ Popen(s) \/ WritePid(s)
  \/ PortSeen(s) \/ PortFails(s) \/ StartAnswered(s) \/ StartFails(s)

-----------------------------------------------------------------------------
\* daemon stop

\* Where a process goes when it ends.
Ended(p) ==
  IF proc[p].parent = None THEN NoProcess ELSE [proc[p] EXCEPT !.phase = "zombie"]

\* stop_process reads the pid file.
ReadPid(s) ==
  LET c == shell[s].set
  IN  /\ At(s, "stop", "read")
      /\ IF IsRunning(c, s) THEN Goto(s, "term", pidFile[c]) /\ UNCHANGED <<files, proc>>
         ELSE End(s) /\ Clear(c)
      /\ UNCHANGED <<list, count>>

\* SIGTERM; a worker that has not installed its handler, or another program, dies.
Terminate(s) ==
  LET p == shell[s].pid
  IN  /\ At(s, "stop", "term")
      /\ Goto(s, "stopping", p)
      /\ \/ /\ proc[p].phase \in {"foreign", "starting"}
            /\ proc' = [proc EXCEPT ![p] = Ended(p)]
         \/ /\ Daemon(p) \/ proc[p].phase = "closing"
            /\ proc' = [proc EXCEPT ![p].term = "signal"]
         \/ proc[p].phase \in {"free", "zombie"} /\ UNCHANGED proc
      /\ UNCHANGED <<list, files, count>>

\* Mutant: stop does not wait for the process.
StopAtOnce(s) ==
  /\ At(s, "stop", "stopping")
  /\ Clear(shell[s].set) /\ End(s)
  /\ UNCHANGED <<list, count>>

\* The process is gone, or 2 s have passed after the SIGKILL: the pid may be that of a
\* zombie of somebody else, or in use again.
Stopped(s) ==
  /\ shell[s].op = "stop" /\ shell[s].at \in {"stopping", "killed"}
  /\ shell[s].at = "killed" \/ ~Alive(shell[s].pid, s)
  /\ Clear(shell[s].set) /\ End(s)
  /\ UNCHANGED <<list, count>>

\* 10 s have passed: SIGKILL.
Kill(s) ==
  LET p == shell[s].pid
  IN  /\ At(s, "stop", "stopping")
      /\ Alive(p, s)
      /\ Goto(s, "killed", p)
      /\ proc' = [proc EXCEPT ![p] = Ended(p)]
      /\ UNCHANGED <<list, files, count>>

StopSteps(s) == ReadPid(s) \/ Terminate(s) \/ Stopped(s) \/ Kill(s)

-----------------------------------------------------------------------------
\* daemon status, daemon reload: call_daemon

\* A reload reads the mapping files of the set again and commits them.
CallAnswered(s) ==
  LET c == shell[s].set
      p == portFile[c]
  IN  /\ shell[s].at = "connect"
      /\ Answers(c, shell[s].op)
      /\ shell' = [shell EXCEPT ![s] = NoCommand]
      /\ IF shell[s].op = "reload" /\ MappingFiles(c) # {}
         THEN /\ proc' = [proc EXCEPT ![p].loaded = MappingFiles(c)]
              /\ snapshot' = [snapshot EXCEPT ![c] = MappingFiles(c)]
         ELSE UNCHANGED <<proc, snapshot>>
      /\ UNCHANGED <<list, pidFile, portFile, recorded, count>>

\* Not running, gone while the call waited, or nothing answers for 30 s, or 120 s.
CallFails(s) ==
  /\ shell[s].at = "connect"
  /\ ~(Answers(shell[s].set, shell[s].op) /\ ~Unreachable(shell[s].set, s))
  /\ shell' = [shell EXCEPT ![s] = NoCommand]
  /\ UNCHANGED <<list, files, proc, count>>

CallSteps(s) == CallAnswered(s) \/ CallFails(s)

-----------------------------------------------------------------------------
\* Worker processes

\* run_worker: signal handlers, then serve_requests writes the port.
Bind(p) ==
  /\ proc[p].phase = "starting"
  /\ proc' = [proc EXCEPT ![p].phase = "bound"]
  /\ portFile' = [portFile EXCEPT ![proc[p].set] = p]
  /\ UNCHANGED <<list, pidFile, recorded, snapshot, shell, count>>

\* _catch_up_worker: the mapping files must load, but a snapshot wins over them; it
\* may fail and stop the process.
Load(p) ==
  LET c    == proc[p].set
      maps == IF snapshot[c] = {} THEN MappingFiles(c) ELSE snapshot[c]
  IN  /\ proc[p].phase = "bound" /\ proc[p].loaded = {} /\ proc[p].term = "no"
      /\ \/ /\ MappingFiles(c) # {}
            /\ proc' = [proc EXCEPT ![p].loaded = maps]
            /\ snapshot' = [snapshot EXCEPT ![c] = maps]
         \/ proc' = [proc EXCEPT ![p].term = "failed"] /\ UNCHANGED snapshot
      /\ UNCHANGED <<list, pidFile, portFile, recorded, shell, count>>

Ready(p) ==
  /\ proc[p].phase = "bound" /\ proc[p].loaded # {} /\ proc[p].term = "no"
  /\ proc' = [proc EXCEPT ![p].phase = "ready"]
  /\ UNCHANGED <<list, files, shell, count>>

\* serve_requests returns: the port file is unlinked, whoever wrote it.
Unbind(p) ==
  /\ proc[p].phase \in {"bound", "ready"} /\ proc[p].term # "no"
  /\ proc' = [proc EXCEPT ![p].phase = "closing"]
  /\ portFile' = [portFile EXCEPT ![proc[p].set] = None]
  /\ UNCHANGED <<list, pidFile, recorded, snapshot, shell, count>>

Exit(p) ==
  /\ proc[p].phase = "closing"
  /\ proc' = [proc EXCEPT ![p] = Ended(p)]
  /\ UNCHANGED <<list, files, shell, count>>

Crash(p) ==
  /\ Daemon(p)
  /\ Happens("faults", MaxFaults)
  /\ proc' = [proc EXCEPT ![p] = Ended(p)]
  /\ UNCHANGED <<list, files, shell>>

WorkerSteps(p) == Bind(p) \/ Load(p) \/ Ready(p) \/ Unbind(p) \/ Exit(p)

\* Another program gets a pid that a pid file or a stop still names, and ends.
Foreign(p) ==
  \/ /\ proc[p].phase = "free"
     /\ (\E c \in Sets : pidFile[c] = p) \/ (\E s \in Shells : shell[s].pid = p)
     /\ Happens("foreign", MaxForeign)
     /\ proc' = [proc EXCEPT ![p].phase = "foreign"]
     /\ UNCHANGED <<list, files, shell>>
  \/ /\ proc[p].phase = "foreign"
     /\ proc' = [proc EXCEPT ![p] = NoProcess]
     /\ UNCHANGED <<list, files, shell, count>>

\* A user edits ~/.blf/config.
EditList ==
  /\ Happens("edits", MaxEdits)
  /\ ListEdits \/ \A p \in Pids : proc[p].set = Global => ~Daemon(p)
  /\ ListEdits \/ \A s \in Shells : shell[s].set = Global => ~Writes(s)
  /\ list' \in SUBSET Files \ {list}
  /\ UNCHANGED <<files, proc, shell>>

-----------------------------------------------------------------------------

Init ==
  /\ list = FirstList
  /\ pidFile = [c \in Sets |-> None]
  /\ portFile = [c \in Sets |-> None]
  /\ recorded = [c \in Sets |-> {}]
  /\ snapshot = [c \in Sets |-> {}]
  /\ proc = [p \in Pids |-> NoProcess]
  /\ shell = [s \in Shells |-> NoCommand]
  /\ count = [w \in {"edits", "lost", "faults", "foreign"} |-> 0]

BeginSteps(s) ==
  \E c \in Sets : \/ BeginStart(s, c) \/ BeginStop(s, c)
                  \/ \E op \in Calls : BeginCall(s, op, c)

Next ==
  \/ \E s \in Shells : BeginSteps(s) \/ StartSteps(s) \/ StopSteps(s) \/ CallSteps(s) \/ Interrupt(s)
  \/ \E p \in Pids : WorkerSteps(p) \/ Crash(p) \/ Foreign(p)
  \/ EditList

Spec == Init /\ [][Next]_vars

-----------------------------------------------------------------------------
\* Properties

\* "One daemon process per configuration set": two workers of one set never run.
OneDaemonPerSet ==
  \A p, q \in Pids : Daemon(p) /\ Daemon(q) /\ proc[p].set = proc[q].set => p = q

\* "Two sets never observe the same mapping file."
OneDaemonPerFile ==
  \A p, q \in Pids : Daemon(p) /\ Daemon(q) /\ p # q => proc[p].loaded \cap proc[q].loaded = {}

Ends(s) == Busy(s) /\ ~Busy(s)'

\* A start that says the daemon runs leaves a worker that the set's pid file and port
\* file name; one that clears the files and says it failed leaves no worker of its own.
StartTellsTheTruth ==
  [][\A s \in Shells : shell[s].op = "start" /\ shell'[s].at # shell[s].at =>
       /\ shell'[s].at = "screen" =>
            \E p \in Pids : /\ Daemon(p)' /\ proc[p].set = shell[s].set
                            /\ pidFile'[shell[s].set] = p /\ portFile'[shell[s].set] = p
       /\ Ends(s) /\ pidFile'[shell[s].set] = None =>
            \A p \in Pids : proc[p].parent = s => ~Daemon(p)']_vars

\* "0 after the daemon is not running": when a stop has cleared the files, no worker of
\* the set runs.
StoppedMeansStopped ==
  [][\A s \in Shells : shell[s].op = "stop" /\ Ends(s) /\ pidFile'[shell[s].set] = None =>
       \A p \in Pids : proc[p].set = shell[s].set => ~Daemon(p)']_vars

\* A mapping file that a worker loaded is served by that worker: a command with -c names
\* its set, unless the pid another set left behind belongs to another process by now.
Served ==
  \A p \in Pids, s \in Shells :
    Daemon(p) /\ proc[p].loaded # {} /\ pidFile[proc[p].set] = p =>
      \A f \in proc[p].loaded :
        \/ ShellSet(f, s) = proc[p].set
        \/ LET d == ShellSet(f, s) IN pidFile[d] # None /\ proc[pidFile[d]].set # d
=============================================================================
