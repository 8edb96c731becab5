------------------------ MODULE DaemonProcessProofs ------------------------
(***************************************************************************)
(* What DaemonProcess guarantees for every set of mapping files, terminals *)
(* and pids.  TypeOK needs Shaped, what the steps of a command know.  When *)
(* starts and stops do not overlap and none loses its worker, SInv holds:  *)
(* a daemon is named by the pid file of its set or by the start that just  *)
(* spawned it.  When the list is not edited under a global worker either,  *)
(* FInv holds: what daemons loaded is what their sets recorded; and GInv:  *)
(* the pid file of a file a global worker lists names no worker of it.     *)
(***************************************************************************)
EXTENDS DaemonProcess, TLAPS

USE NamesAssumption, BoundsAssumption

Starting == {"refuse", "ingest", "spawn", "popen", "record", "port", "wait", "screen"}
Stopping == {"read", "term", "stopping", "killed"}

\* What the step a command is at says of it.
Shaped ==
  /\ \A s \in Shells :
       /\ Busy(s) => shell[s].set \in Sets /\ shell[s].op # "none"
       /\ shell[s].op = "start" => shell[s].at \in Starting
       /\ shell[s].op = "stop" => shell[s].at \in Stopping
       /\ shell[s].op \in {"status", "reload"} => shell[s].at = "connect"
       /\ shell[s].at \in {"record", "port", "term", "stopping", "killed"} => shell[s].pid \in Pids
  /\ \A p \in Pids : Daemon(p) \/ proc[p].phase = "closing" => proc[p].set \in Sets

IInv == TypeOK /\ Shaped

\* Starts and stops do not overlap, and none gives up on a worker that is alive.
OneAtATime == ~Overlapped /\ MaxLost = 0

\* At most one command writes run directories.
Serial == \A s, t \in Shells : Writes(s) /\ Writes(t) => s = t

\* What a start or stop read from the pid file still stands there.
Remembered ==
  \A s \in Shells :
    LET c == shell[s].set
        p == shell[s].pid
    IN  /\ shell[s].at \in {"popen", "record"} => pidFile[c] = None
        /\ shell[s].at \in {"port", "wait"} => pidFile[c] = p /\ p # None
        /\ shell[s].at \in {"term", "stopping", "killed"} => pidFile[c] = p
        /\ shell[s].at = "killed" => ~Daemon(p)

JustSpawned(p) ==
  \E s \in Shells : /\ proc[p].parent = s
                    /\ shell[s].at = "record" /\ shell[s].pid = p /\ shell[s].set = proc[p].set

\* A daemon is named by its set's pid file, or the start that spawned it will name it.
Named == \A p \in Pids : Daemon(p) => pidFile[proc[p].set] = p \/ JustSpawned(p)

\* The daemon a start has spawned belongs to the set that was asked for.
Children ==
  \A p \in Pids, s \in Shells :
    Daemon(p) /\ proc[p].parent = s =>
      shell[s].at \in {"record", "port", "wait", "screen"} /\ shell[s].set = proc[p].set

SInv == IInv /\ Serial /\ Remembered /\ Named /\ Children

\* What a daemon loads is what its set recorded, and no other daemon's set has it.
Recorded ==
  \A p \in Pids : Daemon(p) =>
    /\ proc[p].loaded \subseteq MappingFiles(proc[p].set)
    /\ recorded[proc[p].set] = MappingFiles(proc[p].set)

Apart ==
  \A p, q \in Pids : Daemon(p) /\ Daemon(q) /\ proc[p].set # proc[q].set =>
    MappingFiles(proc[p].set) \cap MappingFiles(proc[q].set) = {}

\* The files of a start that was not refused belong to no daemon of another set.
Checked ==
  \A s \in Shells :
    /\ shell[s].at \in {"ingest", "spawn", "popen"} =>
         \A q \in Pids : Daemon(q) /\ proc[q].set # shell[s].set =>
           MappingFiles(shell[s].set) \cap MappingFiles(proc[q].set) = {}
    /\ shell[s].at = "popen" => recorded[shell[s].set] = MappingFiles(shell[s].set)

\* Nor does the snapshot a worker starts from map other files than its set.
Committed ==
  /\ \A s \in Shells : shell[s].at \in {"spawn", "popen"} =>
       snapshot[shell[s].set] \in {{}, MappingFiles(shell[s].set)}
  /\ \A p \in Pids : Daemon(p) => snapshot[proc[p].set] \in {{}, MappingFiles(proc[p].set)}

FInv == SInv /\ Recorded /\ Apart /\ Checked /\ Committed

-----------------------------------------------------------------------------
\* What ending, moving and dying do to commands and processes.

\* A command that ends leaves daemons as they are, but for their parent.
LEMMA EndEffect ==
  ASSUME IInv, NEW s \in Shells, End(s)
  PROVE  /\ shell' \in [Shells -> Command] /\ shell'[s] = NoCommand
         /\ \A t \in Shells : t # s => shell'[t] = shell[t]
         /\ proc' \in [Pids -> Process]
         /\ \A p \in Pids :
              /\ Daemon(p)' <=> Daemon(p)
              /\ proc'[p].phase = "closing" <=> proc[p].phase = "closing"
              /\ Daemon(p) \/ proc[p].phase = "closing" =>
                   proc'[p].set = proc[p].set /\ proc'[p].loaded = proc[p].loaded
              /\ proc'[p].parent # s
              /\ proc'[p].parent # None =>
                   proc'[p].parent = proc[p].parent /\ proc'[p].phase = proc[p].phase
              /\ proc'[p].phase = "zombie" => proc'[p].parent # None
              /\ proc[p].parent # s => proc'[p] = proc[p]
<1>1. NoCommand \in Command
  BY DEF NoCommand, Command, Steps
<1>2. NoProcess \in Process
  BY DEF NoProcess, Process, Phases
<1>3. /\ shell' \in [Shells -> Command] /\ shell'[s] = NoCommand
      /\ \A t \in Shells : t # s => shell'[t] = shell[t]
  BY <1>1 DEF End, IInv, TypeOK
<1>4. ASSUME NEW p \in Pids
      PROVE  /\ proc'[p] \in Process
             /\ Daemon(p)' <=> Daemon(p)
             /\ proc'[p].phase = "closing" <=> proc[p].phase = "closing"
             /\ Daemon(p) \/ proc[p].phase = "closing" =>
                   proc'[p].set = proc[p].set /\ proc'[p].loaded = proc[p].loaded
             /\ proc'[p].parent # s
             /\ proc'[p].parent # None =>
                   proc'[p].parent = proc[p].parent /\ proc'[p].phase = proc[p].phase
             /\ proc'[p].phase = "zombie" => proc'[p].parent # None
             /\ proc[p].parent # s => proc'[p] = proc[p]
  <2>1. proc[p] \in Process /\ (proc[p].phase = "zombie" => proc[p].parent # None)
    BY DEF IInv, TypeOK
  <2>2. CASE proc[p].parent # s
    <3>1. proc'[p] = proc[p]
      BY <2>2 DEF End
    <3> QED  BY <2>1, <2>2, <3>1 DEF Daemon
  <2>3. CASE proc[p].parent = s /\ proc[p].phase = "zombie"
    <3>1. proc'[p] = NoProcess
      BY <2>3 DEF End
    <3> QED  BY <1>2, <2>3, <3>1 DEF Daemon, NoProcess
  <2>4. CASE proc[p].parent = s /\ proc[p].phase # "zombie"
    <3>1. proc'[p] = [proc[p] EXCEPT !.parent = None]
      BY <2>4 DEF End
    <3> QED  BY <2>1, <2>4, <3>1 DEF Daemon, Process
  <2> QED  BY <2>2, <2>3, <2>4
<1>5. proc' \in [Pids -> Process]
  BY <1>4 DEF End
<1> QED  BY <1>3, <1>4, <1>5

\* A command that moves on keeps what it is and the set it is about.
LEMMA GotoEffect ==
  ASSUME IInv, NEW s \in Shells, NEW at \in Steps \ {"idle"}, NEW p \in Pids \cup {None},
         shell[s].op # "none", Goto(s, at, p)
  PROVE  /\ shell' \in [Shells -> Command]
         /\ \A t \in Shells : t # s => shell'[t] = shell[t]
         /\ shell'[s].op = shell[s].op /\ shell'[s].set = shell[s].set
         /\ shell'[s].at = at /\ shell'[s].pid = p
         /\ shell'[s] # NoCommand
<1> DEFINE c == [shell[s] EXCEPT !.at = at, !.pid = p]
<1>1. shell[s] \in Command /\ shell' = [shell EXCEPT ![s] = c]
  BY DEF Goto, IInv, TypeOK
<1>2. c \in Command /\ c.op = shell[s].op /\ c.set = shell[s].set /\ c.at = at /\ c.pid = p
  BY <1>1 DEF Command
<1>3. c # NoCommand
  BY <1>2 DEF NoCommand
<1> HIDE DEF c
<1> QED  BY <1>1, <1>2, <1>3 DEF IInv, TypeOK

\* A process that ends is a daemon no more.
LEMMA EndedEffect ==
  ASSUME IInv, NEW p \in Pids
  PROVE  /\ Ended(p) \in Process
         /\ Ended(p).phase \in {"free", "zombie"}
         /\ Ended(p).phase = "zombie" => Ended(p).parent # None
         /\ Ended(p).parent # None => Ended(p).parent = proc[p].parent
<1>1. proc[p] \in Process
  BY DEF IInv, TypeOK
<1> QED  BY <1>1 DEF Ended, NoProcess, Process, Phases

-----------------------------------------------------------------------------
\* TypeOK and Shaped, step by step.

FilesOK ==
  /\ list \subseteq Files
  /\ pidFile \in [Sets -> Pids \cup {None}]
  /\ portFile \in [Sets -> Pids \cup {None}]
  /\ recorded \in [Sets -> SUBSET Files]
  /\ snapshot \in [Sets -> SUBSET Files]
  /\ count \in [{"edits", "lost", "faults", "foreign"} -> Nat]

ProcOK ==
  /\ proc \in [Pids -> Process]
  /\ \A p \in Pids :
       /\ proc[p].phase = "zombie" => proc[p].parent # None
       /\ proc[p].parent # None => shell[proc[p].parent].op = "start"
       /\ Daemon(p) \/ proc[p].phase = "closing" => proc[p].set \in Sets

CommandOK(x) ==
  /\ x \in Command
  /\ x.at = "idle" <=> x = NoCommand
  /\ x.at # "idle" => x.set \in Sets /\ x.op # "none"
  /\ x.op = "start" => x.at \in Starting
  /\ x.op = "stop" => x.at \in Stopping
  /\ x.op \in {"status", "reload"} => x.at = "connect"
  /\ x.at \in {"record", "port", "term", "stopping", "killed"} => x.pid \in Pids

ShellOK == shell \in [Shells -> Command] /\ \A s \in Shells : CommandOK(shell[s])

\* The invariant, sorted by what it is about: files, processes, commands.
LEMMA IInvParts == IInv <=> FilesOK /\ ProcOK /\ ShellOK
BY DEF IInv, TypeOK, Shaped, Busy, FilesOK, ProcOK, ShellOK, CommandOK

\* The same after a step.
LEMMA IInvPartsNext == IInv' <=> FilesOK' /\ ProcOK' /\ ShellOK'
BY DEF IInv, TypeOK, Shaped, Busy, Daemon, FilesOK, ProcOK, ShellOK, CommandOK

\* A terminal without a command is well formed.
LEMMA IdleOK == CommandOK(NoCommand)
BY DEF CommandOK, NoCommand, Command, Steps, Starting, Stopping

\* Counting keeps the counters natural.
LEMMA HappensOK ==
  ASSUME FilesOK, NEW w \in {"edits", "lost", "faults", "foreign"}, NEW max, Happens(w, max)
  PROVE  count' \in [{"edits", "lost", "faults", "foreign"} -> Nat]
BY DEF FilesOK, Happens

\* Clearing a run directory leaves well-formed files.
LEMMA ClearOK ==
  ASSUME FilesOK, NEW c \in Sets, Clear(c)
  PROVE  /\ pidFile' \in [Sets -> Pids \cup {None}]
         /\ portFile' \in [Sets -> Pids \cup {None}]
         /\ recorded' \in [Sets -> SUBSET Files]
         /\ snapshot' \in [Sets -> SUBSET Files]
BY DEF FilesOK, Clear

\* The end of a command keeps the invariant.
LEMMA EndOK ==
  ASSUME IInv, NEW s \in Shells, End(s), FilesOK'
  PROVE  IInv'
<1>1. ShellOK'
  BY EndEffect, IdleOK, IInvParts DEF ShellOK
<1>2. ProcOK'
  <2> SUFFICES ASSUME NEW p \in Pids
               PROVE  /\ proc'[p].phase = "zombie" => proc'[p].parent # None
                      /\ proc'[p].parent # None => shell'[proc'[p].parent].op = "start"
                      /\ (Daemon(p) \/ proc[p].phase = "closing")' => proc'[p].set \in Sets
    BY EndEffect DEF ProcOK, Daemon
  <2>1. proc'[p].parent # None => proc'[p].parent \in Shells
    BY EndEffect DEF Process
  <2> QED  BY <2>1, EndEffect, IInvParts DEF ProcOK, Process
<1> QED  BY <1>1, <1>2, IInvPartsNext

\* A command moves on, and processes are what they were or have lost what they were.
LEMMA GotoOK ==
  ASSUME IInv, NEW s \in Shells, NEW at \in Steps \ {"idle"}, NEW p \in Pids \cup {None},
         Busy(s), Goto(s, at, p), FilesOK', proc' \in [Pids -> Process],
         \A q \in Pids : \/ proc'[q] = proc[q]
                         \/ proc'[q] = Ended(q)
                         \/ proc'[q] = [proc[q] EXCEPT !.term = "signal"],
         shell[s].op = "start" => at \in Starting,
         shell[s].op = "stop" => at \in Stopping,
         shell[s].op \notin {"status", "reload"},
         at \in {"record", "port", "term", "stopping", "killed"} => p \in Pids
  PROVE  IInv'
<1>0. shell[s].op # "none" /\ shell[s].set \in Sets
  BY DEF IInv, Shaped
<1>1. ShellOK'
  <2>1. CommandOK(shell'[s])
    <3>1. shell'[s] \in Command
      BY <1>0, GotoEffect
    <3> QED  BY <1>0, <3>1, GotoEffect DEF CommandOK
  <2> QED  BY <1>0, <2>1, GotoEffect, IInvParts DEF ShellOK
<1>2. ProcOK'
  <2> SUFFICES ASSUME NEW q \in Pids
               PROVE  /\ proc'[q].phase = "zombie" => proc'[q].parent # None
                      /\ proc'[q].parent # None => shell'[proc'[q].parent].op = "start"
                      /\ (Daemon(q) \/ proc[q].phase = "closing")' => proc'[q].set \in Sets
    BY DEF ProcOK, Daemon
  <2>1. /\ proc[q] \in Process
        /\ proc[q].phase = "zombie" => proc[q].parent # None
        /\ proc[q].parent # None => shell[proc[q].parent].op = "start"
        /\ Daemon(q) \/ proc[q].phase = "closing" => proc[q].set \in Sets
    BY IInvParts DEF ProcOK
  <2>2. \A t \in Shells : shell'[t].op = shell[t].op
    BY <1>0, GotoEffect
  <2>3. proc[q].parent # None => proc[q].parent \in Shells
    BY <2>1 DEF Process
  <2>4. CASE proc'[q] = Ended(q)
    <3>1. Ended(q).parent # None => Ended(q).parent = proc[q].parent
      BY EndedEffect
    <3> QED  BY <2>1, <2>2, <2>3, <2>4, <3>1, EndedEffect DEF Daemon
  <2>5. CASE proc'[q] = proc[q]
    BY <2>1, <2>2, <2>3, <2>5 DEF Daemon
  <2>6. CASE proc'[q] = [proc[q] EXCEPT !.term = "signal"]
    BY <2>1, <2>2, <2>3, <2>6 DEF Daemon, Process
  <2> QED  BY <2>4, <2>5, <2>6
<1> QED  BY <1>1, <1>2, IInvPartsNext

\* Worker processes, users and other programs leave the commands alone.
LEMMA ProcessOK ==
  ASSUME IInv, UNCHANGED shell, FilesOK', proc' \in [Pids -> Process],
         \A p \in Pids : \/ proc'[p] = proc[p]
                         \/ proc'[p] = Ended(p)
                         \/ proc'[p] = NoProcess
                         \/ /\ proc'[p].parent = proc[p].parent
                            /\ proc'[p].phase # "zombie"
                            /\ (Daemon(p) \/ proc[p].phase = "closing")' => proc'[p].set \in Sets
  PROVE  IInv'
<1>1. ProcOK'
  <2> SUFFICES ASSUME NEW q \in Pids
               PROVE  /\ proc'[q].phase = "zombie" => proc'[q].parent # None
                      /\ proc'[q].parent # None => shell[proc'[q].parent].op = "start"
                      /\ (Daemon(q) \/ proc[q].phase = "closing")' => proc'[q].set \in Sets
    BY DEF ProcOK, Daemon
  <2>1. /\ proc[q].phase = "zombie" => proc[q].parent # None
        /\ proc[q].parent # None => shell[proc[q].parent].op = "start"
        /\ Daemon(q) \/ proc[q].phase = "closing" => proc[q].set \in Sets
    BY IInvParts DEF ProcOK
  <2>2. CASE proc'[q] = Ended(q)
    BY <2>1, <2>2, EndedEffect DEF Daemon
  <2>3. CASE proc'[q] = NoProcess
    BY <2>3 DEF NoProcess, Daemon
  <2>4. CASE proc'[q] = proc[q]
    BY <2>1, <2>4 DEF Daemon
  <2>5. CASE /\ proc'[q].parent = proc[q].parent
             /\ proc'[q].phase # "zombie"
             /\ (Daemon(q) \/ proc[q].phase = "closing")' => proc'[q].set \in Sets
    BY <2>1, <2>5
  <2> QED  BY <2>2, <2>3, <2>4, <2>5
<1>2. ShellOK'
  BY IInvParts DEF ShellOK
<1> QED  BY <1>1, <1>2, IInvPartsNext

\* The set a command talks to is one of the sets.
LEMMA ShellSetType ==
  ASSUME NEW c \in Sets, NEW s \in Shells
  PROVE  ShellSet(c, s) \in Sets
<1> DEFINE owners == Overlaps({c}, s)
<1>1. owners \subseteq Sets
  BY DEF Overlaps
<1>2. owners \ {Global} # {} => (CHOOSE d \in owners \ {Global} : TRUE) \in owners
  OBVIOUS
<1> QED  BY <1>1, <1>2 DEF ShellSet, Sets

\* A command that begins is well formed.
LEMMA BeginOK ==
  ASSUME IInv, NEW s \in Shells, NEW op \in {"start", "stop"} \cup Calls, NEW c \in Sets,
         NEW at \in {"refuse", "read", "connect"}, Begin(s, op, c, at),
         op = "start" => at = "refuse", op = "stop" => at = "read",
         op \in Calls => at = "connect"
  PROVE  IInv'
<1> DEFINE x == [op |-> op, set |-> c, at |-> at, pid |-> None]
<1>2. op \in {"start", "stop", "status", "reload"}
  OBVIOUS
<1>3. CommandOK(x) /\ x.op = op
  <2>1. x \in Command /\ x.op = op /\ x.set = c /\ x.at = at /\ x # NoCommand
    BY <1>2 DEF Command, NoCommand, Steps
  <2>2. op \in Calls => op \notin {"start", "stop"}
    OBVIOUS
  <2> HIDE DEF x
  <2> QED  BY <1>2, <2>1, <2>2 DEF CommandOK, Starting, Stopping
<1>4. /\ shell' = [shell EXCEPT ![s] = x]
      /\ UNCHANGED <<list, files, proc, count>>
  BY DEF Begin
<1>5. shell[s] = NoCommand /\ shell[s].op = "none"
  BY DEF Begin, Busy, IInv, TypeOK, NoCommand
<1>6. ShellOK'
  BY <1>3, <1>4, IInvParts DEF ShellOK, CommandOK
<1>7. FilesOK'
  BY <1>4, IInvParts DEF FilesOK, files
<1>8. ProcOK'
  <2> SUFFICES ASSUME NEW p \in Pids, proc[p].parent # None
               PROVE  shell'[proc[p].parent].op = "start"
    BY <1>4, IInvParts DEF ProcOK, Daemon
  <2>1. proc[p].parent \in Shells /\ shell[proc[p].parent].op = "start"
    BY IInvParts DEF ProcOK, Process
  <2> QED  BY <1>4, <1>5, <2>1, IInvParts DEF ShellOK
<1> QED  BY <1>6, <1>7, <1>8, IInvPartsNext

\* The invariant holds at first.
LEMMA InitInv == Init => IInv
<1> SUFFICES ASSUME Init PROVE IInv
  OBVIOUS
<1>1. FilesOK
  BY DEF Init, FilesOK
<1>2. ProcOK
  BY DEF Init, ProcOK, NoProcess, Process, Phases, Daemon
<1>3. ShellOK
  BY IdleOK DEF Init, ShellOK, CommandOK
<1> QED  BY <1>1, <1>2, <1>3, IInvParts

\* The steps of a start keep it.
LEMMA StartInv ==
  ASSUME IInv, NEW s \in Shells, StartSteps(s) PROVE IInv'
<1> DEFINE c == shell[s].set
<1>0. FilesOK /\ ProcOK /\ ShellOK
  BY IInvParts
<1>1. \A at \in Starting : at \in Steps \ {"idle"}
  BY DEF Starting, Steps
<1>2. ASSUME shell[s].op = "start"
      PROVE  c \in Sets /\ Busy(s) /\ shell[s].op \notin {"stop", "status", "reload", "none"}
  BY <1>2 DEF IInv, TypeOK, Shaped, Busy, NoCommand
<1>3. CASE Refuse(s)
  <2>1. FilesOK'
    BY <1>0, <1>3 DEF Refuse, FilesOK, files
  <2> QED  BY <1>1, <1>2, <1>3, <2>1, EndOK, GotoOK, <1>0 DEF Refuse, At, Starting, ProcOK
<1>4. CASE Ingest(s)
  <2>1. FilesOK'
    BY <1>0, <1>2, <1>4 DEF Ingest, At, FilesOK, files, MappingFiles, Sets
  <2> QED  BY <1>1, <1>2, <1>4, <2>1, EndOK, GotoOK, <1>0 DEF Ingest, At, Starting, ProcOK
<1>5. CASE Spawn(s)
  <2>1. FilesOK'
    BY <1>0, <1>2, <1>5 DEF Spawn, At, FilesOK, files, MappingFiles, Sets
  <2> QED  BY <1>1, <1>2, <1>5, <2>1, EndOK, GotoOK, <1>0 DEF Spawn, At, Starting, ProcOK
<1>6. CASE Popen(s)
  <2>1. FilesOK'
    BY <1>0, <1>6 DEF Popen, FilesOK, files
  <2>2. CASE End(s)
    BY <2>1, <2>2, EndOK
  <2>3. CASE ~End(s)
    <3> DEFINE new == [NoProcess EXCEPT !.phase = "starting", !.set = c, !.parent = s]
    <3>1. PICK p \in Pids : /\ proc[p].phase = "free"
                            /\ proc' = [proc EXCEPT ![p] = new] /\ Goto(s, "record", p)
      BY <1>6, <2>3 DEF Popen
    <3>2. new \in Process /\ new.phase = "starting" /\ new.set = c /\ new.parent = s
      BY <1>2, <1>6 DEF Popen, At, NoProcess, Process, Phases
    <3>3. /\ shell' \in [Shells -> Command]
          /\ \A t \in Shells : t # s => shell'[t] = shell[t]
          /\ shell'[s].op = "start" /\ shell'[s].set = c
          /\ shell'[s].at = "record" /\ shell'[s].pid = p /\ shell'[s] # NoCommand
      BY <1>1, <1>2, <1>6, <3>1, GotoEffect DEF Popen, At, Starting
    <3>4. ShellOK'
      BY <1>0, <1>2, <1>6, <3>3 DEF ShellOK, CommandOK, Starting, Popen, At
    <3>5. ProcOK'
      <4> SUFFICES ASSUME NEW q \in Pids
                   PROVE  /\ proc'[q].phase = "zombie" => proc'[q].parent # None
                          /\ proc'[q].parent # None => shell'[proc'[q].parent].op = "start"
                          /\ (Daemon(q) \/ proc[q].phase = "closing")' => proc'[q].set \in Sets
        BY <1>0, <3>1, <3>2 DEF ProcOK, Daemon
      <4> HIDE DEF new
      <4>1. CASE q = p
        BY <1>0, <1>2, <1>6, <3>1, <3>2, <3>3, <4>1 DEF ProcOK, Popen, At
      <4>2. CASE q # p
        <5>1. proc'[q] = proc[q] /\ (proc[q].parent # None => proc[q].parent \in Shells)
          BY <1>0, <3>1, <4>2 DEF ProcOK, Process
        <5> QED  BY <1>0, <1>6, <3>3, <5>1 DEF ProcOK, Daemon, Popen, At
      <4> QED  BY <4>1, <4>2
    <3> QED  BY <2>1, <3>4, <3>5, IInvPartsNext
  <2> QED  BY <2>2, <2>3
<1>7. CASE WritePid(s)
  <2>1. shell[s].pid \in Pids
    BY <1>7 DEF WritePid, At, IInv, Shaped
  <2>2. FilesOK'
    BY <1>0, <1>2, <1>7, <2>1 DEF WritePid, At, FilesOK, files
  <2> QED  BY <1>1, <1>2, <1>7, <2>1, <2>2, GotoOK, <1>0 DEF WritePid, At, Starting, ProcOK
<1>8. CASE PortSeen(s)
  <2>1. FilesOK' /\ pidFile[c] \in Pids \cup {None}
    BY <1>0, <1>2, <1>8 DEF PortSeen, At, FilesOK, files
  <2> QED  BY <1>1, <1>2, <1>8, <2>1, GotoOK, <1>0 DEF PortSeen, At, Starting, ProcOK
<1>9. CASE PortFails(s)
  <2>1. count' \in [{"edits", "lost", "faults", "foreign"} -> Nat]
    BY <1>0, <1>9, HappensOK DEF PortFails, FilesOK
  <2>2. FilesOK'
    BY <1>0, <1>2, <1>9, <2>1, ClearOK DEF PortFails, At, FilesOK
  <2> QED  BY <1>9, <2>2, EndOK DEF PortFails
<1>10. CASE StartAnswered(s)
  <2>1. FilesOK'
    <3>1. UNCHANGED files \/ Clear(c)
      BY <1>10 DEF StartAnswered
    <3> QED  BY <1>0, <1>2, <1>10, <3>1, ClearOK DEF StartAnswered, At, FilesOK, files
  <2> QED  BY <1>1, <1>2, <1>10, <2>1, EndOK, GotoOK, <1>0 DEF StartAnswered, At, Starting, ProcOK
<1>11. CASE StartFails(s)
  <2>1. count' \in [{"edits", "lost", "faults", "foreign"} -> Nat]
    BY <1>0, <1>11, HappensOK DEF StartFails, FilesOK
  <2>2. FilesOK'
    BY <1>0, <1>2, <1>11, <2>1, ClearOK DEF StartFails, At, FilesOK
  <2> QED  BY <1>11, <2>2, EndOK DEF StartFails
<1> QED  BY <1>3, <1>4, <1>5, <1>6, <1>7, <1>8, <1>9, <1>10, <1>11 DEF StartSteps

\* The steps of a stop keep it.
LEMMA StopInv ==
  ASSUME IInv, NEW s \in Shells, StopSteps(s) PROVE IInv'
<1> DEFINE c == shell[s].set
<1>0. FilesOK /\ ProcOK /\ ShellOK
  BY IInvParts
<1>1. \A at \in Stopping : at \in Steps \ {"idle"}
  BY DEF Stopping, Steps
<1>2. ASSUME shell[s].op = "stop"
      PROVE  c \in Sets /\ Busy(s) /\ shell[s].op \notin {"start", "status", "reload", "none"}
  BY <1>2 DEF IInv, TypeOK, Shaped, Busy, NoCommand
<1>3. CASE ReadPid(s)
  <2>1. FilesOK'
    <3>1. UNCHANGED files \/ Clear(c)
      BY <1>3 DEF ReadPid
    <3> QED  BY <1>0, <1>2, <1>3, <3>1, ClearOK DEF ReadPid, At, FilesOK, files
  <2>2. IsRunning(c, s) => pidFile[c] \in Pids
    BY <1>0, <1>2, <1>3 DEF ReadPid, At, IsRunning, FilesOK
  <2> QED  BY <1>1, <1>2, <1>3, <2>1, <2>2, EndOK, GotoOK, <1>0 DEF ReadPid, At, Stopping, ProcOK
<1>4. CASE Terminate(s)
  <2>1. shell[s].pid \in Pids
    BY <1>4 DEF Terminate, At, IInv, Shaped
  <2>2. FilesOK'
    BY <1>0, <1>4 DEF Terminate, FilesOK, files
  <2>3. /\ proc' \in [Pids -> Process]
        /\ \A q \in Pids : \/ proc'[q] = proc[q]
                           \/ proc'[q] = Ended(q)
                           \/ proc'[q] = [proc[q] EXCEPT !.term = "signal"]
    <3>1. \/ proc' = [proc EXCEPT ![shell[s].pid] = Ended(shell[s].pid)]
          \/ proc' = [proc EXCEPT ![shell[s].pid].term = "signal"]
          \/ proc' = proc
      BY <1>4 DEF Terminate
    <3>2. Ended(shell[s].pid) \in Process
      BY <2>1, EndedEffect
    <3> QED  BY <1>0, <2>1, <3>1, <3>2 DEF ProcOK, Process
  <2> QED  BY <1>1, <1>2, <1>4, <2>1, <2>2, <2>3, GotoOK DEF Terminate, At, Stopping
<1>5. CASE Stopped(s)
  <2>1. FilesOK'
    BY <1>0, <1>2, <1>5, ClearOK DEF Stopped, FilesOK
  <2> QED  BY <1>5, <2>1, EndOK DEF Stopped
<1>6. CASE Kill(s)
  <2>1. shell[s].pid \in Pids
    BY <1>6 DEF Kill, At, IInv, Shaped
  <2>2. FilesOK'
    BY <1>0, <1>6 DEF Kill, FilesOK, files
  <2>3. /\ proc' \in [Pids -> Process]
        /\ \A q \in Pids : proc'[q] = proc[q] \/ proc'[q] = Ended(q)
    BY <1>0, <1>6, <2>1, EndedEffect DEF Kill, ProcOK
  <2> QED  BY <1>1, <1>2, <1>6, <2>1, <2>2, <2>3, GotoOK DEF Kill, At, Stopping
<1> QED  BY <1>3, <1>4, <1>5, <1>6 DEF StopSteps

\* An answered or failed call keeps it.
LEMMA CallInv ==
  ASSUME IInv, NEW s \in Shells, CallSteps(s) PROVE IInv'
<1>0. FilesOK /\ ProcOK /\ ShellOK
  BY IInvParts
<1>1. /\ shell[s].at = "connect" /\ shell' = [shell EXCEPT ![s] = NoCommand]
      /\ UNCHANGED <<list, pidFile, portFile, recorded, count>>
  BY DEF CallSteps, CallAnswered, CallFails, files
<1>2. shell[s].op # "start"
  BY <1>0, <1>1 DEF ShellOK, CommandOK, Starting
<1>7. MappingFiles(shell[s].set) \subseteq Files
  BY <1>0, <1>1 DEF MappingFiles, FilesOK, ShellOK, CommandOK, Sets
<1>3. FilesOK'
  BY <1>0, <1>1, <1>7 DEF FilesOK, files, CallSteps, CallAnswered, CallFails
<1>4. ShellOK'
  BY <1>0, <1>1, IdleOK DEF ShellOK, CommandOK
<1>5. /\ proc' \in [Pids -> Process]
      /\ \A p \in Pids : /\ proc'[p].phase = proc[p].phase
                         /\ proc'[p].parent = proc[p].parent
                         /\ proc'[p].set = proc[p].set
  <2>1. CASE CallFails(s)
    BY <1>0, <2>1 DEF CallFails, ProcOK
  <2>2. CASE CallAnswered(s)
    <3>2. \/ proc' = proc
          \/ proc' = [proc EXCEPT ![portFile[shell[s].set]].loaded = MappingFiles(shell[s].set)]
      BY <2>2 DEF CallAnswered
    <3> QED  BY <1>0, <1>7, <3>2 DEF ProcOK, Process
  <2> QED  BY <2>1, <2>2 DEF CallSteps
<1>6. ProcOK'
  <2> SUFFICES ASSUME NEW p \in Pids
               PROVE  /\ proc'[p].phase = "zombie" => proc'[p].parent # None
                      /\ proc'[p].parent # None => shell'[proc'[p].parent].op = "start"
                      /\ (Daemon(p) \/ proc[p].phase = "closing")' => proc'[p].set \in Sets
    BY <1>5 DEF ProcOK, Daemon
  <2>1. proc[p].parent # None => proc[p].parent \in Shells \ {s}
    BY <1>0, <1>2 DEF ProcOK, Process
  <2> QED  BY <1>0, <1>1, <1>5, <2>1 DEF ProcOK, ShellOK, Daemon
<1> QED  BY <1>3, <1>4, <1>6, IInvPartsNext

\* A new command keeps it.
LEMMA BeginInv ==
  ASSUME IInv, NEW s \in Shells, BeginSteps(s) PROVE IInv'
<1>1. PICK c \in Sets : \/ BeginStart(s, c) \/ BeginStop(s, c)
                        \/ \E op \in Calls : BeginCall(s, op, c)
  BY DEF BeginSteps
<1>2. ShellSet(c, s) \in Sets
  BY ShellSetType
<1> QED  BY <1>1, <1>2, BeginOK DEF BeginStart, BeginStop, BeginCall

\* Ctrl-C keeps it.
LEMMA InterruptInv ==
  ASSUME IInv, NEW s \in Shells, Interrupt(s) PROVE IInv'
<1>1. FilesOK
  BY IInvParts
<1>2. count' \in [{"edits", "lost", "faults", "foreign"} -> Nat]
  BY <1>1, HappensOK DEF Interrupt, FilesOK
<1>3. FilesOK'
  BY <1>1, <1>2 DEF Interrupt, FilesOK, files
<1> QED  BY <1>3, EndOK DEF Interrupt

\* The steps, the death and the successors of a process keep it.
LEMMA WorkerInv ==
  ASSUME IInv, NEW p \in Pids, WorkerSteps(p) \/ Crash(p) \/ Foreign(p) PROVE IInv'
<1>0. FilesOK /\ ProcOK
  BY IInvParts
<1>1. CASE Bind(p)
  <2>1. FilesOK'
    BY <1>0, <1>1 DEF Bind, FilesOK, ProcOK, Daemon
  <2> QED  BY <1>0, <1>1, <2>1, ProcessOK DEF Bind, ProcOK, Daemon, Process, Phases
<1>2. CASE Load(p)
  <2>2. proc[p].set \in Sets /\ MappingFiles(proc[p].set) \subseteq Files
    BY <1>0, <1>2 DEF Load, MappingFiles, FilesOK, ProcOK, Daemon, Sets
  <2>1. FilesOK'
    BY <1>0, <1>2, <2>2 DEF Load, FilesOK
  <2> QED  BY <1>0, <1>2, <2>1, <2>2, ProcessOK DEF Load, FilesOK, ProcOK, Daemon, Process, Phases
<1>3. CASE Ready(p)
  <2>1. FilesOK'
    BY <1>0, <1>3 DEF Ready, FilesOK, files
  <2> QED  BY <1>0, <1>3, <2>1, ProcessOK DEF Ready, ProcOK, Daemon, Process, Phases
<1>4. CASE Unbind(p)
  <2>1. FilesOK'
    BY <1>0, <1>4 DEF Unbind, FilesOK, ProcOK, Daemon
  <2> QED  BY <1>0, <1>4, <2>1, ProcessOK DEF Unbind, ProcOK, Daemon, Process, Phases
<1>5. CASE Exit(p)
  <2>1. FilesOK'
    BY <1>0, <1>5 DEF Exit, FilesOK, files
  <2> QED  BY <1>0, <1>5, <2>1, ProcessOK, EndedEffect DEF Exit, ProcOK
<1>6. CASE Crash(p)
  <2>1. FilesOK'
    BY <1>0, <1>6, HappensOK DEF Crash, FilesOK, files
  <2> QED  BY <1>0, <1>6, <2>1, ProcessOK, EndedEffect DEF Crash, ProcOK
<1>7. CASE Foreign(p)
  <2>1. count' \in [{"edits", "lost", "faults", "foreign"} -> Nat]
    BY <1>0, <1>7, HappensOK DEF Foreign, FilesOK
  <2>2. FilesOK'
    BY <1>0, <1>7, <2>1 DEF Foreign, FilesOK, files
  <2>3. NoProcess \in Process
    BY DEF NoProcess, Process, Phases
  <2> QED  BY <1>0, <1>7, <2>2, <2>3, ProcessOK DEF Foreign, ProcOK, Daemon, Process, Phases
<1> QED  BY <1>1, <1>2, <1>3, <1>4, <1>5, <1>6, <1>7 DEF WorkerSteps

\* An edit of the pointer list keeps it.
LEMMA EditListInv == ASSUME IInv, EditList PROVE IInv'
<1>1. FilesOK /\ ProcOK
  BY IInvParts
<1>2. FilesOK'
  BY <1>1, HappensOK DEF EditList, FilesOK, files
<1> QED  BY <1>1, <1>2, ProcessOK DEF EditList, ProcOK

\* Every step keeps the invariant.
LEMMA NextInv == IInv /\ [Next]_vars => IInv'
<1>1. ASSUME IInv, UNCHANGED vars PROVE IInv'
  BY <1>1, IInvParts, IInvPartsNext
     DEF vars, files, FilesOK, ProcOK, ShellOK, CommandOK, Daemon
<1> QED  BY <1>1, BeginInv, StartInv, StopInv, CallInv, InterruptInv, WorkerInv, EditListInv DEF Next

\* It holds in every reachable state.
LEMMA SpecIInv == Spec => []IInv
BY InitInv, NextInv, PTL DEF Spec

\* Every reachable state is well formed, however commands overlap and whatever dies:
\* a zombie has a parent to reap it, and only an open start has children.
THEOREM TypeCorrect == Spec => []TypeOK
<1>1. IInv => TypeOK
  BY DEF IInv
<1> QED  BY <1>1, SpecIInv, PTL

-----------------------------------------------------------------------------
\* SInv, step by step: what writes neither commands nor the pid files.

\* Steps that write neither commands nor pid files and make no daemon.
LEMMA AsideS ==
  ASSUME SInv, IInv', shell' = shell, pidFile' = pidFile,
         \A p \in Pids : Daemon(p)' => /\ Daemon(p)
                                       /\ proc'[p].set = proc[p].set
                                       /\ proc'[p].parent = proc[p].parent
  PROVE  SInv'
<1>1. Serial'
  BY DEF SInv, Serial, Writes
<1>2. Remembered'
  <2>1. \A s \in Shells : shell[s].at = "killed" => shell[s].pid \in Pids
    BY DEF SInv, IInv, Shaped
  <2> QED  BY <2>1 DEF SInv, Remembered
<1>3. Named'
  BY DEF SInv, Named, JustSpawned
<1>4. Children'
  BY DEF SInv, Children
<1> QED  BY <1>1, <1>2, <1>3, <1>4 DEF SInv

\* A command that has nothing to write ends.
LEMMA LeavesS ==
  ASSUME SInv, IInv', NEW s \in Shells, shell[s].at # "record", pidFile' = pidFile,
         shell'[s] = NoCommand, \A t \in Shells : t # s => shell'[t] = shell[t],
         \A p \in Pids : Daemon(p)' =>
           /\ Daemon(p)
           /\ proc'[p].set = proc[p].set
           /\ proc'[p].parent # s
           /\ proc[p].parent # s => proc'[p].parent = proc[p].parent
           /\ proc'[p].parent # None => proc'[p].parent = proc[p].parent
  PROVE  SInv'
<1>1. \A t \in Shells : Writes(t)' => t # s
  BY DEF Writes, NoCommand
<1>2. Serial'
  BY <1>1 DEF SInv, Serial, Writes
<1>3. Remembered'
  <2> SUFFICES ASSUME NEW t \in Shells, t # s
               PROVE  LET c == shell[t].set
                          p == shell[t].pid
                      IN  /\ shell[t].at \in {"popen", "record"} => pidFile[c] = None
                          /\ shell[t].at \in {"port", "wait"} => pidFile[c] = p /\ p # None
                          /\ shell[t].at \in {"term", "stopping", "killed"} => pidFile[c] = p
                          /\ shell[t].at = "killed" => ~Daemon(p)'
    BY DEF Remembered, NoCommand, Daemon
  <2>1. shell[t].at = "killed" => shell[t].pid \in Pids
    BY DEF SInv, IInv, Shaped
  <2> QED  BY <2>1 DEF SInv, Remembered
<1>4. Named'
  <2> SUFFICES ASSUME NEW p \in Pids, Daemon(p)', pidFile[proc[p].set] # p
               PROVE  JustSpawned(p)'
    BY DEF Named
  <2>1. PICK t \in Shells :
          /\ proc[p].parent = t
          /\ shell[t].at = "record" /\ shell[t].pid = p /\ shell[t].set = proc[p].set
    BY DEF SInv, Named, JustSpawned
  <2>2. t # s
    BY <2>1
  <2> QED  BY <2>1, <2>2 DEF JustSpawned
<1>5. Children'
  <2> SUFFICES ASSUME NEW p \in Pids, NEW t \in Shells, Daemon(p)', proc'[p].parent = t
               PROVE  /\ shell'[t].at \in {"record", "port", "wait", "screen"}
                      /\ shell'[t].set = proc'[p].set
    BY DEF Children
  <2>1. t # s /\ t # None /\ proc[p].parent = t
    OBVIOUS
  <2> QED  BY <2>1 DEF SInv, Children
<1> QED  BY <1>2, <1>3, <1>4, <1>5 DEF SInv

\* A command ends and clears the files of a set that has no daemon.
LEMMA ClearsS ==
  ASSUME SInv, IInv', NEW s \in Shells, Writes(s), shell[s].at # "record",
         End(s), Clear(shell[s].set),
         \A p \in Pids : Daemon(p) => proc[p].set # shell[s].set
  PROVE  SInv'
<1>0. IInv /\ shell[s].set \in Sets
  BY DEF SInv, IInv, Shaped, TypeOK, Busy, Writes, NoCommand
<1>1. \A t \in Shells : t # s => ~Writes(t) /\ shell'[t] = shell[t]
  BY <1>0, EndEffect DEF SInv, Serial
<1>2. \A t \in Shells : ~Writes(t)'
  BY <1>0, <1>1, EndEffect DEF Writes, NoCommand
<1>3. Serial'
  BY <1>2 DEF Serial
<1>4. \A t \in Shells : shell'[t].at \notin
        {"popen", "record", "port", "wait", "term", "stopping", "killed"}
  BY <1>2 DEF IInv, Shaped, TypeOK, Writes, Starting, Stopping, Busy, Command
<1>5. Remembered'
  BY <1>4 DEF Remembered
<1>6. Named'
  <2> SUFFICES ASSUME NEW p \in Pids, Daemon(p)' PROVE pidFile'[proc'[p].set] = p
    BY DEF Named
  <2>1. Daemon(p) /\ proc'[p].set = proc[p].set /\ proc[p].set # shell[s].set
    BY <1>0, EndEffect
  <2>2. pidFile[proc[p].set] = p
    <3>1. ~JustSpawned(p)
      BY <1>1 DEF JustSpawned, SInv, IInv, Shaped, Writes, Stopping, TypeOK, Command, Busy
    <3> QED  BY <2>1, <3>1 DEF SInv, Named
  <2>3. proc[p].set \in Sets /\ pidFile \in [Sets -> Pids \cup {None}]
    BY <1>0, <2>1 DEF IInv, Shaped, TypeOK
  <2> QED  BY <1>0, <2>1, <2>2, <2>3 DEF Clear
<1>7. Children'
  <2> SUFFICES ASSUME NEW p \in Pids, NEW t \in Shells, Daemon(p)', proc'[p].parent = t
               PROVE  /\ shell'[t].at \in {"record", "port", "wait", "screen"}
                      /\ shell'[t].set = proc'[p].set
    BY DEF Children
  <2>1. t # s /\ t # None /\ proc[p].parent = t /\ Daemon(p) /\ proc'[p].set = proc[p].set
    BY <1>0, EndEffect
  <2> QED  BY <1>1, <2>1 DEF SInv, Children
<1> QED  BY <1>3, <1>5, <1>6, <1>7 DEF SInv

\* The only writer: whoever else has a command left is neither starting nor stopping.
LEMMA OnlyWriter ==
  ASSUME SInv, NEW s \in Shells, Writes(s), NEW t \in Shells, t # s
  PROVE  shell[t].at \notin {"refuse", "ingest", "spawn", "popen", "record", "port", "wait",
                             "read", "term", "stopping", "killed"}
BY DEF SInv, IInv, TypeOK, Shaped, Serial, Writes, Busy, Command

\* With no start at its record step, every daemon is named by its set's pid file.
LEMMA DaemonNamed ==
  ASSUME SInv, NEW s \in Shells, Writes(s), shell[s].at # "record", NEW p \in Pids, Daemon(p)
  PROVE  /\ pidFile[proc[p].set] = p
         /\ IsRunning(proc[p].set, s)
<1>1. ~JustSpawned(p)
  BY OnlyWriter DEF JustSpawned
<1>2. pidFile[proc[p].set] = p
  BY <1>1 DEF SInv, Named
<1> QED  BY <1>2 DEF IsRunning, Alive, Daemon

\* A start or stop moves on and writes nothing.
LEMMA MovesS ==
  ASSUME SInv, IInv', NEW s \in Shells, NEW at \in Steps \ {"idle"}, NEW p \in Pids \cup {None},
         Writes(s), Goto(s, at, p), pidFile' = pidFile,
         shell[s].at # "record", at \notin {"popen", "record"},
         at \in {"port", "wait"} => pidFile[shell[s].set] = p /\ p # None,
         at \in {"term", "stopping", "killed"} => pidFile[shell[s].set] = p,
         shell[s].at \in {"port", "wait"} => at \in {"port", "wait", "screen"},
         \A q \in Pids : Daemon(q)' => /\ Daemon(q) /\ (at = "killed" => q # p)
                                       /\ proc'[q].set = proc[q].set
                                       /\ proc'[q].parent = proc[q].parent
  PROVE  SInv'
<1>0. /\ IInv /\ shell[s].op # "none"
      /\ \A t \in Shells : t # s => shell'[t] = shell[t]
      /\ shell'[s].op = shell[s].op /\ shell'[s].set = shell[s].set
      /\ shell'[s].at = at /\ shell'[s].pid = p
  BY GotoEffect DEF SInv, Writes
<1>1. \A t \in Shells : t # s => ~Writes(t)
  BY DEF SInv, Serial
<1>2. Serial'
  BY <1>0, <1>1 DEF Serial, Writes
<1>3. Remembered'
  <2> SUFFICES ASSUME NEW t \in Shells
               PROVE  LET c == shell'[t].set
                          q == shell'[t].pid
                      IN  /\ shell'[t].at \in {"popen", "record"} => pidFile[c] = None
                          /\ shell'[t].at \in {"port", "wait"} => pidFile[c] = q /\ q # None
                          /\ shell'[t].at \in {"term", "stopping", "killed"} => pidFile[c] = q
                          /\ shell'[t].at = "killed" =>
                               proc'[q].phase \notin {"starting", "bound", "ready"}
    BY DEF Remembered, Daemon
  <2>1. CASE t # s
    BY <1>0, <2>1, OnlyWriter
  <2>2. CASE t = s
    <3>1. at = "killed" => p \in Pids
      BY <1>0 DEF IInv, Shaped
    <3> QED  BY <1>0, <2>2, <3>1 DEF Daemon
  <2> QED  BY <2>1, <2>2
<1>4. Named'
  BY DaemonNamed DEF Named
<1>5. Children'
  <2> SUFFICES ASSUME NEW q \in Pids, NEW t \in Shells, Daemon(q)', proc'[q].parent = t
               PROVE  /\ shell'[t].at \in {"record", "port", "wait", "screen"}
                      /\ shell'[t].set = proc'[q].set
    BY DEF Children
  <2>1. /\ Daemon(q) /\ proc[q].parent = t /\ proc'[q].set = proc[q].set
        /\ shell[t].at \in {"record", "port", "wait", "screen"} /\ shell[t].set = proc[q].set
    BY DEF SInv, Children
  <2>2. shell[s].at # "screen"
    BY DEF Writes
  <2> QED  BY <1>0, <2>1, <2>2
<1> QED  BY <1>2, <1>3, <1>4, <1>5 DEF SInv

\* A start or stop begins only when there is no other.
LEMMA BeginS ==
  ASSUME SInv, IInv', OneAtATime, NEW s \in Shells, BeginSteps(s) PROVE SInv'
<1>1. PICK op \in {"start", "stop"} \cup Calls, c \in Sets, at \in {"refuse", "read", "connect"} :
        Begin(s, op, c, at)
  BY ShellSetType DEF BeginSteps, BeginStart, BeginStop, BeginCall
<1>2. /\ shell'[s] = [op |-> op, set |-> c, at |-> at, pid |-> None]
      /\ \A t \in Shells : t # s => shell'[t] = shell[t]
      /\ UNCHANGED <<pidFile, proc>>
      /\ shell[s].at = "idle"
      /\ op \in {"start", "stop"} => \A t \in Shells : ~Writes(t)
  BY <1>1 DEF Begin, Busy, OneAtATime, SInv, IInv, TypeOK, files
<1>3. Serial'
  BY <1>2 DEF SInv, Serial, Writes
<1>4. Remembered'
  BY <1>2 DEF SInv, Remembered, Daemon
<1>5. Named'
  BY <1>2 DEF SInv, Named, JustSpawned, Daemon
<1>6. Children'
  BY <1>2 DEF SInv, Children, Daemon
<1> QED  BY <1>3, <1>4, <1>5, <1>6 DEF SInv

\* A command that ends without writing.
LEMMA EndS ==
  ASSUME SInv, IInv', NEW s \in Shells, shell[s].at # "record", End(s), UNCHANGED files
  PROVE  SInv'
<1>1. \A p \in Pids : Daemon(p)' =>
           /\ Daemon(p)
           /\ proc'[p].set = proc[p].set
           /\ proc'[p].parent # s
           /\ proc[p].parent # s => proc'[p].parent = proc[p].parent
           /\ proc'[p].parent # None => proc'[p].parent = proc[p].parent
  BY EndEffect DEF SInv
<1> QED  BY <1>1, EndEffect, LeavesS DEF SInv, files

\* The steps of Popen and WritePid, which give a set a daemon and its name.
LEMMA PopenS ==
  ASSUME SInv, IInv', NEW s \in Shells, Popen(s) PROVE SInv'
<1> DEFINE c == shell[s].set
<1>0. /\ IInv /\ shell[s].op = "start" /\ shell[s].at = "popen" /\ Writes(s)
      /\ c \in Sets /\ pidFile' = pidFile
  BY DEF SInv, IInv, Shaped, Busy, Popen, At, Writes, files
<1>1. CASE End(s)
  BY <1>0, <1>1, EndS DEF Popen
<1>2. CASE ~End(s)
  <2>1. PICK p \in Pids :
          /\ proc' = [proc EXCEPT ![p] = [NoProcess EXCEPT !.phase = "starting",
                                                           !.set = c, !.parent = s]]
          /\ Goto(s, "record", p)
    BY <1>2 DEF Popen
  <2>2. /\ proc'[p].set = c /\ proc'[p].parent = s
        /\ \A q \in Pids : q # p => proc'[q] = proc[q]
    BY <1>0, <2>1 DEF IInv, TypeOK, NoProcess
  <2>3. /\ \A t \in Shells : t # s => shell'[t] = shell[t]
        /\ shell'[s].op = "start" /\ shell'[s].set = c
        /\ shell'[s].at = "record" /\ shell'[s].pid = p
    BY <1>0, <2>1, GotoEffect DEF Steps
  <2>4. \A t \in Shells : t # s => ~Writes(t)
    BY <1>0 DEF SInv, Serial
  <2>5. Serial'
    BY <2>3, <2>4 DEF Serial, Writes
  <2>6. Remembered'
    BY <1>0, <2>3, OnlyWriter DEF SInv, Remembered
  <2>7. Named'
    <3> SUFFICES ASSUME NEW q \in Pids, Daemon(q)'
                 PROVE  pidFile'[proc'[q].set] = q \/ JustSpawned(q)'
      BY DEF Named
    <3>1. CASE q = p
      BY <2>2, <2>3, <3>1 DEF JustSpawned
    <3>2. CASE q # p
      BY <1>0, <2>2, <3>2, DaemonNamed DEF Daemon
    <3> QED  BY <3>1, <3>2
  <2>8. Children'
    <3> SUFFICES ASSUME NEW q \in Pids, NEW t \in Shells, Daemon(q)', proc'[q].parent = t
                 PROVE  /\ shell'[t].at \in {"record", "port", "wait", "screen"}
                        /\ shell'[t].set = proc'[q].set
      BY DEF Children
    <3>1. CASE q = p
      BY <2>2, <2>3, <3>1
    <3>2. CASE q # p
      <4>1. Daemon(q) /\ proc[q].parent = t /\ proc'[q] = proc[q]
        BY <2>2, <3>2 DEF Daemon
      <4>2. shell[t].at \in {"record", "port", "wait", "screen"} /\ shell[t].set = proc[q].set
        BY <4>1 DEF SInv, Children
      <4> QED  BY <1>0, <2>3, <4>1, <4>2
    <3> QED  BY <3>1, <3>2
  <2> QED  BY <2>5, <2>6, <2>7, <2>8 DEF SInv
<1> QED  BY <1>1, <1>2

\* The name is written where no other stood, for the only daemon of the set.
LEMMA WritePidS ==
  ASSUME SInv, IInv', NEW s \in Shells, WritePid(s) PROVE SInv'
<1> DEFINE c == shell[s].set
           p == shell[s].pid
<1>0. /\ IInv /\ shell[s].op = "start" /\ shell[s].at = "record" /\ Writes(s)
      /\ c \in Sets /\ p \in Pids /\ pidFile[c] = None
      /\ proc' = proc /\ pidFile' = [pidFile EXCEPT ![c] = p]
      /\ pidFile \in [Sets -> Pids \cup {None}]
  BY DEF SInv, IInv, TypeOK, Shaped, Busy, Remembered, WritePid, At, Writes
<1>1. /\ \A t \in Shells : t # s => shell'[t] = shell[t]
      /\ shell'[s].op = "start" /\ shell'[s].set = c
      /\ shell'[s].at = "port" /\ shell'[s].pid = p
  BY <1>0, GotoEffect DEF Steps, WritePid
<1>2. \A t \in Shells : t # s => ~Writes(t)
  BY <1>0 DEF SInv, Serial
<1>3. Serial'
  BY <1>1, <1>2 DEF Serial, Writes
<1>4. Remembered'
  BY <1>0, <1>1, OnlyWriter DEF SInv, Remembered
<1>5. Named'
  <2> SUFFICES ASSUME NEW q \in Pids, Daemon(q) PROVE pidFile'[proc[q].set] = q
    BY <1>0 DEF Named, Daemon
  <2>1. CASE JustSpawned(q)
    <3>1. proc[q].set = c /\ q = p
      BY <1>0, <2>1, OnlyWriter DEF JustSpawned
    <3> QED  BY <1>0, <3>1
  <2>2. CASE pidFile[proc[q].set] = q
    BY <1>0, <2>2
  <2> QED  BY <2>1, <2>2 DEF SInv, Named
<1>6. Children'
  BY <1>0, <1>1 DEF SInv, Children, Daemon
<1> QED  BY <1>3, <1>4, <1>5, <1>6 DEF SInv

\* A start that found the set not running clears what a dead worker left.
LEMMA SpawnS ==
  ASSUME SInv, IInv', NEW s \in Shells, Spawn(s) PROVE SInv'
<1> DEFINE c == shell[s].set
<1>0. /\ IInv /\ shell[s].op = "start" /\ shell[s].at = "spawn" /\ Writes(s) /\ c \in Sets
      /\ pidFile \in [Sets -> Pids \cup {None}]
  BY DEF SInv, IInv, TypeOK, Shaped, Busy, Spawn, At, Writes
<1>1. CASE IsRunning(c, s)
  BY <1>0, <1>1, EndS DEF Spawn
<1>2. CASE ~IsRunning(c, s)
  <2>1. /\ Goto(s, "popen", None) /\ proc' = proc
        /\ pidFile' = [pidFile EXCEPT ![c] = None]
    BY <1>2 DEF Spawn
  <2>2. /\ \A t \in Shells : t # s => shell'[t] = shell[t]
        /\ shell'[s].op = "start" /\ shell'[s].set = c
        /\ shell'[s].at = "popen" /\ shell'[s].pid = None
    BY <1>0, <2>1, GotoEffect DEF Steps
  <2>3. \A p \in Pids : Daemon(p) => proc[p].set # c
    BY <1>0, <1>2, DaemonNamed
  <2>4. \A t \in Shells : t # s => ~Writes(t)
    BY <1>0 DEF SInv, Serial
  <2>5. Serial'
    BY <2>2, <2>4 DEF Serial, Writes
  <2>6. Remembered'
    BY <1>0, <2>1, <2>2, OnlyWriter DEF Remembered
  <2>7. Named'
    <3> SUFFICES ASSUME NEW p \in Pids, Daemon(p) PROVE pidFile'[proc[p].set] = p
      BY <2>1 DEF Named, Daemon
    <3>1. pidFile[proc[p].set] = p /\ proc[p].set # c
      BY <1>0, <2>3, DaemonNamed
    <3> QED  BY <1>0, <2>1, <3>1
  <2>8. Children'
    BY <1>0, <2>1, <2>2 DEF SInv, Children, Daemon
  <2> QED  BY <2>5, <2>6, <2>7, <2>8 DEF SInv
<1> QED  BY <1>1, <1>2

\* Under OneAtATime a start gives up only on a set without a daemon.
LEMMA GivesUp ==
  ASSUME SInv, OneAtATime, NEW s \in Shells, PortFails(s) \/ StartFails(s) \/
         (StartAnswered(s) /\ ~(shell[s].pid # None /\ Alive(shell[s].pid, s)))
  PROVE  /\ Writes(s) /\ shell[s].at \in {"port", "wait"}
         /\ End(s) /\ Clear(shell[s].set)
         /\ \A p \in Pids : Daemon(p) => proc[p].set # shell[s].set
<1> DEFINE c == shell[s].set
           p == shell[s].pid
<1>0. /\ IInv /\ shell[s].op = "start" /\ shell[s].at \in {"port", "wait"}
      /\ Writes(s) /\ End(s) /\ Clear(c)
  BY DEF SInv, PortFails, StartFails, StartAnswered, At, Writes
<1>1. pidFile[c] = p /\ p # None /\ c \in Sets /\ p \in Pids
  BY <1>0 DEF SInv, Remembered, IInv, TypeOK, Shaped, Busy
<1>2. \A w, max : Happens(w, max) /\ max = 0 /\ w = "lost" => FALSE
  BY <1>0 DEF Happens, IInv, TypeOK
<1>3. ~Daemon(p)
  <2>1. CASE PortFails(s)
    BY <1>2, <2>1 DEF PortFails, OneAtATime, Alive, Daemon
  <2>2. CASE StartFails(s)
    BY <1>1, <1>2, <2>2 DEF StartFails, OneAtATime, Unreachable, IsRunning, Alive, Daemon
  <2>3. CASE ~(p # None /\ Alive(p, s))
    BY <1>1, <2>3 DEF Alive, Daemon
  <2> QED  BY <2>1, <2>2, <2>3
<1>4. ASSUME NEW q \in Pids, Daemon(q), proc[q].set = c PROVE FALSE
  BY <1>0, <1>1, <1>3, <1>4, DaemonNamed
<1> QED  BY <1>0, <1>4

\* The steps of a start keep SInv.
LEMMA StartS ==
  ASSUME SInv, IInv', OneAtATime, NEW s \in Shells, StartSteps(s) PROVE SInv'
<1> DEFINE c == shell[s].set
<1>0. IInv /\ \A at \in Starting : at \in Steps \ {"idle"}
  BY DEF SInv, Starting, Steps
<1>1. CASE Refuse(s)
  BY <1>0, <1>1, EndS, MovesS DEF Refuse, At, Writes, Starting, files, Daemon
<1>2. CASE Ingest(s)
  BY <1>0, <1>2, EndS, MovesS DEF Ingest, At, Writes, Starting, files, Daemon
<1>3. CASE PortSeen(s)
  <2>1. c \in Sets /\ pidFile[c] \in Pids \cup {None} /\ pidFile[c] # None
    BY <1>0, <1>3 DEF PortSeen, At, SInv, Remembered, IInv, TypeOK, Shaped, Busy
  <2> QED  BY <1>0, <1>3, <2>1, MovesS DEF PortSeen, At, Writes, Starting, files, Daemon
<1>4. CASE StartAnswered(s)
  <2>2. CASE shell[s].pid # None /\ Alive(shell[s].pid, s)
    BY <1>0, <1>4, <2>2, MovesS DEF StartAnswered, At, Writes, Starting, Daemon, files
  <2> QED  BY <1>4, <2>2, GivesUp, ClearsS
<1>5. CASE PortFails(s) \/ StartFails(s)
  BY <1>5, GivesUp, ClearsS
<1> QED  BY <1>1, <1>2, <1>3, <1>4, <1>5, SpawnS, PopenS, WritePidS DEF StartSteps

\* A stop clears the files of a set that has no daemon.
LEMMA StopsOver ==
  ASSUME SInv, NEW s \in Shells, Stopped(s) \/ (ReadPid(s) /\ ~IsRunning(shell[s].set, s))
  PROVE  /\ Writes(s) /\ shell[s].at # "record"
         /\ End(s) /\ Clear(shell[s].set)
         /\ \A p \in Pids : Daemon(p) => proc[p].set # shell[s].set
<1> DEFINE c == shell[s].set
<1>1. Writes(s) /\ shell[s].at # "record" /\ End(s) /\ Clear(c)
  BY DEF ReadPid, Stopped, At, Writes
<1>2. CASE Stopped(s)
  <2>1. pidFile[c] = shell[s].pid /\ ~Daemon(shell[s].pid)
    BY <1>2 DEF Stopped, SInv, Remembered, Alive, Daemon
  <2> QED  BY <1>1, <2>1, DaemonNamed
<1>3. CASE ~IsRunning(c, s)
  BY <1>1, <1>3, DaemonNamed
<1> QED  BY <1>1, <1>2, <1>3

\* The steps of a stop keep SInv.
LEMMA StopS ==
  ASSUME SInv, IInv', NEW s \in Shells, StopSteps(s) PROVE SInv'
<1> DEFINE c == shell[s].set
           p == shell[s].pid
<1>0. IInv /\ \A at \in Stopping : at \in Steps \ {"idle"}
  BY DEF SInv, Stopping, Steps
<1>1. CASE ReadPid(s)
  <2>1. CASE IsRunning(c, s)
    <3>1. c \in Sets /\ pidFile[c] \in Pids \cup {None}
      BY <1>0, <1>1 DEF ReadPid, At, IInv, TypeOK, Shaped, Busy
    <3> QED  BY <1>0, <1>1, <2>1, <3>1, MovesS DEF ReadPid, At, Writes, Stopping, files, Daemon
  <2> QED  BY <1>1, <2>1, StopsOver, ClearsS
<1>2. CASE Terminate(s)
  <2>1. p \in Pids /\ pidFile[c] = p
    BY <1>0, <1>2 DEF Terminate, At, IInv, Shaped, SInv, Remembered
  <2>2. \A q \in Pids : Daemon(q)' => /\ Daemon(q)
                                       /\ proc'[q].set = proc[q].set
                                       /\ proc'[q].parent = proc[q].parent
    BY <1>0, <1>2, <2>1, EndedEffect DEF Terminate, IInv, TypeOK, Daemon, Process
  <2> QED  BY <1>0, <1>2, <2>1, <2>2, MovesS DEF Terminate, At, Writes, Stopping, files
<1>3. CASE Kill(s)
  <2>1. p \in Pids /\ pidFile[c] = p
    BY <1>0, <1>3 DEF Kill, At, IInv, Shaped, SInv, Remembered
  <2>2. \A q \in Pids : Daemon(q)' => Daemon(q) /\ q # p /\ proc'[q] = proc[q]
    BY <1>0, <1>3, <2>1, EndedEffect DEF Kill, IInv, TypeOK, Daemon
  <2> QED  BY <1>0, <1>3, <2>1, <2>2, MovesS DEF Kill, At, Writes, Stopping, files
<1> QED  BY <1>1, <1>2, <1>3, StopsOver, ClearsS DEF StopSteps

\* Calls keep SInv.
LEMMA CallS ==
  ASSUME SInv, IInv', NEW s \in Shells, CallSteps(s) PROVE SInv'
<1>1. /\ shell[s].at = "connect" /\ shell' = [shell EXCEPT ![s] = NoCommand] /\ pidFile' = pidFile
      /\ \A p \in Pids : /\ proc'[p].phase = proc[p].phase
                         /\ proc'[p].parent = proc[p].parent
                         /\ proc'[p].set = proc[p].set
  BY DEF CallSteps, CallAnswered, CallFails, files, SInv, IInv, TypeOK, Process
<1>2. \A p \in Pids : Daemon(p) => proc[p].parent # s
  BY <1>1 DEF SInv, Children
<1> QED  BY <1>1, <1>2, LeavesS DEF SInv, IInv, TypeOK, Daemon

\* Ctrl-C keeps SInv where it cannot hit a start between Popen and the pid file.
LEMMA InterruptS ==
  ASSUME SInv, IInv', OneAtATime, NEW s \in Shells, Interrupt(s) PROVE SInv'
<1>1. shell[s].at # "record"
  BY DEF Interrupt, Happens, OneAtATime, SInv, IInv, TypeOK
<1> QED  BY <1>1, EndS DEF Interrupt

\* What processes do keeps SInv.
LEMMA WorkerS ==
  ASSUME SInv, IInv', NEW p \in Pids, WorkerSteps(p) \/ Crash(p) \/ Foreign(p) PROVE SInv'
<1>1. UNCHANGED <<shell, pidFile>>
  BY DEF WorkerSteps, Bind, Load, Ready, Unbind, Exit, Crash, Foreign, files
<1>2. ASSUME NEW q \in Pids, Daemon(q)'
      PROVE  Daemon(q) /\ proc'[q].set = proc[q].set /\ proc'[q].parent = proc[q].parent
  <2>1. CASE q # p
    BY <1>2, <2>1 DEF SInv, IInv, TypeOK, WorkerSteps, Bind, Load, Ready, Unbind, Exit, Crash,
                      Foreign, Daemon
  <2>2. CASE q = p
    <3>1. CASE WorkerSteps(p)
      BY <1>2, <2>2, <3>1, EndedEffect DEF SInv, IInv, TypeOK, WorkerSteps, Bind, Load, Ready,
                      Unbind, Exit, Daemon, Process
    <3>2. CASE Crash(p)
      BY <1>2, <2>2, <3>2, EndedEffect DEF SInv, IInv, TypeOK, Crash, Daemon
    <3>3. CASE Foreign(p)
      BY <1>2, <2>2, <3>3 DEF SInv, IInv, TypeOK, Foreign, Daemon, NoProcess, Process
    <3> QED  BY <3>1, <3>2, <3>3
  <2> QED  BY <2>1, <2>2
<1> QED  BY <1>1, <1>2, AsideS

\* Every step keeps SInv.
LEMMA NextS == SInv /\ OneAtATime /\ [Next]_vars => SInv'
<1> SUFFICES ASSUME SInv, OneAtATime, [Next]_vars PROVE SInv'
  OBVIOUS
<1>1. IInv'
  BY NextInv DEF SInv
<1>2. CASE UNCHANGED <<shell, files, proc>>
  BY <1>1, <1>2, AsideS DEF files, Daemon
<1>3. CASE EditList
  BY <1>1, <1>3, AsideS DEF EditList, files, Daemon
<1>4. CASE UNCHANGED vars
  BY <1>2, <1>4 DEF vars
<1> QED  BY <1>1, <1>2, <1>3, <1>4, BeginS, StartS, StopS, CallS, InterruptS, WorkerS DEF Next

\* SInv holds at first.
LEMMA InitS == Init => SInv
<1> SUFFICES ASSUME Init PROVE SInv
  OBVIOUS
<1>1. \A s \in Shells : shell[s].op = "none" /\ shell[s].at = "idle"
  BY DEF Init, NoCommand
<1>2. \A p \in Pids : ~Daemon(p)
  BY DEF Init, NoProcess, Daemon
<1> QED  BY <1>1, <1>2, InitInv DEF SInv, Serial, Writes, Remembered, Named, Children

\* It holds in every reachable state.
LEMMA SpecSInv == ASSUME OneAtATime PROVE Spec => []SInv
BY InitS, NextS, PTL DEF Spec

\* "One daemon process per configuration set", for any number of sets, terminals, crashes
\* and reused pids, as long as starts and stops do not overlap and none of them is cut off
\* between Popen and the pid file or gives up on a worker that is alive.
THEOREM OneDaemonPerSetCorrect == ASSUME OneAtATime PROVE Spec => []OneDaemonPerSet
<1>1. SInv => OneDaemonPerSet
  <2> SUFFICES ASSUME SInv, NEW p \in Pids, NEW q \in Pids,
                      Daemon(p), Daemon(q), proc[p].set = proc[q].set
               PROVE  p = q
    BY DEF OneDaemonPerSet
  <2>1. ASSUME NEW x \in Pids, Daemon(x), JustSpawned(x)
        PROVE  \E s \in Shells : /\ shell[s].at = "record" /\ Writes(s) /\ shell[s].pid = x
                                 /\ pidFile[proc[x].set] = None
    <3>1. PICK s \in Shells :
            shell[s].at = "record" /\ shell[s].pid = x /\ shell[s].set = proc[x].set
      BY <2>1 DEF JustSpawned
    <3>2. Writes(s)
      BY <3>1 DEF SInv, IInv, Shaped, TypeOK, Command, Writes, Stopping, Busy
    <3> QED  BY <3>1, <3>2 DEF SInv, Remembered
  <2>2. CASE JustSpawned(p) \/ JustSpawned(q)
    BY <2>1, <2>2 DEF SInv, Named, Serial
  <2> QED  BY <2>2 DEF SInv, Named
<1> QED  BY <1>1, SpecSInv, PTL

\* Under the same assumptions no worker of the set runs when a stop has cleared its files.
THEOREM StoppedMeansStoppedCorrect == ASSUME OneAtATime PROVE Spec => StoppedMeansStopped
<1> DEFINE Gone(s) ==
      shell[s].op = "stop" /\ Ends(s) /\ pidFile'[shell[s].set] = None =>
        \A p \in Pids : proc[p].set = shell[s].set => ~Daemon(p)'
<1>1. SInv /\ [Next]_vars => [\A s \in Shells : Gone(s)]_vars
  <2> SUFFICES ASSUME SInv, Next, NEW s \in Shells, shell[s].op = "stop", Ends(s),
                      pidFile'[shell[s].set] = None,
                      NEW p \in Pids, proc[p].set = shell[s].set, Daemon(p)'
               PROVE  FALSE
    BY DEF vars
  <2>0. IInv /\ shell[s].at \in Stopping /\ shell'[s] # shell[s] /\ Writes(s)
    BY DEF SInv, IInv, Shaped, Ends, Busy, Writes, Stopping
  <2>1. StopSteps(s) \/ Interrupt(s)
    <3>1. ASSUME NEW t \in Shells, t # s,
                 BeginSteps(t) \/ StartSteps(t) \/ StopSteps(t) \/ CallSteps(t) \/ Interrupt(t)
          PROVE  FALSE
      <4>1. CASE BeginSteps(t)
        BY <2>0, <3>1, <4>1 DEF BeginSteps, BeginStart, BeginStop, BeginCall, Begin, IInv, TypeOK
      <4>2. CASE Refuse(t) \/ Ingest(t) \/ Spawn(t) \/ Popen(t) \/ WritePid(t)
        BY <2>0, <3>1, <4>2 DEF Refuse, Ingest, Spawn, Popen, WritePid, End, Goto, IInv, TypeOK
      <4>3. CASE PortSeen(t) \/ PortFails(t) \/ StartAnswered(t) \/ StartFails(t)
        BY <2>0, <3>1, <4>3
           DEF PortSeen, PortFails, StartAnswered, StartFails, End, Goto, IInv, TypeOK
      <4>4. CASE StopSteps(t)
        BY <2>0, <3>1, <4>4
           DEF StopSteps, ReadPid, Terminate, Stopped, Kill, End, Goto, IInv, TypeOK
      <4>5. CASE CallSteps(t) \/ Interrupt(t)
        BY <2>0, <3>1, <4>5
           DEF CallSteps, CallAnswered, CallFails, Interrupt, End, Goto, IInv, TypeOK
      <4> QED  BY <3>1, <4>1, <4>2, <4>3, <4>4, <4>5 DEF StartSteps
    <3>2. ASSUME NEW q \in Pids, WorkerSteps(q) \/ Crash(q) \/ Foreign(q) PROVE FALSE
      BY <2>0, <3>2 DEF WorkerSteps, Bind, Load, Ready, Unbind, Exit, Crash, Foreign
    <3>3. ~EditList
      BY <2>0 DEF EditList
    <3>4. ~BeginSteps(s) /\ ~StartSteps(s) /\ ~CallSteps(s)
      BY <2>0 DEF BeginSteps, BeginStart, BeginStop, BeginCall, Begin, Busy, Stopping,
                  StartSteps, Refuse, Ingest, Spawn, Popen, WritePid, PortSeen, PortFails,
                  StartAnswered, StartFails, At, CallSteps, CallAnswered, CallFails
    <3> QED  BY <3>1, <3>2, <3>3, <3>4 DEF Next
  <2>2. CASE Interrupt(s)
    <3>1. Daemon(p) /\ pidFile[shell[s].set] = None
      BY <2>0, <2>2, EndEffect DEF Interrupt, files
    <3> QED  BY <2>0, <3>1, DaemonNamed DEF Stopping
  <2>3. CASE Stopped(s) \/ (ReadPid(s) /\ ~IsRunning(shell[s].set, s))
    <3>1. Daemon(p)
      BY <2>0, <2>3, StopsOver, EndEffect
    <3> QED  BY <2>3, <3>1, StopsOver
  <2>4. CASE Terminate(s) \/ Kill(s) \/ (ReadPid(s) /\ IsRunning(shell[s].set, s))
    <3>1. \E at \in Stopping, q \in Pids \cup {None} : Goto(s, at, q)
      <4>1. shell[s].pid \in Pids \cup {None} /\ shell[s].set \in Sets
            /\ pidFile[shell[s].set] \in Pids \cup {None}
        BY <2>0 DEF IInv, TypeOK, Shaped, Command, Busy, Stopping
      <4> QED  BY <2>4, <4>1 DEF Terminate, Kill, ReadPid, Stopping
    <3>2. \A at \in Stopping : at \in Steps \ {"idle"}
      BY DEF Stopping, Steps
    <3>3. shell'[s].at # "idle"
      BY <2>0, <3>1, <3>2, GotoEffect
    <3> QED  BY <3>3 DEF Ends, Busy
  <2> QED  BY <2>1, <2>2, <2>3, <2>4 DEF StopSteps
<1> QED  BY <1>1, SpecSInv, PTL DEF Spec, StoppedMeansStopped

-----------------------------------------------------------------------------
\* FInv, step by step.

\* Steps that spawn no daemon, record no files and let no start past its checks.
LEMMA KeepsF ==
  ASSUME FInv, SInv', UNCHANGED <<list, recorded>>,
         \A c \in Sets : snapshot'[c] = snapshot[c] \/ snapshot'[c] = MappingFiles(c),
         \A p \in Pids : Daemon(p)' =>
           /\ Daemon(p)
           /\ proc'[p].set = proc[p].set
           /\ proc'[p].loaded = proc[p].loaded \/ proc'[p].loaded = MappingFiles(proc[p].set),
         \A s \in Shells : shell'[s].at \in {"spawn", "popen"} =>
           \/ shell[s].at \in {"spawn", "popen"}
           \/ snapshot'[shell[s].set] \in {{}, MappingFiles(shell[s].set)},
         \A s \in Shells : shell'[s].at \in {"ingest", "spawn", "popen"} =>
           /\ shell'[s].set = shell[s].set
           /\ shell[s].at \in {"ingest", "spawn", "popen"}
           /\ shell'[s].at = "popen" => shell[s].at = "popen"
  PROVE  FInv'
<1>1. \A c : MappingFiles(c)' = MappingFiles(c)
  BY DEF MappingFiles
<1>2. Recorded'
  BY <1>1 DEF FInv, Recorded
<1>3. Apart'
  BY <1>1 DEF FInv, Apart
<1>4. Checked'
  <2> SUFFICES ASSUME NEW s \in Shells
               PROVE  /\ shell'[s].at \in {"ingest", "spawn", "popen"} =>
                           \A q \in Pids : Daemon(q)' /\ proc'[q].set # shell'[s].set =>
                             MappingFiles(shell'[s].set) \cap MappingFiles(proc'[q].set) = {}
                      /\ shell'[s].at = "popen" => recorded[shell'[s].set] = MappingFiles(shell'[s].set)
    BY <1>1 DEF Checked, MappingFiles
  <2> QED  BY DEF FInv, Checked
<1>5. Committed'
  <2>1. \A s \in Shells : shell[s].at \in {"spawn", "popen"} => shell[s].set \in Sets
    BY DEF FInv, SInv, IInv, Shaped, Busy
  <2>2. \A p \in Pids : Daemon(p) => proc[p].set \in Sets
    BY DEF FInv, SInv, IInv, Shaped
  <2> QED  BY <1>1, <2>1, <2>2 DEF FInv, Committed
<1> QED  BY <1>2, <1>3, <1>4, <1>5 DEF FInv

\* A command ends.
LEMMA EndF ==
  ASSUME FInv, SInv', NEW s \in Shells, End(s), UNCHANGED <<list, recorded, snapshot>>
  PROVE  FInv'
<1>1. \A p \in Pids : Daemon(p)' => /\ Daemon(p)
                                    /\ proc'[p].set = proc[p].set
                                    /\ proc'[p].loaded = proc[p].loaded
  BY EndEffect DEF FInv, SInv
<1>2. \A t \in Shells : shell'[t] = shell[t] \/ shell'[t].at = "idle"
  BY EndEffect DEF FInv, SInv, NoCommand
<1> QED  BY <1>1, <1>2, KeepsF

\* A command moves on, but to no step of a start where its checks must hold.
LEMMA MovesF ==
  ASSUME FInv, SInv', NEW s \in Shells, NEW at \in Steps \ {"idle"}, NEW p \in Pids \cup {None},
         shell[s].op # "none", Goto(s, at, p), UNCHANGED <<list, recorded, snapshot>>,
         at \notin {"ingest", "spawn", "popen"},
         \A q \in Pids : Daemon(q)' => /\ Daemon(q)
                                       /\ proc'[q].set = proc[q].set
                                       /\ proc'[q].loaded = proc[q].loaded
  PROVE  FInv'
<1>1. /\ \A t \in Shells : t # s => shell'[t] = shell[t]
      /\ shell'[s].set = shell[s].set /\ shell'[s].at = at
  BY GotoEffect DEF FInv, SInv
<1> QED  BY <1>1, KeepsF

\* A start that was not refused has files that no daemon loaded.
LEMMA RefuseF ==
  ASSUME FInv, SInv', NEW s \in Shells, Refuse(s) PROVE FInv'
<1> DEFINE c == shell[s].set
<1>0. /\ SInv /\ IInv /\ shell[s].at = "refuse" /\ shell[s].op = "start" /\ Writes(s)
      /\ c \in Sets /\ UNCHANGED <<list, recorded, snapshot>>
  BY DEF FInv, SInv, IInv, Shaped, Busy, Refuse, At, Writes, files
<1>1. CASE End(s)
  BY <1>0, <1>1, EndF
<1>2. CASE ~End(s)
  <2>1. /\ Overlaps(MappingFiles(c), s) = {}
        /\ Goto(s, "ingest", None) /\ proc' = proc
    BY <1>2 DEF Refuse
  <2>2. /\ \A t \in Shells : t # s => shell'[t] = shell[t]
        /\ shell'[s].set = c /\ shell'[s].at = "ingest"
    BY <1>0, <2>1, GotoEffect DEF Steps
  <2>3. \A x : MappingFiles(x)' = MappingFiles(x)
    BY <1>0 DEF MappingFiles
  <2>4. ASSUME NEW q \in Pids, Daemon(q) PROVE MappingFiles(c) \cap MappingFiles(proc[q].set) = {}
    <3>1. IsRunning(proc[q].set, s) /\ proc[q].set \in Sets
      BY <1>0, <2>4, DaemonNamed DEF IInv, Shaped
    <3>2. recorded[proc[q].set] = MappingFiles(proc[q].set)
      BY <2>4 DEF FInv, Recorded
    <3>3. LoadedFiles(proc[q].set) = MappingFiles(proc[q].set)
      BY <3>2 DEF LoadedFiles
    <3> QED  BY <2>1, <3>1, <3>3 DEF Overlaps
  <2>5. Recorded' /\ Apart'
    BY <1>0, <2>1, <2>3 DEF FInv, Recorded, Apart, Daemon
  <2>6. Checked'
    <3> SUFFICES ASSUME NEW t \in Shells
                 PROVE  /\ shell'[t].at \in {"ingest", "spawn", "popen"} =>
                             \A q \in Pids : Daemon(q) /\ proc[q].set # shell'[t].set =>
                               MappingFiles(shell'[t].set) \cap MappingFiles(proc[q].set) = {}
                        /\ shell'[t].at = "popen" =>
                             recorded[shell'[t].set] = MappingFiles(shell'[t].set)
      BY <1>0, <2>1, <2>3 DEF Checked, MappingFiles, Daemon
    <3>1. CASE t = s
      BY <2>2, <2>4, <3>1
    <3>2. CASE t # s
      BY <1>0, <2>2, <3>2, OnlyWriter
    <3> QED  BY <3>1, <3>2
  <2>7. Committed'
    BY <1>0, <2>1, <2>2, <2>3 DEF FInv, Committed, Daemon
  <2> QED  BY <2>5, <2>6, <2>7 DEF FInv
<1> QED  BY <1>1, <1>2

\* A start records the files it checked.
LEMMA SpawnF ==
  ASSUME FInv, SInv', NEW s \in Shells, Spawn(s) PROVE FInv'
<1> DEFINE c == shell[s].set
<1>0. /\ SInv /\ IInv /\ shell[s].at = "spawn" /\ shell[s].op = "start" /\ Writes(s)
      /\ c \in Sets /\ UNCHANGED <<list, snapshot>> /\ recorded \in [Sets -> SUBSET Files]
  BY DEF FInv, SInv, IInv, TypeOK, Shaped, Busy, Spawn, At, Writes, files
<1>1. CASE IsRunning(c, s)
  BY <1>0, <1>1, EndF DEF Spawn, files
<1>2. CASE ~IsRunning(c, s)
  <2>1. /\ Goto(s, "popen", None) /\ proc' = proc
        /\ recorded' = [recorded EXCEPT ![c] = MappingFiles(c)]
    BY <1>2 DEF Spawn
  <2>2. /\ \A t \in Shells : t # s => shell'[t] = shell[t]
        /\ shell'[s].set = c /\ shell'[s].at = "popen"
    BY <1>0, <2>1, GotoEffect DEF Steps
  <2>3. \A x : MappingFiles(x)' = MappingFiles(x)
    BY <1>0 DEF MappingFiles
  <2>4. \A p \in Pids : Daemon(p) => proc[p].set # c /\ proc[p].set \in Sets
    BY <1>0, <1>2, DaemonNamed DEF IInv, Shaped
  <2>5. Recorded'
    BY <1>0, <2>1, <2>3, <2>4 DEF FInv, Recorded, Daemon
  <2>6. Apart'
    BY <2>1, <2>3 DEF FInv, Apart, Daemon
  <2>7. Checked'
    <3> SUFFICES ASSUME NEW t \in Shells
                 PROVE  /\ shell'[t].at \in {"ingest", "spawn", "popen"} =>
                             \A q \in Pids : Daemon(q) /\ proc[q].set # shell'[t].set =>
                               MappingFiles(shell'[t].set) \cap MappingFiles(proc[q].set) = {}
                        /\ shell'[t].at = "popen" =>
                             recorded'[shell'[t].set] = MappingFiles(shell'[t].set)
      BY <1>0, <2>1, <2>3 DEF Checked, MappingFiles, Daemon
    <3>1. CASE t = s
      BY <1>0, <2>1, <2>2, <3>1 DEF FInv, Checked
    <3>2. CASE t # s
      BY <1>0, <2>2, <3>2, OnlyWriter
    <3> QED  BY <3>1, <3>2
  <2>8. Committed'
    BY <1>0, <2>1, <2>2, <2>3 DEF FInv, Committed, Daemon
  <2> QED  BY <2>5, <2>6, <2>7, <2>8 DEF FInv
<1> QED  BY <1>1, <1>2

\* The new daemon belongs to a set whose files no other daemon has.
LEMMA PopenF ==
  ASSUME FInv, SInv', NEW s \in Shells, Popen(s) PROVE FInv'
<1> DEFINE c == shell[s].set
<1>0. /\ SInv /\ IInv /\ shell[s].at = "popen" /\ shell[s].op = "start" /\ Writes(s)
      /\ c \in Sets /\ UNCHANGED <<list, recorded, snapshot>>
  BY DEF FInv, SInv, IInv, TypeOK, Shaped, Busy, Popen, At, Writes, files
<1>1. CASE End(s)
  BY <1>0, <1>1, EndF
<1>2. CASE ~End(s)
  <2>1. PICK p \in Pids :
          /\ proc' = [proc EXCEPT ![p] = [NoProcess EXCEPT !.phase = "starting",
                                                           !.set = c, !.parent = s]]
          /\ Goto(s, "record", p)
    BY <1>2 DEF Popen
  <2>2. /\ proc'[p].set = c /\ proc'[p].loaded = {}
        /\ \A q \in Pids : q # p => proc'[q] = proc[q]
    BY <1>0, <2>1 DEF IInv, TypeOK, NoProcess
  <2>3. /\ \A t \in Shells : t # s => shell'[t] = shell[t]
        /\ shell'[s].at = "record"
    BY <1>0, <2>1, GotoEffect DEF Steps
  <2>4. \A x : MappingFiles(x)' = MappingFiles(x)
    BY <1>0 DEF MappingFiles
  <2>5. /\ recorded[c] = MappingFiles(c)
        /\ \A q \in Pids : Daemon(q) /\ proc[q].set # c =>
             MappingFiles(c) \cap MappingFiles(proc[q].set) = {}
    BY <1>0 DEF FInv, Checked
  <2>6. Recorded'
    BY <1>0, <2>2, <2>4, <2>5 DEF FInv, Recorded, Daemon
  <2>7. Apart'
    BY <1>0, <2>2, <2>4, <2>5 DEF FInv, Apart, Daemon
  <2>8. Checked'
    BY <1>0, <2>3, OnlyWriter DEF Checked
  <2>9. Committed'
    <3>1. snapshot[c] \in {{}, MappingFiles(c)}
      BY <1>0 DEF FInv, Committed
    <3> QED  BY <1>0, <2>2, <2>3, <2>4, <3>1 DEF FInv, Committed, Daemon
  <2> QED  BY <2>6, <2>7, <2>8, <2>9 DEF FInv
<1> QED  BY <1>1, <1>2

\* The steps of a start keep FInv.
LEMMA StartF ==
  ASSUME FInv, SInv', NEW s \in Shells, StartSteps(s) PROVE FInv'
<1> DEFINE c == shell[s].set
<1>0. /\ SInv /\ IInv /\ \A at \in Starting : at \in Steps \ {"idle"}
      /\ shell[s].pid \in Pids \cup {None}
  BY DEF FInv, SInv, IInv, TypeOK, Command, Starting, Steps
<1>1. CASE Ingest(s)
  <2>1. CASE End(s) /\ UNCHANGED files
    BY <1>1, <2>1, EndF DEF Ingest, files
  <2>2. CASE ~(End(s) /\ UNCHANGED files)
    <3>1. /\ Goto(s, "spawn", None) /\ shell[s].at = "ingest" /\ shell[s].op = "start"
          /\ snapshot' = IF snapshot[c] = {} THEN snapshot
                         ELSE [snapshot EXCEPT ![c] = MappingFiles(c)]
          /\ UNCHANGED <<list, recorded, proc>>
      BY <1>1, <2>2 DEF Ingest, At
    <3>2. /\ \A t \in Shells : t # s => shell'[t] = shell[t]
          /\ shell'[s].set = c /\ shell'[s].at = "spawn"
      BY <1>0, <3>1, GotoEffect DEF Starting
    <3>3. c \in Sets /\ snapshot \in [Sets -> SUBSET Files]
      BY <1>0, <3>1 DEF IInv, TypeOK, Shaped, Busy
    <3>4. \A d \in Sets : snapshot'[d] = snapshot[d] \/ snapshot'[d] = MappingFiles(d)
      BY <3>1, <3>3
    <3>5. snapshot'[c] \in {{}, MappingFiles(c)}
      BY <3>1, <3>3
    <3> QED  BY <3>1, <3>2, <3>4, <3>5, KeepsF DEF Daemon
  <2> QED  BY <2>1, <2>2
<1>2. CASE WritePid(s)
  BY <1>0, <1>2, MovesF DEF WritePid, At, Starting, Daemon
<1>3. CASE PortSeen(s)
  <2>1. pidFile[c] \in Pids \cup {None}
    BY <1>0, <1>3 DEF PortSeen, At, IInv, TypeOK, Shaped, Busy
  <2> QED  BY <1>0, <1>3, <2>1, MovesF DEF PortSeen, At, Starting, Daemon, files
<1>4. CASE PortFails(s) \/ StartFails(s)
  BY <1>4, EndF DEF PortFails, StartFails, Clear
<1>5. CASE StartAnswered(s)
  BY <1>0, <1>5, EndF, MovesF DEF StartAnswered, At, Starting, Daemon, files, Clear
<1> QED  BY <1>1, <1>2, <1>3, <1>4, <1>5, RefuseF, SpawnF, PopenF DEF StartSteps

\* The steps of a stop keep FInv.
LEMMA StopF ==
  ASSUME FInv, SInv', NEW s \in Shells, StopSteps(s) PROVE FInv'
<1> DEFINE p == shell[s].pid
<1>0. SInv /\ IInv /\ \A at \in Stopping : at \in Steps \ {"idle"}
  BY DEF FInv, SInv, Stopping, Steps
<1>1. CASE ReadPid(s)
  <2>1. pidFile[shell[s].set] \in Pids \cup {None}
    BY <1>0, <1>1 DEF ReadPid, At, IInv, TypeOK, Shaped, Busy
  <2> QED  BY <1>0, <1>1, <2>1, EndF, MovesF DEF ReadPid, At, Stopping, Daemon, files, Clear
<1>2. CASE Terminate(s)
  <2>1. p \in Pids
    BY <1>0, <1>2 DEF Terminate, At, IInv, Shaped
  <2>2. \A q \in Pids : Daemon(q)' => /\ Daemon(q)
                                       /\ proc'[q].set = proc[q].set
                                       /\ proc'[q].loaded = proc[q].loaded
    BY <1>0, <1>2, <2>1, EndedEffect DEF Terminate, IInv, TypeOK, Daemon, Process
  <2> QED  BY <1>0, <1>2, <2>1, <2>2, MovesF DEF Terminate, At, Stopping, files
<1>3. CASE Kill(s)
  <2>1. p \in Pids
    BY <1>0, <1>3 DEF Kill, At, IInv, Shaped
  <2>2. \A q \in Pids : Daemon(q)' => Daemon(q) /\ proc'[q] = proc[q]
    BY <1>0, <1>3, <2>1, EndedEffect DEF Kill, IInv, TypeOK, Daemon
  <2> QED  BY <1>0, <1>3, <2>1, <2>2, MovesF DEF Kill, At, Stopping, files
<1>4. CASE Stopped(s)
  BY <1>4, EndF DEF Stopped, Clear
<1> QED  BY <1>1, <1>2, <1>3, <1>4 DEF StopSteps

\* A reload loads what the set maps.
LEMMA CallF ==
  ASSUME FInv, SInv', NEW s \in Shells, CallSteps(s) PROVE FInv'
<1>1. /\ shell' = [shell EXCEPT ![s] = NoCommand] /\ UNCHANGED <<list, recorded>>
      /\ snapshot \in [Sets -> SUBSET Files]
      /\ shell \in [Shells -> Command] /\ proc \in [Pids -> Process]
  BY DEF CallSteps, CallAnswered, CallFails, files, FInv, SInv, IInv, TypeOK
<1>2. \A t \in Shells : shell'[t] = shell[t] \/ shell'[t].at = "idle"
  BY <1>1 DEF NoCommand
<1>3. ASSUME NEW p \in Pids, Daemon(p)'
      PROVE  /\ Daemon(p)
             /\ proc'[p].set = proc[p].set
             /\ proc'[p].loaded = proc[p].loaded \/ proc'[p].loaded = MappingFiles(proc[p].set)
  <2>1. CASE proc' = proc
    BY <1>3, <2>1 DEF Daemon
  <2>2. CASE /\ proc' = [proc EXCEPT ![portFile[shell[s].set]].loaded = MappingFiles(shell[s].set)]
             /\ proc[portFile[shell[s].set]].set = shell[s].set
    BY <1>1, <1>3, <2>2 DEF Daemon, Process
  <2> QED  BY <2>1, <2>2 DEF CallSteps, CallAnswered, CallFails, Answers
<1>4. \A c \in Sets : snapshot'[c] = snapshot[c] \/ snapshot'[c] = MappingFiles(c)
  <2>1. \/ snapshot' = snapshot
        \/ snapshot' = [snapshot EXCEPT ![shell[s].set] = MappingFiles(shell[s].set)]
    BY DEF CallSteps, CallAnswered, CallFails, files
  <2> QED  BY <1>1, <2>1
<1> QED  BY <1>1, <1>2, <1>3, <1>4, KeepsF

\* A new command has passed no checks.
LEMMA BeginF ==
  ASSUME FInv, SInv', NEW s \in Shells, BeginSteps(s) PROVE FInv'
<1>1. PICK op \in {"start", "stop"} \cup Calls, c \in Sets, at \in {"refuse", "read", "connect"} :
        Begin(s, op, c, at)
  BY ShellSetType DEF BeginSteps, BeginStart, BeginStop, BeginCall
<1>2. /\ shell'[s].at = at /\ \A t \in Shells : t # s => shell'[t] = shell[t]
      /\ UNCHANGED <<list, recorded, snapshot, proc>>
  BY <1>1 DEF Begin, FInv, SInv, IInv, TypeOK, files
<1> QED  BY <1>2, KeepsF DEF Daemon

\* A worker loads what its set maps.
LEMMA WorkerF ==
  ASSUME FInv, SInv', NEW p \in Pids, WorkerSteps(p) \/ Crash(p) \/ Foreign(p) PROVE FInv'
<1>1. UNCHANGED <<shell, list, recorded>>
  BY DEF WorkerSteps, Bind, Load, Ready, Unbind, Exit, Crash, Foreign, files
<1>2. proc \in [Pids -> Process] /\ snapshot \in [Sets -> SUBSET Files]
  BY DEF FInv, SInv, IInv, TypeOK
<1>4. Load(p) => /\ snapshot[proc[p].set] \in {{}, MappingFiles(proc[p].set)}
                 /\ proc[p].set \in Sets
  BY DEF Load, Daemon, FInv, Committed, SInv, IInv, Shaped
<1>5. \A c \in Sets : snapshot'[c] = snapshot[c] \/ snapshot'[c] = MappingFiles(c)
  <2>1. CASE Load(p)
    BY <1>2, <1>4, <2>1 DEF Load
  <2>2. CASE ~Load(p)
    BY <2>2 DEF WorkerSteps, Bind, Ready, Unbind, Exit, Crash, Foreign, files
  <2> QED  BY <2>1, <2>2
<1>3. ASSUME NEW q \in Pids, Daemon(q)'
      PROVE  /\ Daemon(q)
             /\ proc'[q].set = proc[q].set
             /\ proc'[q].loaded = proc[q].loaded \/ proc'[q].loaded = MappingFiles(proc[q].set)
  <2>1. CASE q # p
    BY <1>2, <1>3, <2>1 DEF WorkerSteps, Bind, Load, Ready, Unbind, Exit, Crash, Foreign, Daemon
  <2>2. CASE q = p
    <3>1. CASE WorkerSteps(p)
      BY <1>2, <1>3, <1>4, <2>2, <3>1, EndedEffect
         DEF WorkerSteps, Bind, Load, Ready, Unbind, Exit, Daemon, Process, FInv, SInv
    <3>2. CASE Crash(p)
      BY <1>2, <1>3, <2>2, <3>2, EndedEffect DEF Crash, Daemon, FInv, SInv
    <3>3. CASE Foreign(p)
      BY <1>2, <1>3, <2>2, <3>3 DEF Foreign, Daemon, NoProcess, Process
    <3> QED  BY <3>1, <3>2, <3>3
  <2> QED  BY <2>1, <2>2
<1> QED  BY <1>1, <1>3, <1>5, KeepsF

\* The list is edited while no global worker runs and no start or stop is about the global set.
LEMMA EditListF == ASSUME FInv, SInv', ~ListEdits, EditList PROVE FInv'
<1>1. /\ UNCHANGED <<files, proc, shell>> /\ SInv /\ IInv
      /\ \A p \in Pids : proc[p].set = Global => ~Daemon(p)
      /\ \A s \in Shells : shell[s].set = Global => ~Writes(s)
  BY DEF EditList, FInv, SInv
<1>2. \A c \in Sets : c # Global => MappingFiles(c)' = MappingFiles(c)
  BY DEF MappingFiles
<1>3. \A p \in Pids : Daemon(p) => proc[p].set \in Sets \ {Global}
  BY <1>1 DEF IInv, Shaped
<1>4. \A s \in Shells : shell[s].at \in {"ingest", "spawn", "popen"} => shell[s].set \in Sets \ {Global}
  BY <1>1 DEF IInv, TypeOK, Shaped, Busy, Writes, Stopping, Command
<1>5. Recorded'
  BY <1>1, <1>2, <1>3 DEF FInv, Recorded, Daemon, files
<1>6. Apart'
  BY <1>1, <1>2, <1>3 DEF FInv, Apart, Daemon
<1>7. Checked'
  BY <1>1, <1>2, <1>3, <1>4 DEF FInv, Checked, Daemon, files
<1>8. Committed'
  BY <1>1, <1>2, <1>3, <1>4 DEF FInv, Committed, Daemon, files
<1> QED  BY <1>5, <1>6, <1>7, <1>8 DEF FInv

\* Every step keeps FInv.
LEMMA NextF == FInv /\ OneAtATime /\ ~ListEdits /\ [Next]_vars => FInv'
<1> SUFFICES ASSUME FInv, OneAtATime, ~ListEdits, [Next]_vars PROVE FInv'
  OBVIOUS
<1>1. SInv'
  BY NextS DEF FInv
<1>2. CASE UNCHANGED vars
  BY <1>1, <1>2, KeepsF DEF vars, files, Daemon
<1>3. ASSUME NEW s \in Shells, Interrupt(s) PROVE FInv'
  BY <1>1, <1>3, EndF DEF Interrupt, files
<1> QED  BY <1>1, <1>2, <1>3, BeginF, StartF, StopF, CallF, WorkerF, EditListF DEF Next

\* FInv holds at first.
LEMMA InitF == Init => FInv
<1> SUFFICES ASSUME Init PROVE FInv
  OBVIOUS
<1>1. /\ \A p \in Pids : ~Daemon(p)
      /\ \A s \in Shells : shell[s].at = "idle"
  BY DEF Init, NoProcess, NoCommand, Daemon
<1> QED  BY <1>1, InitS DEF FInv, Recorded, Apart, Checked, Committed

-----------------------------------------------------------------------------
\* GInv: what a command with -c finds in the pid files of singletons.

\* The list of a singleton's run directory names no file but its own.
OwnLists == \A d \in Files : recorded[d] \subseteq {d}

\* A free pid belongs to no set.
Blank == \A p \in Pids : proc[p].phase = "free" => proc[p].set = None

\* A start that has not been refused yet has no children.
Childless ==
  \A s \in Shells : shell[s].op = "start" /\ shell[s].at = "refuse" =>
    \A p \in Pids : proc[p].parent # s

\* A global worker runs, or a global start is past its checks.
GlobalAsked ==
  \/ \E p \in Pids : Daemon(p) /\ proc[p].set = Global
  \/ \E s \in Shells : shell[s].set = Global /\ shell[s].at \in {"ingest", "spawn", "popen"}

\* Then no pid file of a singleton it lists names a worker of that singleton, not even
\* one that is closing or a zombie.
Disowned ==
  GlobalAsked => \A d \in Files \cap list : \A q \in Pids : pidFile[d] = q => proc[q].set # d

\* A start that is about to write such a pid file meets no global worker.
Unlisted ==
  \A s \in Shells : shell[s].at = "record" /\ shell[s].set \in Files \cap list =>
    \A q \in Pids : Daemon(q) => proc[q].set # Global

GInv == FInv /\ OwnLists /\ Blank /\ Childless /\ Disowned /\ Unlisted

\* Steps that spawn no daemon, name none in a pid file, and let no start past its checks.
LEMMA KeepsG ==
  ASSUME GInv, FInv', list' = list,
         \A d \in Files : recorded'[d] = recorded[d] \/ recorded'[d] = MappingFiles(d),
         \A d \in Files : pidFile'[d] = pidFile[d] \/ pidFile'[d] = None,
         \A p \in Pids :
           /\ proc'[p].set = proc[p].set \/ proc'[p].set = None
           /\ proc'[p].parent = proc[p].parent \/ proc'[p].parent = None
           /\ proc'[p].phase = "free" => proc'[p].set = None
           /\ Daemon(p)' => Daemon(p) /\ proc'[p].set = proc[p].set,
         \A s \in Shells :
           /\ shell'[s].at \in {"ingest", "spawn", "popen"} =>
                shell'[s].set = shell[s].set /\ shell[s].at \in {"ingest", "spawn", "popen"}
           /\ shell'[s].at = "record" => shell'[s].set = shell[s].set /\ shell[s].at = "record"
           /\ shell'[s].at = "refuse" => shell'[s] = shell[s] \/ shell[s].at = "idle"
  PROVE  GInv'
<1>0. None \notin Files \cup Pids \cup Shells /\ Global \notin Files
  BY NamesAssumption
<1>1. OwnLists'
  BY <1>0 DEF GInv, OwnLists, MappingFiles
<1>2. Blank'
  BY DEF Blank
<1>3. Childless'
  <2> SUFFICES ASSUME NEW s \in Shells, shell'[s].op = "start", shell'[s].at = "refuse", NEW p \in Pids
               PROVE  proc'[p].parent # s
    BY DEF Childless
  <2>1. proc[p].parent # s
    <3>1. CASE shell'[s] = shell[s]
      BY <3>1 DEF GInv, Childless
    <3>2. CASE shell[s].at = "idle"
      BY <1>0, <3>2 DEF GInv, FInv, SInv, IInv, TypeOK, NoCommand
    <3> QED  BY <3>1, <3>2
  <2> QED  BY <1>0, <2>1
<1>4. Disowned'
  <2>1. GlobalAsked' => GlobalAsked
    BY DEF GlobalAsked
  <2> SUFFICES ASSUME GlobalAsked', NEW d \in Files \cap list, NEW q \in Pids, pidFile'[d] = q
               PROVE  proc'[q].set # d
    BY DEF Disowned
  <2>2. pidFile[d] = q
    BY <1>0
  <2>3. proc[q].set # d
    BY <2>1, <2>2 DEF GInv, Disowned
  <2> QED  BY <1>0, <2>3
<1>5. Unlisted'
  BY DEF GInv, Unlisted
<1> QED  BY <1>1, <1>2, <1>3, <1>4, <1>5 DEF GInv

\* What a dead process leaves.
LEMMA EndedBlank ==
  ASSUME NEW p \in Pids, proc \in [Pids -> Process]
  PROVE  /\ Ended(p).set \in {proc[p].set, None}
         /\ Ended(p).parent = proc[p].parent
         /\ Ended(p).phase = "free" => Ended(p).set = None
<1>1. proc[p] \in Process
  OBVIOUS
<1>2. CASE proc[p].parent = None
  BY <1>1, <1>2 DEF Ended, NoProcess
<1>3. CASE proc[p].parent # None
  BY <1>1, <1>3 DEF Ended, Process
<1> QED  BY <1>2, <1>3

\* What the children of a command that ends become.
LEMMA EndBlank ==
  ASSUME GInv, NEW s \in Shells, End(s)
  PROVE  \A p \in Pids :
           /\ proc'[p].set = proc[p].set \/ proc'[p].set = None
           /\ proc'[p].parent = proc[p].parent \/ proc'[p].parent = None
           /\ proc'[p].phase = "free" => proc'[p].set = None
           /\ Daemon(p)' => Daemon(p) /\ proc'[p].set = proc[p].set
<1> SUFFICES ASSUME NEW p \in Pids
             PROVE  /\ proc'[p].set = proc[p].set \/ proc'[p].set = None
                    /\ proc'[p].parent = proc[p].parent \/ proc'[p].parent = None
                    /\ proc'[p].phase = "free" => proc'[p].set = None
                    /\ Daemon(p)' => Daemon(p) /\ proc'[p].set = proc[p].set
  OBVIOUS
<1>1. proc[p] \in Process /\ (proc[p].phase = "free" => proc[p].set = None)
  BY DEF GInv, Blank, FInv, SInv, IInv, TypeOK
<1>2. CASE proc[p].parent # s
  <2>1. proc'[p] = proc[p]
    BY <1>2 DEF End
  <2> QED  BY <1>1, <2>1 DEF Daemon
<1>3. CASE proc[p].parent = s /\ proc[p].phase = "zombie"
  <2>1. proc'[p] = NoProcess
    BY <1>3 DEF End
  <2> QED  BY <2>1 DEF NoProcess, Daemon
<1>4. CASE proc[p].parent = s /\ proc[p].phase # "zombie"
  <2>1. proc'[p] = [proc[p] EXCEPT !.parent = None]
    BY <1>4 DEF End
  <2> QED  BY <1>1, <2>1 DEF Process, Daemon
<1> QED  BY <1>2, <1>3, <1>4

\* A command ends.
LEMMA EndG ==
  ASSUME GInv, FInv', NEW s \in Shells, End(s), UNCHANGED <<list, recorded>>,
         \A d \in Files : pidFile'[d] = pidFile[d] \/ pidFile'[d] = None
  PROVE  GInv'
<1>1. \A t \in Shells : shell'[t] = shell[t] \/ shell'[t].at = "idle"
  BY EndEffect DEF GInv, FInv, SInv, NoCommand
<1> QED  BY <1>1, EndBlank, KeepsG

\* A command ends and clears the files of a set.
LEMMA ClearG ==
  ASSUME GInv, FInv', NEW s \in Shells, End(s), NEW c, Clear(c), list' = list
  PROVE  GInv'
<1>1. UNCHANGED recorded
  BY DEF Clear
<1>2. \A d \in Files : pidFile'[d] = pidFile[d] \/ pidFile'[d] = None
  BY DEF Clear, GInv, FInv, SInv, IInv, TypeOK, Sets
<1> QED  BY <1>1, <1>2, EndG

\* A command moves on, but to no step of a start where its checks must hold.
LEMMA MovesG ==
  ASSUME GInv, FInv', NEW s \in Shells, NEW at \in Steps \ {"idle"}, NEW p \in Pids \cup {None},
         shell[s].op # "none", Goto(s, at, p), UNCHANGED <<list, recorded, pidFile>>,
         at # "refuse", at # "record",
         at \in {"ingest", "spawn", "popen"} => shell[s].at \in {"ingest", "spawn", "popen"},
         \A q \in Pids :
           /\ proc'[q].set = proc[q].set \/ proc'[q].set = None
           /\ proc'[q].parent = proc[q].parent \/ proc'[q].parent = None
           /\ proc'[q].phase = "free" => proc'[q].set = None
           /\ Daemon(q)' => Daemon(q) /\ proc'[q].set = proc[q].set
  PROVE  GInv'
<1>1. /\ \A t \in Shells : t # s => shell'[t] = shell[t]
      /\ shell'[s].set = shell[s].set /\ shell'[s].at = at
  BY GotoEffect DEF GInv, FInv, SInv
<1> QED  BY <1>1, KeepsG

\* Processes that are let be.
LEMMA SameBlank ==
  ASSUME GInv, proc' = proc
  PROVE  \A q \in Pids :
           /\ proc'[q].set = proc[q].set \/ proc'[q].set = None
           /\ proc'[q].parent = proc[q].parent \/ proc'[q].parent = None
           /\ proc'[q].phase = "free" => proc'[q].set = None
           /\ Daemon(q)' => Daemon(q) /\ proc'[q].set = proc[q].set
BY DEF GInv, Blank, Daemon

\* A global start is refused while a pid file of a file it lists names a worker of that
\* file that is alive, closing, or somebody else's zombie.
LEMMA RefuseG ==
  ASSUME GInv, FInv', NEW s \in Shells, Refuse(s) PROVE GInv'
<1> DEFINE c == shell[s].set
<1>0. /\ FInv /\ SInv /\ IInv /\ shell[s].at = "refuse" /\ shell[s].op = "start"
      /\ UNCHANGED <<list, recorded, pidFile>>
  BY DEF GInv, FInv, SInv, Refuse, At, files
<1>1. CASE End(s)
  BY <1>0, <1>1, EndG
<1>2. CASE ~End(s)
  <2>1. Overlaps(MappingFiles(c), s) = {} /\ Goto(s, "ingest", None) /\ proc' = proc
    BY <1>2 DEF Refuse
  <2>2. /\ \A t \in Shells : t # s => shell'[t] = shell[t]
        /\ shell'[s].set = c /\ shell'[s].at = "ingest"
    BY <1>0, <2>1, GotoEffect DEF Steps
  <2>3. Global \notin Files /\ None \notin Files \cup Pids
    BY NamesAssumption
  <2>4. OwnLists' /\ Blank'
    BY <1>0, <2>1 DEF GInv, OwnLists, Blank
  <2>5. Childless' /\ Unlisted'
    BY <1>0, <2>1, <2>2 DEF GInv, Childless, Unlisted, Daemon
  <2>6. ASSUME c = Global, NEW d \in Files \cap list, NEW q \in Pids, pidFile[d] = q
        PROVE  proc[q].set # d
    <3>1. LoadedFiles(d) = {d} /\ MappingFiles(c) = list
      BY <2>3, <2>6 DEF LoadedFiles, MappingFiles, GInv, OwnLists
    <3>2. d \in Sets /\ d \notin Overlaps(MappingFiles(c), s)
      BY <2>1 DEF Sets
    <3>3. ~IsRunning(d, s)
      BY <2>6, <3>1, <3>2 DEF Overlaps
    <3>4. ~Alive(q, s)
      BY <2>3, <2>6, <3>3 DEF IsRunning
    <3>5. proc[q].parent # s
      BY <1>0 DEF GInv, Childless
    <3>6. proc[q].set = None
      BY <3>4, <3>5 DEF Alive, GInv, Blank
    <3> QED  BY <2>3, <3>6
  <2>7. Disowned'
    <3>1. GlobalAsked' => GlobalAsked \/ c = Global
      BY <2>1, <2>2 DEF GlobalAsked, Daemon
    <3> QED  BY <1>0, <2>1, <2>6, <3>1 DEF GInv, Disowned
  <2> QED  BY <2>4, <2>5, <2>7 DEF GInv
<1> QED  BY <1>1, <1>2

\* The new daemon is of another set than the singletons that a global worker lists.
LEMMA PopenG ==
  ASSUME GInv, FInv', NEW s \in Shells, Popen(s) PROVE GInv'
<1> DEFINE c == shell[s].set
<1>0. /\ FInv /\ SInv /\ IInv /\ shell[s].at = "popen" /\ shell[s].op = "start" /\ Writes(s)
      /\ c \in Sets /\ UNCHANGED <<list, recorded, pidFile>>
  BY DEF GInv, FInv, SInv, IInv, TypeOK, Shaped, Busy, Popen, At, Writes, files
<1>1. CASE End(s)
  BY <1>0, <1>1, EndG
<1>2. CASE ~End(s)
  <2>1. PICK p \in Pids :
          /\ proc' = [proc EXCEPT ![p] = [NoProcess EXCEPT !.phase = "starting",
                                                           !.set = c, !.parent = s]]
          /\ Goto(s, "record", p)
    BY <1>2 DEF Popen
  <2>2. /\ proc'[p].set = c /\ proc'[p].parent = s /\ proc'[p].phase = "starting"
        /\ \A q \in Pids : q # p => proc'[q] = proc[q]
    BY <1>0, <2>1 DEF IInv, TypeOK, NoProcess
  <2>3. /\ \A t \in Shells : t # s => shell'[t] = shell[t]
        /\ shell'[s].at = "record" /\ shell'[s].set = c
    BY <1>0, <2>1, GotoEffect DEF Steps
  <2>4. Global \notin Files /\ None \notin Files \cup Pids /\ pidFile[c] = None
    BY <1>0, NamesAssumption DEF SInv, Remembered
  <2>5. OwnLists' /\ Blank'
    BY <1>0, <2>2 DEF GInv, OwnLists, Blank
  <2>6. Childless'
    BY <2>2, <2>3 DEF GInv, Childless
  <2>7. Disowned'
    <3>1. GlobalAsked' => GlobalAsked
      BY <1>0, <2>2, <2>3 DEF GlobalAsked, Daemon
    <3> SUFFICES ASSUME GlobalAsked', NEW d \in Files \cap list, NEW q \in Pids, pidFile[d] = q
                 PROVE  proc'[q].set # d
      BY <1>0 DEF Disowned
    <3>2. CASE q = p
      BY <2>2, <2>4, <3>2
    <3>3. CASE q # p
      BY <2>2, <3>1, <3>3 DEF GInv, Disowned
    <3> QED  BY <3>2, <3>3
  <2>8. Unlisted'
    <3> SUFFICES ASSUME NEW t \in Shells, shell'[t].at = "record", shell'[t].set \in Files \cap list,
                        NEW q \in Pids, Daemon(q)', proc'[q].set = Global
                 PROVE  FALSE
      BY <1>0 DEF Unlisted
    <3>1. t = s
      BY <1>0, <2>3, OnlyWriter
    <3>2. c \in Files \cap list /\ q # p
      BY <2>2, <2>3, <2>4, <3>1
    <3>3. Daemon(q) /\ proc[q].set = Global
      BY <2>2, <3>2 DEF Daemon
    <3>4. MappingFiles(c) \cap MappingFiles(Global) = {}
      BY <1>0, <2>4, <3>2, <3>3 DEF FInv, Checked
    <3> QED  BY <2>4, <3>2, <3>4 DEF MappingFiles
  <2> QED  BY <2>5, <2>6, <2>7, <2>8 DEF GInv
<1> QED  BY <1>1, <1>2

\* A pid file gets a worker of its own set only when no global worker lists the file.
LEMMA WritePidG ==
  ASSUME GInv, FInv', NEW s \in Shells, WritePid(s) PROVE GInv'
<1> DEFINE c == shell[s].set
<1>0. /\ FInv /\ SInv /\ IInv /\ shell[s].at = "record" /\ shell[s].op = "start" /\ Writes(s)
      /\ c \in Sets /\ shell[s].pid \in Pids /\ UNCHANGED <<list, recorded, proc>>
      /\ pidFile' = [pidFile EXCEPT ![c] = shell[s].pid]
      /\ Goto(s, "port", shell[s].pid)
  BY DEF GInv, FInv, SInv, IInv, TypeOK, Shaped, Busy, WritePid, At, Writes
<1>1. /\ \A t \in Shells : t # s => shell'[t] = shell[t]
      /\ shell'[s].at = "port" /\ shell'[s].set = c
  BY <1>0, GotoEffect DEF Steps
<1>2. OwnLists' /\ Blank' /\ Childless' /\ Unlisted'
  BY <1>0, <1>1 DEF GInv, OwnLists, Blank, Childless, Unlisted, Daemon
<1>3. \A d \in Sets : d # c => pidFile'[d] = pidFile[d]
  BY <1>0 DEF IInv, TypeOK
<1>4. GlobalAsked' => GlobalAsked
  BY <1>0, <1>1 DEF GlobalAsked, Daemon
<1>5. GlobalAsked' => c \notin Files \cap list
  <2>1. \A t \in Shells : shell'[t].at \notin {"ingest", "spawn", "popen"}
    BY <1>0, <1>1, OnlyWriter
  <2> QED  BY <1>0, <2>1 DEF GlobalAsked, GInv, Unlisted, Daemon
<1>6. Disowned'
  BY <1>0, <1>3, <1>4, <1>5 DEF GInv, Disowned, Sets
<1> QED  BY <1>2, <1>6 DEF GInv

\* The steps of a start keep GInv.
LEMMA StartG ==
  ASSUME GInv, FInv', NEW s \in Shells, StartSteps(s) PROVE GInv'
<1> DEFINE c == shell[s].set
<1>0. /\ SInv /\ IInv /\ \A at \in Starting : at \in Steps \ {"idle"}
      /\ shell[s].pid \in Pids \cup {None}
  BY DEF GInv, FInv, SInv, IInv, TypeOK, Command, Starting, Steps
<1>1. CASE Ingest(s)
  <2>1. CASE End(s)
    BY <1>1, <2>1, EndG DEF Ingest, files
  <2>2. CASE ~End(s)
    <3>1. /\ Goto(s, "spawn", None) /\ shell[s].at = "ingest" /\ shell[s].op = "start"
          /\ UNCHANGED <<list, recorded, pidFile, proc>>
      BY <1>1, <2>2 DEF Ingest, At
    <3> QED  BY <1>0, <3>1, SameBlank, MovesG DEF Starting
  <2> QED  BY <2>1, <2>2
<1>2. CASE Spawn(s)
  <2>1. CASE IsRunning(c, s)
    BY <1>2, <2>1, EndG DEF Spawn, files
  <2>2. CASE ~IsRunning(c, s)
    <3>1. /\ Goto(s, "popen", None) /\ shell[s].at = "spawn" /\ shell[s].op = "start"
          /\ UNCHANGED <<list, proc>>
          /\ pidFile' = [pidFile EXCEPT ![c] = None]
          /\ recorded' = [recorded EXCEPT ![c] = MappingFiles(c)]
      BY <1>2, <2>2 DEF Spawn, At
    <3>2. /\ \A t \in Shells : t # s => shell'[t] = shell[t]
          /\ shell'[s].set = c /\ shell'[s].at = "popen"
      BY <1>0, <3>1, GotoEffect DEF Starting
    <3>3. /\ \A d \in Files : recorded'[d] = recorded[d] \/ recorded'[d] = MappingFiles(d)
          /\ \A d \in Files : pidFile'[d] = pidFile[d] \/ pidFile'[d] = None
      BY <1>0, <3>1 DEF IInv, TypeOK, Sets
    <3> QED  BY <3>1, <3>2, <3>3, SameBlank, KeepsG
  <2> QED  BY <2>1, <2>2
<1>3. CASE PortSeen(s)
  <2>1. pidFile[c] \in Pids \cup {None}
    BY <1>0, <1>3 DEF PortSeen, At, IInv, TypeOK, Shaped, Busy
  <2>2. /\ shell[s].op = "start" /\ Goto(s, "wait", pidFile[c])
        /\ UNCHANGED <<list, recorded, pidFile, proc>>
    BY <1>3 DEF PortSeen, At, files
  <2> QED  BY <1>0, <2>1, <2>2, SameBlank, MovesG DEF Starting
<1>4. CASE PortFails(s) \/ StartFails(s)
  BY <1>4, ClearG DEF PortFails, StartFails
<1>5. CASE StartAnswered(s)
  <2>1. CASE End(s) /\ Clear(c)
    BY <1>5, <2>1, ClearG DEF StartAnswered
  <2>2. CASE ~(End(s) /\ Clear(c))
    <3>1. /\ shell[s].op = "start" /\ Goto(s, "screen", None)
          /\ UNCHANGED <<list, recorded, pidFile, proc>>
      BY <1>5, <2>2 DEF StartAnswered, At, files
    <3> QED  BY <1>0, <3>1, SameBlank, MovesG DEF Starting
  <2> QED  BY <2>1, <2>2
<1> QED  BY <1>1, <1>2, <1>3, <1>4, <1>5, RefuseG, PopenG, WritePidG DEF StartSteps

\* The steps of a stop keep GInv.
LEMMA StopG ==
  ASSUME GInv, FInv', NEW s \in Shells, StopSteps(s) PROVE GInv'
<1> DEFINE p == shell[s].pid
<1>0. SInv /\ IInv /\ \A at \in Stopping : at \in Steps \ {"idle"}
  BY DEF GInv, FInv, SInv, Stopping, Steps
<1>t. proc \in [Pids -> Process]
  BY <1>0 DEF IInv, TypeOK
<1>1. CASE ReadPid(s)
  <2>1. CASE End(s) /\ Clear(shell[s].set)
    BY <1>1, <2>1, ClearG DEF ReadPid
  <2>2. CASE ~(End(s) /\ Clear(shell[s].set))
    <3>1. pidFile[shell[s].set] \in Pids \cup {None}
      BY <1>0, <1>1 DEF ReadPid, At, IInv, TypeOK, Shaped, Busy
    <3>2. /\ shell[s].op = "stop" /\ Goto(s, "term", pidFile[shell[s].set])
          /\ UNCHANGED <<list, recorded, pidFile, proc>>
      BY <1>1, <2>2 DEF ReadPid, At, files
    <3> QED  BY <1>0, <3>1, <3>2, SameBlank, MovesG DEF Stopping
  <2> QED  BY <2>1, <2>2
<1>2. CASE Terminate(s)
  <2>1. p \in Pids /\ shell[s].op = "stop" /\ Goto(s, "stopping", p)
        /\ UNCHANGED <<list, recorded, pidFile>>
    BY <1>0, <1>2 DEF Terminate, At, IInv, Shaped, files
  <2>2. \A q \in Pids :
          /\ proc'[q].set = proc[q].set \/ proc'[q].set = None
          /\ proc'[q].parent = proc[q].parent \/ proc'[q].parent = None
          /\ proc'[q].phase = "free" => proc'[q].set = None
          /\ Daemon(q)' => Daemon(q) /\ proc'[q].set = proc[q].set
    <3>1. CASE proc' = [proc EXCEPT ![p] = Ended(p)]
      BY <1>0, <1>t, <2>1, <3>1, EndedEffect, EndedBlank DEF Daemon, GInv, Blank
    <3>2. CASE proc' = [proc EXCEPT ![p].term = "signal"]
      BY <1>t, <2>1, <3>2 DEF Daemon, GInv, Blank, Process
    <3>3. CASE proc' = proc
      BY <3>3, SameBlank
    <3> QED  BY <1>2, <3>1, <3>2, <3>3 DEF Terminate
  <2> QED  BY <1>0, <2>1, <2>2, MovesG DEF Stopping
<1>3. CASE Kill(s)
  <2>1. p \in Pids /\ shell[s].op = "stop" /\ Goto(s, "killed", p)
        /\ proc' = [proc EXCEPT ![p] = Ended(p)] /\ UNCHANGED <<list, recorded, pidFile>>
    BY <1>0, <1>3 DEF Kill, At, IInv, Shaped, files
  <2>2. \A q \in Pids :
          /\ proc'[q].set = proc[q].set \/ proc'[q].set = None
          /\ proc'[q].parent = proc[q].parent \/ proc'[q].parent = None
          /\ proc'[q].phase = "free" => proc'[q].set = None
          /\ Daemon(q)' => Daemon(q) /\ proc'[q].set = proc[q].set
    BY <1>0, <1>t, <2>1, EndedEffect, EndedBlank DEF Daemon, GInv, Blank
  <2> QED  BY <1>0, <2>1, <2>2, MovesG DEF Stopping
<1>4. CASE Stopped(s)
  BY <1>4, ClearG DEF Stopped
<1> QED  BY <1>1, <1>2, <1>3, <1>4 DEF StopSteps

\* A call starts nothing.
LEMMA CallG ==
  ASSUME GInv, FInv', NEW s \in Shells, CallSteps(s) PROVE GInv'
<1>1. /\ shell' = [shell EXCEPT ![s] = NoCommand] /\ UNCHANGED <<list, recorded, pidFile>>
      /\ shell \in [Shells -> Command] /\ proc \in [Pids -> Process]
  BY DEF CallSteps, CallAnswered, CallFails, files, GInv, FInv, SInv, IInv, TypeOK
<1>2. \A t \in Shells : shell'[t] = shell[t] \/ shell'[t].at = "idle"
  BY <1>1 DEF NoCommand
<1>3. \A q \in Pids :
        /\ proc'[q].set = proc[q].set \/ proc'[q].set = None
        /\ proc'[q].parent = proc[q].parent \/ proc'[q].parent = None
        /\ proc'[q].phase = "free" => proc'[q].set = None
        /\ Daemon(q)' => Daemon(q) /\ proc'[q].set = proc[q].set
  <2>1. CASE proc' = proc
    BY <2>1, SameBlank
  <2>2. CASE proc' = [proc EXCEPT ![portFile[shell[s].set]].loaded = MappingFiles(shell[s].set)]
    BY <1>1, <2>2 DEF Daemon, Process, GInv, Blank
  <2> QED  BY <2>1, <2>2 DEF CallSteps, CallAnswered, CallFails
<1> QED  BY <1>1, <1>2, <1>3, KeepsG

\* A new command has passed no checks and has no children.
LEMMA BeginG ==
  ASSUME GInv, FInv', NEW s \in Shells, BeginSteps(s) PROVE GInv'
<1>1. PICK op \in {"start", "stop"} \cup Calls, c \in Sets, at \in {"refuse", "read", "connect"} :
        Begin(s, op, c, at)
  BY ShellSetType DEF BeginSteps, BeginStart, BeginStop, BeginCall
<1>2. /\ shell[s].at = "idle" /\ shell'[s].at = at /\ \A t \in Shells : t # s => shell'[t] = shell[t]
      /\ UNCHANGED <<list, recorded, pidFile, proc>>
  BY <1>1 DEF Begin, Busy, GInv, FInv, SInv, IInv, TypeOK, files
<1> QED  BY <1>2, SameBlank, KeepsG

\* A worker names itself in no pid file; one that ends leaves its set at most a zombie.
LEMMA WorkerG ==
  ASSUME GInv, FInv', NEW p \in Pids, WorkerSteps(p) \/ Crash(p) \/ Foreign(p) PROVE GInv'
<1>1. UNCHANGED <<shell, list, recorded, pidFile>>
  BY DEF WorkerSteps, Bind, Load, Ready, Unbind, Exit, Crash, Foreign, files
<1>2. proc \in [Pids -> Process] /\ IInv
  BY DEF GInv, FInv, SInv, IInv, TypeOK
<1>3. ASSUME NEW q \in Pids
      PROVE  /\ proc'[q].set = proc[q].set \/ proc'[q].set = None
             /\ proc'[q].parent = proc[q].parent \/ proc'[q].parent = None
             /\ proc'[q].phase = "free" => proc'[q].set = None
             /\ Daemon(q)' => Daemon(q) /\ proc'[q].set = proc[q].set
  <2>0. proc[q].phase = "free" => proc[q].set = None
    BY DEF GInv, Blank
  <2>1. CASE q # p
    BY <1>2, <2>0, <2>1 DEF WorkerSteps, Bind, Load, Ready, Unbind, Exit, Crash, Foreign, Daemon
  <2>2. CASE q = p
    <3>1. CASE Bind(p) \/ Load(p) \/ Ready(p) \/ Unbind(p)
      BY <1>2, <2>0, <2>2, <3>1 DEF Bind, Load, Ready, Unbind, Daemon, Process
    <3>2. CASE Exit(p) \/ Crash(p)
      BY <1>2, <2>2, <3>2, EndedEffect, EndedBlank DEF Exit, Crash, Daemon
    <3>3. CASE Foreign(p)
      BY <1>2, <2>2, <3>3 DEF Foreign, Daemon, NoProcess, Process
    <3> QED  BY <2>2, <3>1, <3>2, <3>3 DEF WorkerSteps
  <2> QED  BY <2>1, <2>2
<1> QED  BY <1>1, <1>3, KeepsG

\* The list is edited while no global worker runs and none is being started.
LEMMA EditListG == ASSUME GInv, FInv', ~ListEdits, EditList PROVE GInv'
<1>1. /\ UNCHANGED <<pidFile, recorded, proc, shell>>
      /\ \A p \in Pids : proc[p].set = Global => ~Daemon(p)
      /\ \A s \in Shells : shell[s].set = Global => ~Writes(s)
  BY DEF EditList, files
<1>2. \A s \in Shells : shell[s].at \in {"ingest", "spawn", "popen"} => Writes(s)
  BY DEF GInv, FInv, SInv, IInv, TypeOK, Shaped, Busy, Writes, Stopping, Command
<1>3. ~GlobalAsked'
  BY <1>1, <1>2 DEF GlobalAsked, Daemon
<1>4. Unlisted'
  BY <1>1 DEF Unlisted, Daemon
<1> QED  BY <1>1, <1>3, <1>4 DEF GInv, OwnLists, Blank, Childless, Disowned

\* Every step keeps GInv.
LEMMA NextG == GInv /\ OneAtATime /\ ~ListEdits /\ [Next]_vars => GInv'
<1> SUFFICES ASSUME GInv, OneAtATime, ~ListEdits, [Next]_vars PROVE GInv'
  OBVIOUS
<1>1. FInv'
  BY NextF DEF GInv
<1>2. CASE UNCHANGED vars
  BY <1>1, <1>2, SameBlank, KeepsG DEF vars, files
<1>3. ASSUME NEW s \in Shells, Interrupt(s) PROVE GInv'
  BY <1>1, <1>3, EndG DEF Interrupt, files
<1> QED  BY <1>1, <1>2, <1>3, BeginG, StartG, StopG, CallG, WorkerG, EditListG DEF Next

\* GInv holds at first.
LEMMA InitG == Init => GInv
<1> SUFFICES ASSUME Init PROVE GInv
  OBVIOUS
<1>1. /\ \A p \in Pids : ~Daemon(p) /\ proc[p].set = None
      /\ \A s \in Shells : shell[s].at = "idle"
      /\ \A d \in Files : recorded[d] = {}
  BY DEF Init, NoProcess, NoCommand, Daemon, Sets
<1> QED  BY <1>1, InitF DEF GInv, OwnLists, Blank, Childless, GlobalAsked, Disowned, Unlisted

\* The set that a command with -c f finds for a file that a worker has loaded.
LEMMA GInvServed == ASSUME GInv PROVE Served
<1> SUFFICES ASSUME NEW p \in Pids, NEW s \in Shells, Daemon(p), pidFile[proc[p].set] = p,
                    NEW f \in proc[p].loaded, ShellSet(f, s) # proc[p].set
             PROVE  pidFile[ShellSet(f, s)] # None
                    /\ proc[pidFile[ShellSet(f, s)]].set # ShellSet(f, s)
  BY DEF Served
<1> DEFINE c      == proc[p].set
           owners == Overlaps({f}, s)
<1>0. Global \notin Files /\ None \notin Pids
  BY NamesAssumption
<1>1. c \in Sets /\ f \in MappingFiles(c) /\ recorded[c] = MappingFiles(c)
  BY DEF GInv, FInv, Recorded, SInv, IInv, Shaped
<1>2. f \in Files
  BY <1>1 DEF GInv, FInv, SInv, IInv, TypeOK, MappingFiles, Sets
<1>3. c \in owners
  <2>1. IsRunning(c, s)
    BY <1>0 DEF IsRunning, Alive, Daemon
  <2> QED  BY <1>1, <2>1 DEF Overlaps, LoadedFiles
<1>4. c = Global \/ c = f
  BY <1>1 DEF MappingFiles
<1>5. \A d \in owners : d = f \/ d = Global
  <2>1. \A d \in Files : LoadedFiles(d) \subseteq {d}
    BY <1>0 DEF LoadedFiles, MappingFiles, GInv, OwnLists
  <2> QED  BY <2>1 DEF Overlaps, Sets
<1>6. c = Global /\ f \in owners /\ ShellSet(f, s) = f
  <2>1. c # f
    BY <1>3, <1>0, <1>2 DEF ShellSet
  <2>2. c = Global
    BY <1>4, <2>1
  <2>3. f \in owners
    <3> SUFFICES ASSUME f \notin owners PROVE FALSE
      OBVIOUS
    <3>1. owners \ {Global} = {} /\ owners # {}
      BY <1>3, <1>5
    <3> QED  BY <1>0, <1>2, <2>2, <3>1 DEF ShellSet
  <2> QED  BY <2>2, <2>3 DEF ShellSet
<1>7. pidFile[f] # None
  BY <1>6 DEF Overlaps, IsRunning
<1>8. pidFile[f] \in Pids
  BY <1>2, <1>7 DEF GInv, FInv, SInv, IInv, TypeOK, Sets
<1>9. f \in list /\ GlobalAsked
  BY <1>1, <1>6 DEF MappingFiles, GlobalAsked
<1>10. proc[pidFile[f]].set # f
  BY <1>2, <1>8, <1>9 DEF GInv, Disowned
<1> QED  BY <1>6, <1>7, <1>10

\* "A command with -c FILE talks to the daemon that serves FILE", while starts and stops
\* come one at a time and the list is not edited under a global worker: a worker's files
\* are found at its set, unless a stale pid file of the file's own set names a process
\* that is no worker of it.
THEOREM ServedCorrect ==
  ASSUME OneAtATime, ~ListEdits PROVE Spec => []Served
<1>1. Spec => []GInv
  BY InitG, NextG, PTL DEF Spec
<1> QED  BY <1>1, GInvServed, PTL
=============================================================================
