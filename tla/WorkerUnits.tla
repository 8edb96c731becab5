----------------------------- MODULE WorkerUnits -----------------------------
(***************************************************************************)
(* daemon/ipc.py, daemon/runtime.py and daemon/workers.py: the threads of  *)
(* the daemon process.  The accept thread serves one request at a time and *)
(* waits inside it for the jobs the request queued; each worker unit's     *)
(* thread takes jobs from its queue and ticks when the queue is empty; the *)
(* catch-up thread starts the units; the resolve UI's HTTP thread queues   *)
(* jobs of its own.                                                        *)
(*                                                                         *)
(* What a job does to the disks is left out (LiveSync), as is when a tick  *)
(* is due: a unit with an empty queue may tick at any time.                *)
(***************************************************************************)
EXTENDS Naturals, Sequences, FiniteSets

CONSTANTS
  Units,       \* managed projects, each with a worker unit when it is mapped
  Requests,    \* requests of shells and of the resolve UI, each sent once
  Op,          \* what each request asks for
  Rank,        \* the place of a unit in the sorted names
  UnitOf,      \* the unit a create, restore, remove or resolve is routed to
  Mapped,      \* managed projects of the first mapping snapshot
  Reloads,     \* what users' edits of the mapping files may map instead
  MayStop,     \* whether the process gets SIGTERM
  MayDie,      \* whether a tick raises (LiveSync's "dead")
  MaxRaised,   \* bound on the jobs that raise
  NoOne        \* no request

Ops == {"status", "wait", "unit", "check", "reload", "resolve"}
Stop == "stop"

ASSUME RequestsAssumption ==
  /\ Op \in [Requests -> Ops]
  /\ UnitOf \in [Requests -> Units]
  /\ NoOne \notin Requests
  /\ Stop \notin Requests

ASSUME MappingsAssumption ==
  /\ Rank \in [Units -> Nat]
  /\ Mapped \subseteq Units
  /\ Reloads \subseteq SUBSET Units

VARIABLES
  snapshot,   \* managed projects of the mapping snapshot on disk
  units,      \* runtime.units
  queue,      \* each unit's job queue
  thread,     \* where each unit's thread is
  current,    \* the request whose job each unit runs
  done,       \* jobs whose waiter would return
  skipped,    \* jobs that found their request cancelled
  raised,     \* jobs that ended with an exception
  cancelled,  \* requests whose cancel was read
  main,       \* where the accept thread is
  serving,    \* the request the accept thread is inside of
  back,       \* the loop it took the request in
  waits,      \* units it waits for
  starting,   \* units a reload has yet to visit
  backlog,    \* connections not accepted yet
  pending,    \* requests that wait for ready
  answer,     \* what each request got
  http,       \* where the resolve UI's thread is, and for which request
  ready,      \* phase "ready"
  shutdown    \* the shutdown event

vars == <<snapshot, units, queue, thread, current, done, skipped, raised, cancelled, main,
          serving, back, waits, starting, backlog, pending, answer, http, ready, shutdown>>

unitVars == <<thread, current, done, skipped, raised>>
mainVars == <<main, serving, back, waits, starting, backlog, pending>>

TypeOK ==
  /\ snapshot \subseteq Units
  /\ units \subseteq Units
  /\ queue \in [Units -> Seq(Requests \cup {Stop})]
  /\ thread \in [Units -> {"none", "top", "get", "tick", "job", "exited", "dead"}]
  /\ current \in [Units -> Requests \cup {NoOne}]
  /\ done \subseteq Requests \X Units
  /\ skipped \subseteq done
  /\ raised \subseteq done
  /\ cancelled \subseteq Requests
  /\ main \in {"top", "accept", "release", "reload", "blocked", "direct", "leaving", "exited"}
  /\ serving \in Requests \cup {NoOne}
  /\ back \in {"top", "release"}
  /\ waits \subseteq Units
  /\ starting \subseteq Units
  /\ backlog \in Seq(Requests)
  /\ pending \in Seq(Requests)
  /\ answer \in [Requests -> {"none", "open", "ok", "stopped", "failed", "closed"}]
  /\ http \in [pc : {"down", "idle", "routed", "found", "blocked"}, req : Requests \cup {NoOne}]
  /\ ready \in BOOLEAN
  /\ shutdown \in BOOLEAN

Running == main # "exited"
Listening == main \notin {"leaving", "exited"}
-----------------------------------------------------------------------------
\* Shells and signals

\* A shell connects and writes its request.
Connect(r) ==
  /\ Listening
  /\ Op[r] # "resolve"
  /\ answer[r] = "none"
  /\ answer' = [answer EXCEPT ![r] = "open"]
  /\ backlog' = Append(backlog, r)
  /\ UNCHANGED <<snapshot, units, queue, unitVars, cancelled, main, serving, back, waits,
                 starting, pending, http, ready, shutdown>>

\* _watch_cancel reads the shell's cancel while the request is served.
Cancel ==
  /\ main = "blocked"
  /\ Op[serving] \in {"unit", "check"}
  /\ serving \notin cancelled
  /\ cancelled' = cancelled \cup {serving}
  /\ UNCHANGED <<snapshot, units, queue, unitVars, mainVars, answer, http, ready, shutdown>>

\* SIGTERM, or a catch-up that failed.
Signal ==
  /\ MayStop
  /\ Running
  /\ ~shutdown
  /\ shutdown' = TRUE
  /\ UNCHANGED <<snapshot, units, queue, unitVars, cancelled, mainVars, answer, http, ready>>
-----------------------------------------------------------------------------
\* The accept thread

Reply(r, what) == answer' = [answer EXCEPT ![r] = what]

\* submit_async: r's job goes to the end of each of these units' queues.
Submitted(r, us) == [u \in Units |-> IF u \in us THEN Append(queue[u], r) ELSE queue[u]]

\* The request is inside its handler until these units have run its job.
WaitFor(r, us, loop) ==
  /\ queue' = Submitted(r, us)
  /\ main' = "blocked"
  /\ serving' = r
  /\ back' = loop
  /\ waits' = us
  /\ UNCHANGED <<snapshot, units, starting, answer>>

\* The request is answered at once.
ServeNow(r, loop) ==
  /\ Reply(r, "ok")
  /\ main' = loop
  /\ UNCHANGED <<snapshot, units, queue, serving, back, waits, starting>>

\* _run_direct_request: the handler runs on the accept thread.
ServeDirect(r, loop) ==
  /\ main' = "direct"
  /\ serving' = r
  /\ back' = loop
  /\ UNCHANGED <<snapshot, units, queue, waits, starting, answer>>

\* _handle_live_request, for a create, restore or remove
ServeUnit(r, loop) ==
  /\ Op[r] = "unit"
  /\ IF UnitOf[r] \in units THEN WaitFor(r, {UnitOf[r]}, loop) ELSE ServeDirect(r, loop)

\* _fanout_check
ServeCheck(r, loop) ==
  /\ Op[r] = "check"
  /\ IF units # {} THEN WaitFor(r, units, loop) ELSE ServeDirect(r, loop)

\* Mutant: the unit of a removed project is neither stopped nor dropped.
RetiredNone(mapped) == {}

\* Units whose managed project is mapped no more.
Retired(mapped) == units \ mapped

\* prepare_reload commits the snapshot; _reload_units stops the units that are
\* not mapped any more and goes on to the others.  Without units the request
\* goes to commit_reload.  Bound: a project that was removed is not mapped again.
ServeReload(r, loop) ==
  /\ Op[r] = "reload"
  /\ \/ /\ units = {}
        /\ ServeDirect(r, loop)
     \/ /\ units # {}
        /\ \E mapped \in Reloads, edited \in SUBSET snapshot :
             LET affected == (edited \cap mapped) \cup (snapshot \ mapped) \cup (mapped \ snapshot)
                 gone     == Retired(mapped)
             IN
             /\ \A u \in mapped \ units : thread[u] = "none"
             /\ \/ /\ affected = {}
                   /\ ServeNow(r, loop)
                \/ /\ affected # {}
                   /\ snapshot' = mapped
                   /\ units' = units \ gone
                   /\ queue' = Submitted(Stop, gone)
                   /\ starting' = affected \cap mapped
                   /\ main' = "reload"
                   /\ serving' = r
                   /\ back' = loop
                   /\ waits' = {}
                   /\ UNCHANGED answer

Serve(r, loop) ==
  /\ ServeUnit(r, loop) \/ ServeCheck(r, loop) \/ ServeReload(r, loop)
  /\ UNCHANGED unitVars

\* The thread leaves its request with this answer.
Answered(what) ==
  /\ Reply(serving, what)
  /\ main' = back
  /\ serving' = NoOne
  /\ waits' = {}

\* The handler returns or raises.  commit_reload commits a mapping and catches up,
\* or refuses, and starts no unit.
DirectDone ==
  /\ main = "direct"
  /\ \E what \in {"ok", "failed"} : Answered(what)
  /\ \/ UNCHANGED snapshot
     \/ Op[serving] = "reload" /\ snapshot' \in Reloads
  /\ UNCHANGED <<units, queue, unitVars, cancelled, back, starting, backlog, pending, http,
                 ready, shutdown>>

\* The next managed project of the reload in the order of names: a job for its unit,
\* or a catch-up on this thread and a new unit.
ReloadNext(u) ==
  /\ main = "reload"
  /\ u \in starting
  /\ \A v \in starting : Rank[u] <= Rank[v]
  /\ starting' = starting \ {u}
  /\ IF u \in units
     THEN /\ queue' = Submitted(serving, {u})
          /\ waits' = waits \cup {u}
          /\ UNCHANGED <<units, thread>>
     ELSE /\ units' = units \cup {u}
          /\ thread' = [thread EXCEPT ![u] = "top"]
          /\ UNCHANGED <<queue, waits>>
  /\ UNCHANGED <<snapshot, current, done, skipped, raised, cancelled, main, serving, back,
                 backlog, pending, answer, http, ready, shutdown>>

\* The catch-up of a new unit raises: the projects after it are not visited, and the
\* jobs queued before it not waited for.
ReloadRaises ==
  /\ main = "reload"
  /\ starting \ units # {}
  /\ \E u \in starting \ units : \A v \in starting : Rank[u] <= Rank[v]
  /\ Answered("failed")
  /\ starting' = {}
  /\ UNCHANGED <<snapshot, units, queue, unitVars, cancelled, back, backlog, pending, http,
                 ready, shutdown>>

ReloadWaits ==
  /\ main = "reload"
  /\ starting = {}
  /\ main' = "blocked"
  /\ UNCHANGED <<snapshot, units, queue, unitVars, cancelled, serving, back, waits, starting,
                 backlog, pending, answer, http, ready, shutdown>>

\* Mutants: the first finished job answers; a job that found its request
\* cancelled returns before it wakes its waiter; a skipped unit is not reported;
\* what the job reports is replied as it is.
JobsOverAny == waits = {} \/ \E u \in waits : <<serving, u>> \in done
JobsOverUnskipped == \A u \in waits : <<serving, u>> \in done \ skipped
OutcomeNoStop == IF \E u \in waits : <<serving, u>> \in raised THEN "failed" ELSE "ok"
OutcomeSkipped == IF \E u \in waits : <<serving, u>> \in skipped THEN "skipped" ELSE "ok"

\* The waiters return in the order of names, and the first job that raised ends it.
JobsOver ==
  \/ \A u \in waits : <<serving, u>> \in done
  \/ \E u \in waits :
       /\ <<serving, u>> \in raised
       /\ \A v \in waits : Rank[v] < Rank[u] => <<serving, v>> \in done

Outcome ==
  CASE \E u \in waits : <<serving, u>> \in raised  -> "failed"
    [] \A u \in waits : <<serving, u>> \notin raised \cup skipped -> "ok"
    [] OTHER -> "stopped"

Wake ==
  /\ main = "blocked"
  /\ JobsOver
  /\ Answered(Outcome)
  /\ UNCHANGED <<snapshot, units, queue, unitVars, cancelled, back, starting, backlog,
                 pending, http, ready, shutdown>>

\* serve_requests: leave, or block in accept.  The listening socket and the
\* pending connections are closed.
Top ==
  /\ main = "top"
  /\ \/ /\ ~shutdown
        /\ main' = "accept"
        /\ UNCHANGED answer
     \/ /\ shutdown
        /\ main' = "leaving"
        /\ answer' = [r \in Requests |->
             IF answer[r] = "open" /\ Op[r] # "resolve" THEN "closed" ELSE answer[r]]
  /\ UNCHANGED <<snapshot, units, queue, unitVars, cancelled, serving, back, waits, starting,
                 backlog, pending, http, ready, shutdown>>

\* Mutant: a request is served while the catch-up thread still runs.
MustWaitNever(r) == FALSE

\* During catch-up every request but a status waits for ready.
MustWait(r) == Op[r] # "status" /\ ~ready

\* _accept_one
Accept ==
  /\ main = "accept"
  /\ backlog # <<>>
  /\ backlog' = Tail(backlog)
  /\ LET r == Head(backlog)
     IN \/ /\ MustWait(r)
           /\ pending' = Append(pending, r)
           /\ main' = "top"
           /\ UNCHANGED <<snapshot, units, queue, unitVars, serving, back, waits, starting, answer>>
        \/ /\ ~MustWait(r)
           /\ Op[r] \in {"status", "wait"}
           /\ ServeNow(r, "top")
           /\ UNCHANGED <<unitVars, pending>>
        \/ /\ ~MustWait(r)
           /\ Serve(r, "top")
           /\ UNCHANGED pending
  /\ UNCHANGED <<cancelled, http, ready, shutdown>>

\* accept timed out: _on_idle releases the pending requests once ready.
AcceptTimeout ==
  /\ main = "accept"
  /\ backlog = <<>>
  /\ main' = IF ready /\ pending # <<>> THEN "release" ELSE "top"
  /\ UNCHANGED <<snapshot, units, queue, unitVars, cancelled, serving, back, waits, starting,
                 backlog, pending, answer, http, ready, shutdown>>

Release ==
  /\ main = "release"
  /\ IF pending = <<>>
     THEN /\ main' = "top"
          /\ UNCHANGED <<snapshot, units, queue, unitVars, serving, back, waits, starting, answer, pending>>
     ELSE LET r == Head(pending)
          IN /\ pending' = Tail(pending)
             /\ \/ /\ Op[r] = "wait"
                   /\ ServeNow(r, "release")
                   /\ UNCHANGED unitVars
                \/ Serve(r, "release")
  /\ UNCHANGED <<cancelled, backlog, http, ready, shutdown>>

\* stop_resolve_ui waits for the HTTP loop; then the process ends.
Exit ==
  /\ main = "leaving"
  /\ http.pc \in {"down", "idle"}
  /\ main' = "exited"
  /\ UNCHANGED <<snapshot, units, queue, unitVars, cancelled, serving, back, waits, starting,
                 backlog, pending, answer, http, ready, shutdown>>

Main ==
  \/ Top \/ Accept \/ AcceptTimeout \/ Release \/ DirectDone \/ ReloadRaises \/ ReloadWaits
  \/ Wake \/ Exit
  \/ \E u \in Units : ReloadNext(u)
-----------------------------------------------------------------------------
\* A worker unit's thread

\* Only this thread moves, and it moves to p.
UnitStep(u, p) ==
  /\ Running
  /\ thread' = [thread EXCEPT ![u] = p]
  /\ UNCHANGED <<snapshot, units, cancelled, mainVars, answer, http, ready, shutdown>>

UnitTop(u) ==
  /\ thread[u] = "top"
  /\ UnitStep(u, IF shutdown THEN "exited" ELSE "get")
  /\ UNCHANGED <<queue, current, done, skipped, raised>>

\* A job, or the end: a job whose request is cancelled by now does nothing.
UnitTake(u) ==
  /\ thread[u] = "get"
  /\ queue[u] # <<>>
  /\ queue' = [queue EXCEPT ![u] = Tail(@)]
  /\ LET r == Head(queue[u])
     IN \/ /\ r = Stop
           /\ UnitStep(u, "exited")
           /\ UNCHANGED <<current, done, skipped>>
        \/ /\ r # Stop
           /\ r \in cancelled
           /\ UnitStep(u, "top")
           /\ done' = done \cup {<<r, u>>}
           /\ skipped' = skipped \cup {<<r, u>>}
           /\ UNCHANGED current
        \/ /\ r # Stop
           /\ r \notin cancelled
           /\ UnitStep(u, "job")
           /\ current' = [current EXCEPT ![u] = r]
           /\ UNCHANGED <<done, skipped>>
  /\ UNCHANGED raised

\* The job returns or raises, and its event is set in both cases.
UnitJobDone(u) ==
  /\ thread[u] = "job"
  /\ UnitStep(u, "top")
  /\ done' = done \cup {<<current[u], u>>}
  /\ \/ UNCHANGED raised
     \/ /\ Cardinality(raised) < MaxRaised
        /\ raised' = raised \cup {<<current[u], u>>}
  /\ current' = [current EXCEPT ![u] = NoOne]
  /\ UNCHANGED <<queue, skipped>>

\* No job came until the next idle observe was due.
UnitIdle(u) ==
  /\ thread[u] = "get"
  /\ queue[u] = <<>>
  /\ UnitStep(u, "tick")
  /\ UNCHANGED <<queue, current, done, skipped, raised>>

\* The tick ends, or raises: nothing in _run or _idle catches it.
UnitTicked(u) ==
  /\ thread[u] = "tick"
  /\ \/ UnitStep(u, "top")
     \/ MayDie /\ UnitStep(u, "dead")
  /\ UNCHANGED <<queue, current, done, skipped, raised>>

Unit(u) == UnitTop(u) \/ UnitTake(u) \/ UnitJobDone(u) \/ UnitIdle(u) \/ UnitTicked(u)
-----------------------------------------------------------------------------
\* The catch-up thread, and the HTTP thread of the resolve UI

\* Catch-up is over: every mapped project's unit starts, and the resolve UI,
\* which is assumed to find a port.
StartUnits ==
  /\ Running
  /\ ~shutdown
  /\ http.pc = "down"
  /\ units' = snapshot
  /\ thread' = [u \in Units |-> IF u \in snapshot THEN "top" ELSE thread[u]]
  /\ http' = [http EXCEPT !.pc = "idle"]
  /\ UNCHANGED <<snapshot, queue, current, done, skipped, raised, cancelled, mainVars, answer, ready, shutdown>>

SetReady ==
  /\ Running
  /\ http.pc # "down"
  /\ ~ready
  /\ ready' = TRUE
  /\ UNCHANGED <<snapshot, units, queue, unitVars, cancelled, mainVars, answer, http, shutdown>>

\* A browser submits a confirmed fact.  The HTTP server still listens when the
\* accept thread has left its loop.
Submit(r) ==
  /\ Running
  /\ http.pc = "idle"
  /\ Op[r] = "resolve"
  /\ answer[r] = "none"
  /\ Reply(r, "open")
  /\ http' = [pc |-> "routed", req |-> r]
  /\ UNCHANGED <<snapshot, units, queue, unitVars, cancelled, mainVars, ready, shutdown>>

\* apply_resolve looks the unit up, and refuses when there is none ...
HttpRoute ==
  LET r == http.req
  IN
  /\ Running
  /\ http.pc = "routed"
  /\ IF UnitOf[r] \in units
     THEN /\ http' = [http EXCEPT !.pc = "found"]
          /\ UNCHANGED answer
     ELSE /\ Reply(r, "failed")
          /\ http' = [pc |-> "idle", req |-> NoOne]
  /\ UNCHANGED <<snapshot, units, queue, unitVars, cancelled, mainVars, ready, shutdown>>

\* ... then queues its job there ...
HttpSubmit ==
  /\ Running
  /\ http.pc = "found"
  /\ queue' = Submitted(http.req, {UnitOf[http.req]})
  /\ http' = [http EXCEPT !.pc = "blocked"]
  /\ UNCHANGED <<snapshot, units, unitVars, cancelled, mainVars, answer, ready, shutdown>>

\* ... and replies when the job is done.
HttpReply ==
  /\ Running
  /\ http.pc = "blocked"
  /\ <<http.req, UnitOf[http.req]>> \in done
  /\ Reply(http.req, IF <<http.req, UnitOf[http.req]>> \in raised THEN "failed" ELSE "ok")
  /\ http' = [pc |-> "idle", req |-> NoOne]
  /\ UNCHANGED <<snapshot, units, queue, unitVars, cancelled, mainVars, ready, shutdown>>

CatchUp == StartUnits \/ SetReady
Http == HttpRoute \/ HttpSubmit \/ HttpReply
-----------------------------------------------------------------------------
Init ==
  /\ snapshot = Mapped
  /\ units = {}
  /\ queue = [u \in Units |-> <<>>]
  /\ thread = [u \in Units |-> "none"]
  /\ current = [u \in Units |-> NoOne]
  /\ done = {}
  /\ skipped = {}
  /\ raised = {}
  /\ cancelled = {}
  /\ main = "top"
  /\ serving = NoOne
  /\ back = "top"
  /\ waits = {}
  /\ starting = {}
  /\ backlog = <<>>
  /\ pending = <<>>
  /\ answer = [r \in Requests |-> "none"]
  /\ http = [pc |-> "down", req |-> NoOne]
  /\ ready = FALSE
  /\ shutdown = FALSE

Next ==
  \/ \E r \in Requests : Connect(r) \/ Submit(r)
  \/ Cancel
  \/ Signal
  \/ Main
  \/ \E u \in Units : Unit(u)
  \/ CatchUp
  \/ Http

Spec == Init /\ [][Next]_vars

FairSpec ==
  /\ Spec
  /\ WF_vars(Main)
  /\ WF_vars(CatchUp)
  /\ WF_vars(Http)
  /\ \A u \in Units : WF_vars(Unit(u))
-----------------------------------------------------------------------------
\* Properties

\* During catch-up nothing else works on the trees: until the phase is ready the accept
\* thread is inside no request, no job is queued or was done for a shell, and only a
\* status was answered.
NothingBeforeReady ==
  ~ready =>
    /\ serving = NoOne
    /\ \A r \in Requests : Op[r] \notin {"resolve", "status"} =>
         /\ answer[r] \in {"none", "open", "closed"}
         /\ \A u \in Units : <<r, u>> \notin done /\ current[u] # r

\* An answer is the end of the request: none of its jobs is queued or running on any
\* unit, so the shell may act on the result.  The exception is a check or a reload that
\* answers with an error: it does not wait for the units after the one that failed.
AnswerIsFinal ==
  \A r \in Requests :
    \/ answer[r] \in {"ok", "stopped"}
    \/ answer[r] = "failed" /\ Op[r] \notin {"check", "reload"}
    => \A u \in Units : current[u] # r /\ \A i \in 1..Len(queue[u]) : queue[u][i] # r

\* A check that was not stopped has looked at every unit there is.
CheckIsComplete ==
  [][\A r \in Requests :
       Op[r] = "check" /\ answer[r] = "open" /\ answer'[r] = "ok" =>
         \A u \in units : <<r, u>> \in done \ (skipped \cup raised)]_vars

\* docs/adr/0021: reload starts new units and stops removed ones.  Between two requests
\* of a ready daemon only mapped projects have a unit that observes them, and all of
\* them have, unless a reload failed, or there was no unit for it to go on from.
MappedAreObserved ==
  ready /\ serving = NoOne =>
    /\ units \subseteq snapshot
    /\ \/ units \in {{}, snapshot}
       \/ \E r \in Requests : Op[r] = "reload" /\ answer[r] = "failed"

\* Every request that reached the daemon is answered, or its connection closed.
EveryRequestAnswered ==
  \A r \in Requests : answer[r] = "open" ~> answer[r] # "open"

\* What the accept thread or the HTTP thread waits for will never come: the
\* unit's thread ended with the job still in its queue.
Abandoned(r, u) ==
  /\ thread[u] \in {"exited", "dead"}
  /\ \E i \in 1..Len(queue[u]) : queue[u][i] = r

LeftWaiting ==
  \/ main = "blocked" /\ \E u \in waits : Abandoned(serving, u)
  \/ http.pc = "blocked" /\ Abandoned(http.req, UnitOf[http.req])

\* SIGTERM ends the process by itself, unless a job was left in the queue of a
\* unit whose thread is over: only then is the SIGKILL of daemon stop needed.
StopEnds == shutdown ~> (main = "exited" \/ LeftWaiting)
=============================================================================
