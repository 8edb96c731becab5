-------------------------- MODULE WorkerUnitsProofs --------------------------
(***************************************************************************)
(* What WorkerUnits guarantees for every set of units and requests, every  *)
(* mapping, every failing job and every interleaving of the threads: the   *)
(* types, that nothing is served before ready, that an answer is final,    *)
(* that a check is complete, and which projects have a unit.               *)
(*                                                                         *)
(* The third needs to know who owns a job: every job in a queue or on a    *)
(* unit's thread is waited for, either by the request the accept thread is *)
(* inside of or by the one the resolve UI's thread is blocked in, or it is *)
(* left over from a check or a reload that failed; and no job is twice in  *)
(* a queue.  IInv says so; ThreadInv adds that a thread in a job has one.  *)
(***************************************************************************)
EXTENDS WorkerUnits, TLAPS

USE RequestsAssumption, MappingsAssumption
-----------------------------------------------------------------------------
\* Elements of a queue

In(x, s) == \E i \in 1..Len(s) : s[i] = x
Once(x, s) == \A i, j \in 1..Len(s) : s[i] = x /\ s[j] = x => i = j

\* Appending adds one element, which occurs once if it was not there.
LEMMA AppendIn ==
  ASSUME NEW S, NEW s \in Seq(S), NEW e \in S, NEW x
  PROVE  /\ Append(s, e) \in Seq(S)
         /\ In(x, Append(s, e)) <=> In(x, s) \/ x = e
         /\ Once(x, s) /\ (x = e => ~In(x, s)) => Once(x, Append(s, e))
<1>1. /\ Append(s, e) \in Seq(S)
      /\ Len(Append(s, e)) = Len(s) + 1
      /\ \A i \in 1..Len(s) : Append(s, e)[i] = s[i]
      /\ Append(s, e)[Len(s) + 1] = e
      /\ Len(s) \in Nat
  OBVIOUS
<1>2. 1..(Len(s) + 1) = (1..Len(s)) \cup {Len(s) + 1}
  BY <1>1
<1>3. In(x, Append(s, e)) <=> In(x, s) \/ x = e
  BY <1>1, <1>2 DEF In
<1>4. ASSUME Once(x, s), x = e => ~In(x, s)
      PROVE  Once(x, Append(s, e))
  BY <1>1, <1>2, <1>4 DEF In, Once
<1> QED  BY <1>1, <1>3, <1>4

\* Taking the head removes it, if it was there once, and nothing else.
LEMMA TailIn ==
  ASSUME NEW S, NEW s \in Seq(S), s # <<>>, NEW x
  PROVE  /\ Head(s) \in S
         /\ Tail(s) \in Seq(S)
         /\ In(Head(s), s)
         /\ In(x, Tail(s)) => In(x, s)
         /\ Once(x, s) => Once(x, Tail(s))
         /\ Once(Head(s), s) => ~In(Head(s), Tail(s))
<1>1. /\ Len(s) \in Nat \ {0}
      /\ Head(s) = s[1] /\ Head(s) \in S
      /\ Tail(s) \in Seq(S)
      /\ Len(Tail(s)) = Len(s) - 1
      /\ \A i \in 1..Len(Tail(s)) : Tail(s)[i] = s[i + 1]
  OBVIOUS
<1>2. \A i \in 1..Len(Tail(s)) : i + 1 \in 1..Len(s) /\ i + 1 # 1
  BY <1>1
<1>3. 1 \in 1..Len(s)
  BY <1>1
<1> QED  BY <1>1, <1>2, <1>3 DEF In, Once
-----------------------------------------------------------------------------
\* The inductive invariant

Works(r, u) == In(r, queue[u]) \/ current[u] = r

\* Who waits for r's job on u.
Owned(r, u) ==
  \/ r = serving /\ u \in waits
  \/ http.pc = "blocked" /\ r = http.req /\ u = UnitOf[r]

\* Nobody waits for the jobs of a check or a reload that failed.
Orphan(r) == answer[r] = "failed" /\ Op[r] \in {"check", "reload"}

\* The accept thread is inside an open request, and nothing is served before ready.
ServingInv ==
  /\ main \in {"reload", "blocked", "direct"} <=> serving # NoOne
  /\ serving # NoOne => Op[serving] \in {"unit", "check", "reload"} /\ answer[serving] = "open" /\ ready
  /\ serving # NoOne /\ Op[serving] = "unit" => waits \subseteq {UnitOf[serving]}
  /\ main \notin {"reload", "blocked"} => waits = {}
  /\ main = "release" => ready
  /\ main = "reload" => Op[serving] = "reload" /\ starting \cap waits = {}

\* The HTTP thread is inside an open resolve.
HttpInv ==
  /\ http.pc \in {"down", "idle"} <=> http.req = NoOne
  /\ http.req # NoOne => Op[http.req] = "resolve" /\ answer[http.req] = "open"

\* Every job is waited for, is once in the process, and is over when it is done.
Job(r, u) ==
  /\ Works(r, u) => Owned(r, u) \/ Orphan(r)
  /\ Works(r, u) /\ Op[r] # "resolve" => ready
  /\ Once(r, queue[u])
  /\ In(r, queue[u]) => current[u] # r
  /\ <<r, u>> \in done =>
       /\ ~Works(r, u)
       /\ answer[r] # "none"
       /\ Op[r] # "resolve" => ready
       /\ r = serving => u \in waits
       /\ r = http.req => http.pc = "blocked"

JobInv == \A r \in Requests, u \in Units : Job(r, u)

\* A connection that waits has no job yet.
Unserved(r) ==
  /\ Op[r] # "resolve"
  /\ r # serving
  /\ answer[r] \in {"open", "closed"}
  /\ Listening => answer[r] = "open"
  /\ \A u \in Units : <<r, u>> \notin done

ConnectionInv ==
  \A r \in Requests :
    /\ In(r, backlog) \/ In(r, pending) => Unserved(r)
    /\ Once(r, backlog) /\ Once(r, pending)
    /\ In(r, backlog) => ~In(r, pending)

IInv == TypeOK /\ ServingInv /\ HttpInv /\ JobInv /\ ConnectionInv
-----------------------------------------------------------------------------
\* It holds when the daemon starts.
LEMMA InitInv == Init => IInv
<1> SUFFICES ASSUME Init PROVE IInv
  OBVIOUS
<1>1. \A x : ~In(x, <<>>) /\ Once(x, <<>>)
  BY DEF In, Once
<1>2. TypeOK
  <2>1. <<>> \in Seq(Requests \cup {Stop}) /\ <<>> \in Seq(Requests)
    OBVIOUS
  <2>2. queue \in [Units -> Seq(Requests \cup {Stop})]
    BY <2>1 DEF Init
  <2> QED  BY <2>1, <2>2 DEF Init, TypeOK
<1>3. ServingInv /\ HttpInv
  BY DEF Init, ServingInv, HttpInv
<1>4. JobInv
  BY <1>1 DEF Init, JobInv, Job, Works
<1>5. ConnectionInv
  BY <1>1 DEF Init, ConnectionInv
<1> QED  BY <1>2, <1>3, <1>4, <1>5 DEF IInv

\* Steps that touch no queue, no job and no connection.
LEMMA QuietInv ==
  ASSUME IInv, Cancel \/ Signal \/ ReloadWaits \/ AcceptTimeout \/ Exit \/ SetReady
  PROVE  IInv'
<1>1. CASE Cancel
  BY <1>1 DEF Cancel, mainVars, unitVars, IInv, TypeOK, ServingInv, HttpInv, JobInv, Job, ConnectionInv, Works, Owned, Orphan, Unserved, Listening
<1>2. CASE Signal
  BY <1>2 DEF Signal, mainVars, unitVars, IInv, TypeOK, ServingInv, HttpInv, JobInv, Job, ConnectionInv, Works, Owned, Orphan, Unserved, Listening
<1>3. CASE ReloadWaits
  BY <1>3 DEF ReloadWaits, unitVars, IInv, TypeOK, ServingInv, HttpInv, JobInv, Job, ConnectionInv, Works, Owned, Orphan, Unserved, Listening
<1>4. CASE AcceptTimeout
  BY <1>4 DEF AcceptTimeout, unitVars, IInv, TypeOK, ServingInv, HttpInv, JobInv, Job, ConnectionInv, Works, Owned, Orphan, Unserved, Listening
<1>5. CASE Exit
  BY <1>5 DEF Exit, unitVars, IInv, TypeOK, ServingInv, HttpInv, JobInv, Job, ConnectionInv, Works, Owned, Orphan, Unserved, Listening
<1>6. CASE SetReady
  BY <1>6 DEF SetReady, unitVars, mainVars, IInv, TypeOK, ServingInv, HttpInv, JobInv, Job, ConnectionInv, Works, Owned, Orphan, Unserved, Listening
<1> QED  BY <1>1, <1>2, <1>3, <1>4, <1>5, <1>6

\* An answer is given once.
AnswerKept(q) ==
  /\ answer[q] # "none" => answer'[q] # "none"
  /\ answer[q] = "failed" => answer'[q] = "failed"

\* Jobs stay owned when only answers are given and the phase moves on.
LEMMA JobsKept ==
  ASSUME IInv, UNCHANGED <<queue, current, done, serving, waits, http>>, ready => ready',
         \A q \in Requests : AnswerKept(q)
  PROVE  JobInv'
<1> SUFFICES ASSUME NEW q \in Requests, NEW u \in Units PROVE Job(q, u)'
  BY DEF JobInv
<1>1. Job(q, u)
  BY DEF IInv, JobInv
<1> QED  BY <1>1 DEF AnswerKept, Job, Works, Owned, Orphan

\* A shell's connection joins the backlog: it was not in it, having no answer.
LEMMA ConnectInv ==
  ASSUME IInv, NEW r \in Requests, Connect(r)
  PROVE  IInv'
<1>1. backlog \in Seq(Requests) /\ ~In(r, backlog) /\ ~In(r, pending)
  BY DEF Connect, IInv, TypeOK, ConnectionInv, Unserved
<1>2. /\ backlog' \in Seq(Requests)
      /\ \A q \in Requests : /\ In(q, backlog') <=> In(q, backlog) \/ q = r
                             /\ Once(q, backlog) => Once(q, backlog')
  BY <1>1, AppendIn DEF Connect
<1>3. answer' = [answer EXCEPT ![r] = "open"] /\ answer[r] = "none" /\ Op[r] # "resolve"
  BY DEF Connect
<1>4. \A u \in Units : <<r, u>> \notin done /\ ~Works(r, u)
  BY <1>3 DEF IInv, JobInv, Job, Owned, Orphan, ServingInv, HttpInv, TypeOK
<1>5. r # serving /\ r # http.req
  BY <1>3 DEF IInv, ServingInv, HttpInv
<1>6. TypeOK'
  BY <1>2 DEF Connect, unitVars, IInv, TypeOK
<1>7. ServingInv' /\ HttpInv'
  BY <1>3, <1>5 DEF Connect, IInv, TypeOK, ServingInv, HttpInv
<1>8. JobInv'
  <2>1. \A q \in Requests : AnswerKept(q)
    BY <1>3 DEF AnswerKept, IInv, TypeOK
  <2>2. UNCHANGED <<queue, current, done, serving, waits, http, ready>>
    BY DEF Connect, unitVars
  <2> QED  BY <2>1, <2>2, JobsKept
<1>9. ConnectionInv'
  BY <1>1, <1>2, <1>3, <1>4, <1>5 DEF Connect, unitVars, IInv, TypeOK, ConnectionInv, Unserved, Listening
<1> QED  BY <1>6, <1>7, <1>8, <1>9 DEF IInv
-----------------------------------------------------------------------------
\* The accept thread serves a request

\* A submit puts one element at the end of the queues of some units.
LEMMA SubmittedJobs ==
  ASSUME TypeOK, NEW e \in Requests \cup {Stop}, NEW us \in SUBSET Units,
         queue' = Submitted(e, us)
  PROVE  /\ queue' \in [Units -> Seq(Requests \cup {Stop})]
         /\ \A q \in Requests, u \in Units :
              /\ In(q, queue'[u]) <=> In(q, queue[u]) \/ (q = e /\ u \in us)
              /\ Once(q, queue[u]) /\ (q = e /\ u \in us => ~In(q, queue[u])) => Once(q, queue'[u])
<1>1. \A u \in Units : queue[u] \in Seq(Requests \cup {Stop})
  BY DEF TypeOK
<1>2. \A u \in Units : queue'[u] = IF u \in us THEN Append(queue[u], e) ELSE queue[u]
  BY DEF Submitted
<1>3. ASSUME NEW u \in Units, NEW q \in Requests
      PROVE  /\ Append(queue[u], e) \in Seq(Requests \cup {Stop})
             /\ In(q, Append(queue[u], e)) <=> In(q, queue[u]) \/ q = e
             /\ Once(q, queue[u]) /\ (q = e => ~In(q, queue[u])) => Once(q, Append(queue[u], e))
  BY <1>1, AppendIn
<1>4. queue' \in [Units -> Seq(Requests \cup {Stop})]
  <2>1. \A u \in Units : Append(queue[u], e) \in Seq(Requests \cup {Stop})
    BY <1>1, AppendIn
  <2> QED  BY <1>1, <2>1 DEF Submitted
<1>5. ASSUME NEW q \in Requests, NEW u \in Units
      PROVE  /\ In(q, queue'[u]) <=> In(q, queue[u]) \/ (q = e /\ u \in us)
             /\ Once(q, queue[u]) /\ (q = e /\ u \in us => ~In(q, queue[u])) => Once(q, queue'[u])
  <2>1. CASE u \in us
    BY <1>2, <1>3, <2>1
  <2>2. CASE u \notin us
    BY <1>2, <2>2
  <2> QED  BY <2>1, <2>2
<1> QED  BY <1>4, <1>5

\* r has left the connections that wait.
Left(r) ==
  /\ backlog' \in Seq(Requests)
  /\ pending' \in Seq(Requests)
  /\ \A q \in Requests :
       /\ In(q, backlog') => In(q, backlog) /\ q # r
       /\ In(q, pending') => In(q, pending) /\ q # r
       /\ Once(q, backlog') /\ Once(q, pending')

\* A request that waited has no job anywhere.
LEMMA UnservedWorksNowhere ==
  ASSUME IInv, NEW r \in Requests, Unserved(r), NEW u \in Units
  PROVE  ~Works(r, u) /\ <<r, u>> \notin done /\ r # http.req
BY DEF IInv, JobInv, Job, Unserved, Owned, Orphan, HttpInv

\* What the rest of a served connection's step leaves.
LEMMA LeftConnections ==
  ASSUME IInv, NEW r \in Requests, Left(r), Listening,
         serving' \in {serving, r}, answer' \in {answer, [answer EXCEPT ![r] = "ok"]}, UNCHANGED done
  PROVE  ConnectionInv'
<1>1. \A q \in Requests : q # r => answer'[q] = answer[q]
  BY DEF IInv, TypeOK
<1> QED  BY <1>1 DEF IInv, Left, ConnectionInv, Unserved

\* An answer at once.
LEMMA ServeNowInv ==
  ASSUME IInv, NEW r \in Requests, Unserved(r), NEW loop \in {"top", "release"},
         main \in {"accept", "release"}, loop = "release" => ready,
         Left(r), ServeNow(r, loop), UNCHANGED <<unitVars, cancelled, http, ready, shutdown>>
  PROVE  IInv'
<1>1. answer' = [answer EXCEPT ![r] = "ok"] /\ r # http.req
  BY UnservedWorksNowhere DEF ServeNow, Reply, IInv, HttpInv, Unserved
<1>2. TypeOK'
  BY <1>1 DEF ServeNow, unitVars, Left, IInv, TypeOK
<1>3. ServingInv' /\ HttpInv'
  BY <1>1 DEF ServeNow, unitVars, IInv, TypeOK, ServingInv, HttpInv, Unserved
<1>4. JobInv'
  <2>1. \A q \in Requests : AnswerKept(q)
    BY <1>1 DEF AnswerKept, IInv, TypeOK, Unserved
  <2>2. UNCHANGED <<queue, current, done, serving, waits, http, ready>>
    BY DEF ServeNow, unitVars
  <2> QED  BY <2>1, <2>2, JobsKept
<1>5. ConnectionInv'
  BY <1>1, LeftConnections DEF ServeNow, unitVars, Listening
<1> QED  BY <1>2, <1>3, <1>4, <1>5 DEF IInv

\* The handler begins on the accept thread.
LEMMA ServeDirectInv ==
  ASSUME IInv, NEW r \in Requests, Unserved(r), NEW loop \in {"top", "release"},
         Op[r] \in {"unit", "check", "reload"}, main \in {"accept", "release"}, ready,
         Left(r), ServeDirect(r, loop), UNCHANGED <<unitVars, cancelled, http, ready, shutdown>>
  PROVE  IInv'
<1>1. serving = NoOne /\ waits = {} /\ r # http.req
  BY UnservedWorksNowhere DEF IInv, ServingInv
<1>2. /\ serving' = r /\ main' = "direct" /\ back' = loop
      /\ UNCHANGED <<snapshot, units, queue, waits, starting, answer>>
  BY DEF ServeDirect
<1>3. TypeOK'
  BY <1>2 DEF unitVars, Left, IInv, TypeOK
<1>4. ServingInv' /\ HttpInv'
  BY <1>1, <1>2 DEF unitVars, IInv, TypeOK, ServingInv, HttpInv, Unserved, Listening
<1>5. JobInv'
  <2> SUFFICES ASSUME NEW q \in Requests, NEW u \in Units PROVE Job(q, u)'
    BY DEF JobInv
  <2>1. Job(q, u)
    BY DEF IInv, JobInv
  <2>2. q = r => ~Works(q, u) /\ <<q, u>> \notin done
    BY UnservedWorksNowhere
  <2> QED  BY <1>1, <1>2, <2>1, <2>2 DEF unitVars, Job, Works, Owned, Orphan
<1>6. ConnectionInv'
  BY <1>2, LeftConnections DEF unitVars, Listening
<1> QED  BY <1>3, <1>4, <1>5, <1>6 DEF IInv

\* Jobs on the units us, and the accept thread inside the request.
LEMMA WaitForInv ==
  ASSUME IInv, NEW r \in Requests, Unserved(r), NEW loop \in {"top", "release"},
         Op[r] \in {"unit", "check"}, main \in {"accept", "release"}, ready,
         NEW us \in SUBSET Units, Op[r] = "unit" => us = {UnitOf[r]},
         Left(r), WaitFor(r, us, loop), UNCHANGED <<unitVars, cancelled, http, ready, shutdown>>
  PROVE  IInv'
<1>1. /\ queue' \in [Units -> Seq(Requests \cup {Stop})]
      /\ \A q \in Requests, u \in Units :
           /\ In(q, queue'[u]) <=> In(q, queue[u]) \/ (q = r /\ u \in us)
           /\ Once(q, queue[u]) /\ (q = r /\ u \in us => ~In(q, queue[u])) => Once(q, queue'[u])
  <2>1. r \in Requests \cup {Stop}
    OBVIOUS
  <2> QED  BY <2>1, SubmittedJobs DEF WaitFor, IInv
<1>2. serving = NoOne
  BY DEF IInv, ServingInv
<1>3. \A u \in Units : ~Works(r, u) /\ <<r, u>> \notin done
  BY UnservedWorksNowhere
<1>4. TypeOK'
  BY <1>1 DEF WaitFor, unitVars, Left, IInv, TypeOK
<1>5. ServingInv' /\ HttpInv'
  BY <1>2 DEF WaitFor, unitVars, IInv, TypeOK, ServingInv, HttpInv, Unserved, Listening
<1>6. JobInv'
  <2>1. r # http.req
    BY DEF IInv, HttpInv, Unserved
  <2>2. serving' = r /\ waits' = us /\ UNCHANGED <<current, done, answer, http, ready>>
    BY DEF WaitFor, unitVars
  <2> SUFFICES ASSUME NEW q \in Requests, NEW u \in Units PROVE Job(q, u)'
    BY DEF JobInv
  <2>3. Job(q, u)
    BY DEF IInv, JobInv
  <2> QED  BY <1>1, <1>2, <1>3, <2>1, <2>2, <2>3 DEF Job, Works, Owned, Orphan
<1>7. ConnectionInv'
  BY LeftConnections DEF WaitFor, unitVars, Listening
<1> QED  BY <1>4, <1>5, <1>6, <1>7 DEF IInv

\* A reload with units: stops at the end of queues, and the thread inside it.
LEMMA ReloadInv ==
  ASSUME IInv, NEW r \in Requests, Unserved(r), NEW loop \in {"top", "release"},
         main \in {"accept", "release"}, loop = "release" => ready, ready,
         Left(r), ServeReload(r, loop), UNCHANGED <<unitVars, cancelled, http, ready, shutdown>>
  PROVE  IInv'
<1>1. CASE ServeDirect(r, loop)
  BY <1>1, ServeDirectInv DEF ServeReload
<1>2. CASE ServeNow(r, loop)
  BY <1>2, ServeNowInv
<1>3. CASE ~ServeDirect(r, loop) /\ ~ServeNow(r, loop)
  <2> PICK mapped \in Reloads, edited \in SUBSET snapshot :
        /\ snapshot' = mapped
        /\ units' = units \ Retired(mapped)
        /\ queue' = Submitted(Stop, Retired(mapped))
        /\ starting' = ((edited \cap mapped) \cup (snapshot \ mapped) \cup (mapped \ snapshot)) \cap mapped
        /\ main' = "reload"
        /\ serving' = r
        /\ back' = loop
        /\ waits' = {}
        /\ UNCHANGED answer
    BY <1>3 DEF ServeReload
  <2> mapped \subseteq Units /\ Op[r] = "reload"
    BY DEF ServeReload
  <2>1. Retired(mapped) \in SUBSET Units /\ Stop \in Requests \cup {Stop}
    BY DEF Retired, IInv, TypeOK
  <2>2. /\ queue' \in [Units -> Seq(Requests \cup {Stop})]
        /\ \A q \in Requests, u \in Units :
             /\ In(q, queue'[u]) <=> In(q, queue[u]) \/ (q = Stop /\ u \in Retired(mapped))
             /\ Once(q, queue[u]) /\ (q = Stop /\ u \in Retired(mapped) => ~In(q, queue[u])) => Once(q, queue'[u])
    BY <2>1, SubmittedJobs DEF IInv
  <2>3. serving = NoOne
    BY DEF IInv, ServingInv
  <2>4. TypeOK'
    BY <2>2 DEF unitVars, Left, IInv, TypeOK
  <2>5. ServingInv' /\ HttpInv'
    BY DEF unitVars, IInv, TypeOK, ServingInv, HttpInv, ConnectionInv, Unserved, Listening
  <2>6. JobInv'
    <3> SUFFICES ASSUME NEW q \in Requests, NEW u \in Units PROVE Job(q, u)'
      BY DEF JobInv
    <3>1. Job(q, u) /\ q # Stop
      BY DEF IInv, JobInv
    <3>2. q = r => <<q, u>> \notin done
      BY DEF Unserved
    <3> QED  BY <2>2, <2>3, <3>1, <3>2 DEF Job, Works, Owned, Orphan, unitVars, IInv, ServingInv
  <2>7. ConnectionInv'
    <3>1. Listening
      BY DEF Listening
    <3> QED  BY <3>1, LeftConnections DEF unitVars
  <2> QED  BY <2>4, <2>5, <2>6, <2>7 DEF IInv
<1> QED  BY <1>1, <1>2, <1>3

\* The accept thread serves a request, of whichever kind.
LEMMA ServeInv ==
  ASSUME IInv, NEW r \in Requests, Unserved(r), NEW loop \in {"top", "release"},
         main \in {"accept", "release"}, ready,
         Left(r), Serve(r, loop), UNCHANGED <<cancelled, http, ready, shutdown>>
  PROVE  IInv'
<1>1. UNCHANGED unitVars
  BY DEF Serve
<1>2. CASE ServeUnit(r, loop)
  BY <1>1, <1>2, WaitForInv, ServeDirectInv DEF ServeUnit
<1>3. CASE ServeCheck(r, loop)
  <2>1. units \in SUBSET Units
    BY DEF IInv, TypeOK
  <2> QED  BY <1>1, <1>3, <2>1, WaitForInv, ServeDirectInv DEF ServeCheck
<1>4. CASE ServeReload(r, loop)
  BY <1>1, <1>4, ReloadInv
<1> QED  BY <1>2, <1>3, <1>4 DEF Serve
\* A connection is accepted: it waits for ready, or it is served.
LEMMA AcceptInv == ASSUME IInv, Accept PROVE IInv'
<1> DEFINE r == Head(backlog)
<1>1. /\ r \in Requests /\ In(r, backlog)
      /\ backlog' = Tail(backlog) /\ backlog' \in Seq(Requests)
      /\ \A q \in Requests : /\ In(q, backlog') => In(q, backlog)
                             /\ Once(q, backlog')
      /\ ~In(r, backlog')
  BY TailIn DEF Accept, IInv, TypeOK, ConnectionInv
<1>2. Unserved(r) /\ ~In(r, pending) /\ main = "accept"
  BY <1>1 DEF Accept, IInv, ConnectionInv
<1>3. \A q \in Requests : q = r => ~In(q, backlog')
  BY <1>1
<1> HIDE DEF r
<1>4. CASE /\ pending' = Append(pending, r)
           /\ main' = "top"
           /\ UNCHANGED <<snapshot, units, queue, unitVars, serving, back, waits, starting, answer>>
  <2>1. UNCHANGED <<cancelled, http, ready, shutdown>>
    BY DEF Accept
  <2>2. /\ pending' \in Seq(Requests)
        /\ \A q \in Requests : /\ In(q, pending') <=> In(q, pending) \/ q = r
                               /\ Once(q, pending) /\ (q = r => ~In(q, pending)) => Once(q, pending')
    BY <1>1, <1>4, AppendIn DEF IInv, TypeOK
  <2>3. TypeOK'
    BY <1>1, <1>4, <2>1, <2>2 DEF unitVars, IInv, TypeOK
  <2>4. ServingInv' /\ HttpInv'
    BY <1>2, <1>4, <2>1 DEF unitVars, IInv, ServingInv, HttpInv
  <2>5. JobInv'
    BY <1>4, <2>1, JobsKept DEF unitVars, AnswerKept
  <2>6. ConnectionInv'
    <3>1. \A q \in Requests : Unserved(q) => Unserved(q)'
      BY <1>2, <1>4, <2>1 DEF unitVars, Unserved, Listening
    <3> SUFFICES ASSUME NEW q \in Requests
                 PROVE  /\ In(q, backlog') \/ In(q, pending') => Unserved(q)'
                        /\ Once(q, backlog') /\ Once(q, pending')
                        /\ In(q, backlog') => ~In(q, pending')
      BY DEF ConnectionInv
    <3>2. Unserved(q) => Unserved(q)'
      BY <3>1
    <3> QED  BY <1>1, <1>2, <1>3, <2>2, <3>2 DEF IInv, ConnectionInv
  <2> QED  BY <2>3, <2>4, <2>5, <2>6 DEF IInv
<1>5. CASE ~MustWait(r) /\ Op[r] \in {"status", "wait"} /\ ServeNow(r, "top") /\ UNCHANGED <<unitVars, pending>>
  <2>1. Left(r)
    BY <1>1, <1>2, <1>3, <1>5 DEF Left, IInv, TypeOK, ConnectionInv
  <2> QED  BY <1>1, <1>2, <1>5, <2>1, ServeNowInv DEF Accept
<1>6. CASE ~MustWait(r) /\ Serve(r, "top") /\ UNCHANGED pending
  <2>1. Left(r)
    BY <1>1, <1>2, <1>3, <1>6 DEF Left, IInv, TypeOK, ConnectionInv
  <2>2. ready
    BY <1>6 DEF MustWait, Serve, ServeUnit, ServeCheck, ServeReload, IInv, TypeOK
  <2> QED  BY <1>1, <1>2, <1>6, <2>1, <2>2, ServeInv DEF Accept
<1> QED  BY <1>4, <1>5, <1>6 DEF Accept, r

\* The pending requests are served in order.
LEMMA ReleaseInv == ASSUME IInv, Release PROVE IInv'
<1>0. main = "release" /\ ready /\ UNCHANGED <<cancelled, backlog, http, ready, shutdown>>
  BY DEF Release, IInv, ServingInv
<1>1. CASE pending = <<>>
  <2>1. main' = "top" /\ UNCHANGED <<snapshot, units, queue, unitVars, serving, back, waits, starting, answer, pending>>
    BY <1>1 DEF Release
  <2>2. TypeOK' /\ ServingInv' /\ HttpInv'
    BY <1>0, <2>1 DEF unitVars, IInv, TypeOK, ServingInv, HttpInv
  <2>3. JobInv'
    BY <1>0, <2>1, JobsKept DEF unitVars, AnswerKept
  <2>4. ConnectionInv'
    BY <1>0, <2>1 DEF unitVars, IInv, ConnectionInv, Unserved, Listening
  <2> QED  BY <2>2, <2>3, <2>4 DEF IInv
<1>2. CASE pending # <<>>
  <2> DEFINE r == Head(pending)
  <2>1. /\ r \in Requests /\ In(r, pending)
        /\ pending' = Tail(pending) /\ pending' \in Seq(Requests)
        /\ \A q \in Requests : /\ In(q, pending') => In(q, pending)
                               /\ Once(q, pending')
        /\ ~In(r, pending')
    <3>1. pending' = Tail(pending)
      BY <1>2 DEF Release
    <3>2. pending \in Seq(Requests) /\ \A q \in Requests : Once(q, pending)
      BY DEF IInv, TypeOK, ConnectionInv
    <3> QED  BY <1>2, <3>1, <3>2, TailIn
  <2>2. Unserved(r) /\ ~In(r, backlog)
    BY <2>1 DEF IInv, ConnectionInv
  <2>3. Left(r)
    BY <1>0, <2>1, <2>2 DEF Left, IInv, TypeOK, ConnectionInv
  <2>4. \/ ServeNow(r, "release") /\ UNCHANGED unitVars
        \/ Serve(r, "release")
    BY <1>2 DEF Release
  <2> HIDE DEF r
  <2> QED  BY <1>0, <2>1, <2>2, <2>3, <2>4, ServeNowInv, ServeInv
<1> QED  BY <1>1, <1>2

\* The loop ends: what is still open is closed, but no request being served.
LEMMA TopInv == ASSUME IInv, Top PROVE IInv'
<1>1. /\ main = "top" /\ main' \in {"accept", "leaving"}
      /\ UNCHANGED <<snapshot, units, queue, unitVars, cancelled, serving, back, waits, starting,
                     backlog, pending, http, ready, shutdown>>
  BY DEF Top
<1>2. /\ answer' \in [Requests -> {"none", "open", "ok", "stopped", "failed", "closed"}]
      /\ \A q \in Requests : /\ Op[q] = "resolve" => answer'[q] = answer[q]
                             /\ AnswerKept(q)
                             /\ answer[q] \in {"open", "closed"} => answer'[q] \in {"open", "closed"}
                             /\ main' = "accept" => answer'[q] = answer[q]
  BY DEF Top, AnswerKept, IInv, TypeOK
<1>3. TypeOK' /\ ServingInv' /\ HttpInv'
  BY <1>1, <1>2 DEF unitVars, IInv, TypeOK, ServingInv, HttpInv
<1>4. JobInv'
  BY <1>1, <1>2, JobsKept DEF unitVars
<1>5. ConnectionInv'
  BY <1>1, <1>2 DEF unitVars, IInv, ConnectionInv, Unserved, Listening
<1> QED  BY <1>3, <1>4, <1>5 DEF IInv

\* The next managed project of a reload gets its first job of this request.
LEMMA ReloadNextInv == ASSUME IInv, NEW v \in Units, ReloadNext(v) PROVE IInv'
<1>1. /\ main = "reload" /\ v \in starting /\ starting' = starting \ {v} /\ v \notin waits
      /\ serving \in Requests /\ Op[serving] = "reload" /\ answer[serving] = "open" /\ ready
      /\ UNCHANGED <<snapshot, current, done, skipped, raised, cancelled, main, serving, back,
                     backlog, pending, answer, http, ready, shutdown>>
  BY DEF ReloadNext, IInv, TypeOK, ServingInv
<1>2. ~Works(serving, v) /\ <<serving, v>> \notin done
  <2>1. Job(serving, v)
    BY <1>1 DEF IInv, JobInv
  <2>2. serving # http.req
    BY <1>1 DEF IInv, HttpInv
  <2> QED  BY <1>1, <2>1, <2>2 DEF Job, Owned, Orphan
<1>3. ConnectionInv'
  BY <1>1 DEF IInv, ConnectionInv, Unserved, Listening
<1>4. CASE v \in units
  <2>1. queue' = Submitted(serving, {v}) /\ waits' = waits \cup {v} /\ UNCHANGED <<units, thread>>
    BY <1>4 DEF ReloadNext
  <2>2. /\ queue' \in [Units -> Seq(Requests \cup {Stop})]
        /\ \A q \in Requests, u \in Units :
             /\ In(q, queue'[u]) <=> In(q, queue[u]) \/ (q = serving /\ u \in {v})
             /\ Once(q, queue[u]) /\ (q = serving /\ u \in {v} => ~In(q, queue[u])) => Once(q, queue'[u])
    <3>1. serving \in Requests \cup {Stop} /\ {v} \in SUBSET Units
      BY <1>1
    <3> QED  BY <2>1, <3>1, SubmittedJobs DEF IInv
  <2>3. TypeOK'
    BY <1>1, <2>1, <2>2 DEF IInv, TypeOK
  <2>4. ServingInv' /\ HttpInv'
    BY <1>1, <2>1 DEF IInv, ServingInv, HttpInv
  <2>5. JobInv'
    <3> SUFFICES ASSUME NEW q \in Requests, NEW u \in Units PROVE Job(q, u)'
      BY DEF JobInv
    <3>1. Job(q, u)
      BY DEF IInv, JobInv
    <3> QED  BY <1>1, <1>2, <2>1, <2>2, <3>1 DEF Job, Works, Owned, Orphan
  <2> QED  BY <1>3, <2>3, <2>4, <2>5 DEF IInv
<1>5. CASE v \notin units
  <2>1. UNCHANGED <<queue, waits>> /\ units' = units \cup {v} /\ thread' = [thread EXCEPT ![v] = "top"]
    BY <1>5 DEF ReloadNext
  <2>2. TypeOK' /\ ServingInv' /\ HttpInv'
    BY <1>1, <2>1 DEF IInv, TypeOK, ServingInv, HttpInv
  <2>3. JobInv'
    BY <1>1, <2>1, JobsKept DEF AnswerKept
  <2> QED  BY <1>3, <2>2, <2>3 DEF IInv
<1> QED  BY <1>4, <1>5

\* The request is answered: it has no job left, or it is a check or reload that failed.
LEMMA AnsweredInv ==
  ASSUME IInv, NEW what \in {"ok", "stopped", "failed"}, serving # NoOne, Answered(what),
         main' = back, \/ \A u \in Units : ~Works(serving, u)
                       \/ what = "failed" /\ Op[serving] \in {"check", "reload"},
         snapshot' \subseteq Units, starting' \subseteq Units,
         UNCHANGED <<units, queue, unitVars, cancelled, back, backlog, pending, http, ready, shutdown>>
  PROVE  IInv'
<1>1. /\ serving \in Requests /\ Op[serving] # "resolve" /\ ready
      /\ answer' = [answer EXCEPT ![serving] = what]
      /\ serving' = NoOne /\ waits' = {} /\ main' \in {"top", "release"}
  BY DEF Answered, Reply, IInv, TypeOK, ServingInv
<1>2. TypeOK'
  BY <1>1 DEF unitVars, IInv, TypeOK
<1>3. ServingInv' /\ HttpInv'
  BY <1>1 DEF IInv, TypeOK, ServingInv, HttpInv
<1>4. JobInv'
  <2> SUFFICES ASSUME NEW q \in Requests, NEW u \in Units PROVE Job(q, u)'
    BY DEF JobInv
  <2>1. Job(q, u)
    BY DEF IInv, JobInv
  <2>2. answer'[q] = IF q = serving THEN what ELSE answer[q]
    BY <1>1 DEF IInv, TypeOK
  <2>3. Works(q, u)' = Works(q, u)
    BY DEF Works, unitVars
  <2> QED  BY <1>1, <2>1, <2>2, <2>3 DEF Job, Owned, Orphan, unitVars
<1>5. ConnectionInv'
  <2> SUFFICES ASSUME NEW q \in Requests, In(q, backlog) \/ In(q, pending) PROVE Unserved(q)'
    BY <1>1 DEF IInv, ConnectionInv
  <2>1. Unserved(q) /\ q # serving /\ q # NoOne
    BY DEF IInv, ConnectionInv, Unserved
  <2>2. answer'[q] = answer[q]
    BY <1>1, <2>1 DEF IInv, TypeOK
  <2>3. Listening
    BY DEF IInv, ServingInv, Listening
  <2> QED  BY <1>1, <2>1, <2>2, <2>3 DEF Unserved, unitVars
<1> QED  BY <1>2, <1>3, <1>4, <1>5 DEF IInv

\* A job that is not waited for is nobody's the accept thread is inside of.
LEMMA ServingWorks ==
  ASSUME IInv, serving # NoOne, NEW u \in Units, Works(serving, u)
  PROVE  u \in waits /\ <<serving, u>> \notin done
BY DEF IInv, TypeOK, JobInv, Job, Owned, Orphan, ServingInv, HttpInv

\* All jobs are done, or one of them raised.
LEMMA WakeInv == ASSUME IInv, Wake PROVE IInv'
<1>1. main = "blocked" /\ JobsOver /\ serving # NoOne /\ Answered(Outcome) /\ main' = back
      /\ UNCHANGED <<snapshot, units, queue, unitVars, cancelled, back, starting, backlog,
                     pending, http, ready, shutdown>>
  BY DEF Wake, Answered, IInv, ServingInv
<1>2. Outcome \in {"ok", "stopped", "failed"}
  BY DEF Outcome
<1>3. snapshot' \subseteq Units /\ starting' \subseteq Units /\ waits \subseteq Units
      /\ serving \in Requests /\ raised \subseteq done
  BY <1>1 DEF IInv, TypeOK
<1>4. CASE \A u \in waits : <<serving, u>> \in done
  <2>1. \A u \in Units : ~Works(serving, u)
    BY <1>1, <1>4, ServingWorks
  <2> QED  BY <1>1, <1>2, <1>3, <2>1, AnsweredInv
<1>5. CASE \E u \in waits : <<serving, u>> \notin done
  <2>1. PICK w \in waits : <<serving, w>> \in raised
    BY <1>1, <1>5 DEF JobsOver
  <2>2. Outcome = "failed"
    BY <2>1 DEF Outcome
  <2>3. Op[serving] \notin {"unit", "resolve"}
    BY <1>1, <1>3, <1>5, <2>1 DEF IInv, ServingInv
  <2>4. Op[serving] \in {"check", "reload"}
    BY <1>1, <2>3 DEF IInv, ServingInv
  <2> QED  BY <1>1, <1>2, <1>3, <2>2, <2>4, AnsweredInv
<1> QED  BY <1>4, <1>5

\* The handler returns or raises on the accept thread; it has no job.
LEMMA DirectDoneInv == ASSUME IInv, DirectDone PROVE IInv'
<1>1. PICK what \in {"ok", "failed"} : Answered(what)
  BY DEF DirectDone
<1>2. /\ main = "direct" /\ serving # NoOne /\ waits = {} /\ main' = back
      /\ snapshot' \subseteq Units /\ starting' \subseteq Units
      /\ UNCHANGED <<units, queue, unitVars, cancelled, back, backlog, pending, http, ready, shutdown>>
  BY DEF DirectDone, Answered, IInv, TypeOK, ServingInv
<1>3. \A u \in Units : ~Works(serving, u)
  BY <1>2, ServingWorks
<1> QED  BY <1>1, <1>2, <1>3, AnsweredInv

\* The catch-up of a new unit raises: jobs may be left over.
LEMMA ReloadRaisesInv == ASSUME IInv, ReloadRaises PROVE IInv'
<1>1. Answered("failed") /\ Op[serving] = "reload" /\ serving # NoOne /\ main' = back
      /\ snapshot' \subseteq Units /\ starting' \subseteq Units
      /\ UNCHANGED <<units, queue, unitVars, cancelled, back, backlog, pending, http, ready, shutdown>>
  BY DEF ReloadRaises, Answered, IInv, TypeOK, ServingInv
<1> QED  BY <1>1, AnsweredInv
-----------------------------------------------------------------------------
\* The units' threads

\* What a unit's thread leaves alone.
LEMMA UnitKeeps ==
  ASSUME IInv, NEW v \in Units, NEW p, UnitStep(v, p)
  PROVE  /\ UNCHANGED <<snapshot, units, cancelled, main, serving, back, waits, starting, backlog,
                        pending, answer, http, ready, shutdown>>
         /\ ServingInv' /\ HttpInv'
         /\ (\A u \in Units, q \in Requests :
               (In(q, backlog) \/ In(q, pending)) /\ <<q, u>> \in done' => <<q, u>> \in done)
            => ConnectionInv'
<1>1. UNCHANGED <<snapshot, units, cancelled, main, serving, back, waits, starting, backlog,
                  pending, answer, http, ready, shutdown>>
  BY DEF UnitStep, mainVars
<1>2. ServingInv' /\ HttpInv'
  BY <1>1 DEF IInv, ServingInv, HttpInv
<1>3. ASSUME \A u \in Units, q \in Requests :
               (In(q, backlog) \/ In(q, pending)) /\ <<q, u>> \in done' => <<q, u>> \in done
      PROVE  ConnectionInv'
  BY <1>1, <1>3 DEF IInv, ConnectionInv, Unserved, Listening
<1> QED  BY <1>1, <1>2, <1>3

\* A request that has a job has left the connections, and who is inside it waits.
LEMMA WorkFacts ==
  ASSUME IInv, NEW r \in Requests, NEW v \in Units, Works(r, v)
  PROVE  /\ answer[r] # "none" /\ (Op[r] # "resolve" => ready)
         /\ (r = serving => v \in waits) /\ (r = http.req => http.pc = "blocked")
         /\ ~In(r, backlog) /\ ~In(r, pending)
<1>1. Job(r, v)
  BY DEF IInv, JobInv
<1>2. CASE Owned(r, v)
  <2>1. ~Unserved(r)
    BY <1>2 DEF Unserved, Owned, IInv, HttpInv
  <2>2. ~(r = serving /\ r = http.req)
    BY DEF IInv, ServingInv, HttpInv
  <2> QED  BY <1>1, <1>2, <2>1, <2>2 DEF Job, Owned, IInv, ServingInv, HttpInv, ConnectionInv
<1>3. CASE Orphan(r)
  BY <1>1, <1>3 DEF Job, Orphan, Unserved, IInv, ServingInv, HttpInv, ConnectionInv
<1> QED  BY <1>1, <1>2, <1>3 DEF Job

\* Taking an element of the queue: it is there no more.
LEMMA UnitTakeInv == ASSUME IInv, NEW v \in Units, UnitTake(v) PROVE IInv'
<1> DEFINE r == Head(queue[v])
<1>1. /\ queue[v] \in Seq(Requests \cup {Stop}) /\ queue[v] # <<>>
      /\ queue' = [queue EXCEPT ![v] = Tail(queue[v])]
  BY DEF UnitTake, IInv, TypeOK
<1>2. /\ r \in Requests \cup {Stop} /\ Tail(queue[v]) \in Seq(Requests \cup {Stop})
      /\ In(r, queue[v])
      /\ r \in Requests => ~In(r, Tail(queue[v]))
      /\ \A q \in Requests : /\ In(q, Tail(queue[v])) => In(q, queue[v])
                             /\ Once(q, Tail(queue[v]))
  <2>1. \A q \in Requests : Once(q, queue[v])
    BY DEF IInv, JobInv, Job
  <2> QED  BY <1>1, <2>1, TailIn
<1>3. PICK p \in {"exited", "top", "job"} : UnitStep(v, p)
  BY DEF UnitTake
<1>4. /\ queue' \in [Units -> Seq(Requests \cup {Stop})]
      /\ \A q \in Requests, u \in Units :
           /\ In(q, queue'[u]) => In(q, queue[u]) /\ (u = v => q # r)
           /\ Once(q, queue'[u])
  <2>1. \A q \in Requests, u \in Units : Once(q, queue[u])
    BY DEF IInv, JobInv, Job
  <2>2. \A u \in Units : queue'[u] = IF u = v THEN Tail(queue[v]) ELSE queue[u]
    BY <1>1 DEF IInv, TypeOK
  <2>3. queue' \in [Units -> Seq(Requests \cup {Stop})]
    BY <1>1, <1>2 DEF IInv, TypeOK
  <2> QED  BY <1>2, <2>1, <2>2, <2>3
<1>5. \/ /\ r = Stop
         /\ UNCHANGED <<current, done, skipped>>
      \/ /\ r # Stop
         /\ done' = done \cup {<<r, v>>}
         /\ skipped' = skipped \cup {<<r, v>>}
         /\ UNCHANGED current
      \/ /\ r # Stop
         /\ current' = [current EXCEPT ![v] = r]
         /\ UNCHANGED <<done, skipped>>
  BY DEF UnitTake
<1>5a. UNCHANGED raised
  BY DEF UnitTake
<1>6. r \in Requests => Job(r, v) /\ In(r, queue[v]) /\ Works(r, v)
  BY <1>2 DEF IInv, JobInv, Job, Works
<1> HIDE DEF r
<1>7. /\ UNCHANGED <<snapshot, units, cancelled, main, serving, back, waits, starting, backlog,
                     pending, answer, http, ready, shutdown>>
      /\ ServingInv' /\ HttpInv'
  BY <1>3, UnitKeeps
<1>8. TypeOK'
  <2>1. thread' \in [Units -> {"none", "top", "get", "tick", "job", "exited", "dead"}]
    BY <1>3 DEF UnitStep, IInv, TypeOK
  <2>2. done' \subseteq Requests \X Units /\ skipped' \subseteq done' /\ raised' \subseteq done'
    BY <1>2, <1>5, <1>5a DEF IInv, TypeOK
  <2>3. current' \in [Units -> Requests \cup {NoOne}]
    BY <1>2, <1>5 DEF IInv, TypeOK
  <2> QED  BY <1>4, <1>7, <2>1, <2>2, <2>3 DEF IInv, TypeOK
<1>9. r \in Requests => /\ answer[r] # "none" /\ (Op[r] # "resolve" => ready)
                        /\ (r = serving => v \in waits) /\ (r = http.req => http.pc = "blocked")
                        /\ ~In(r, backlog) /\ ~In(r, pending)
  BY <1>6, WorkFacts
<1>10. JobInv'
  <2> SUFFICES ASSUME NEW q \in Requests, NEW u \in Units PROVE Job(q, u)'
    BY DEF JobInv
  <2>1. Job(q, u)
    BY DEF IInv, JobInv
  <2>2. CASE q = r /\ u = v
    BY <1>4, <1>5, <1>6, <1>7, <1>9, <2>1, <2>2 DEF Job, Works, Owned, Orphan, IInv, TypeOK
  <2>3. CASE q # r \/ u # v
    BY <1>2, <1>4, <1>5, <1>7, <2>1, <2>3 DEF Job, Works, Owned, Orphan, IInv, TypeOK
  <2> QED  BY <2>2, <2>3
<1>11. ConnectionInv'
  BY <1>2, <1>3, <1>5, <1>9, UnitKeeps
<1> QED  BY <1>7, <1>8, <1>10, <1>11 DEF IInv

\* A thread that runs a job runs somebody's job.
ThreadInv == \A u \in Units : thread[u] = "job" => current[u] \in Requests

\* UnitTake sets current with the move to "job"; nothing else moves a thread there.
LEMMA ThreadKept == ASSUME IInv, ThreadInv, Next PROVE ThreadInv'
<1>1. CASE \E v \in Units : Unit(v)
  <2>1. PICK v \in Units : Unit(v)
    BY <1>1
  <2>2. CASE UnitTake(v)
    <3>1. Head(queue[v]) \in Requests \cup {Stop}
      BY <2>2, TailIn DEF UnitTake, IInv, TypeOK
    <3> QED  BY <2>2, <3>1 DEF UnitTake, UnitStep, IInv, TypeOK, ThreadInv
  <2>3. CASE UnitTop(v) \/ UnitJobDone(v) \/ UnitIdle(v) \/ UnitTicked(v)
    <3>1. PICK p \in {"top", "get", "tick", "exited", "dead"} : thread' = [thread EXCEPT ![v] = p]
      BY <2>3 DEF UnitTop, UnitJobDone, UnitIdle, UnitTicked, UnitStep
    <3>2. current' \in {current, [current EXCEPT ![v] = NoOne]}
      BY <2>3 DEF UnitTop, UnitJobDone, UnitIdle, UnitTicked
    <3> QED  BY <3>1, <3>2 DEF IInv, TypeOK, ThreadInv
  <2> QED  BY <2>1, <2>2, <2>3 DEF Unit
<1>2. CASE \E u \in Units : ReloadNext(u)
  BY <1>2 DEF ReloadNext, IInv, TypeOK, ThreadInv
<1>3. CASE StartUnits
  BY <1>3 DEF StartUnits, ThreadInv
<1>4. CASE UNCHANGED <<thread, current>>
  BY <1>4 DEF ThreadInv
<1>5. CASE (\E r \in Requests : Connect(r) \/ Submit(r)) \/ Cancel \/ Signal \/ SetReady \/ Http
  BY <1>4, <1>5 DEF Connect, Submit, Cancel, Signal, SetReady, Http, HttpRoute, HttpSubmit, HttpReply, unitVars
<1>6. CASE Top \/ Accept \/ AcceptTimeout \/ Release \/ DirectDone \/ ReloadRaises \/ ReloadWaits \/ Wake \/ Exit
  BY <1>4, <1>6 DEF Top, Accept, AcceptTimeout, Release, DirectDone, ReloadRaises, ReloadWaits, Wake, Exit, Serve, unitVars
<1> QED  BY <1>1, <1>2, <1>3, <1>5, <1>6 DEF Next, Main, CatchUp

\* A job ends: it is done, and was waited for.
LEMMA UnitJobDoneInv == ASSUME IInv, ThreadInv, NEW v \in Units, UnitJobDone(v) PROVE IInv'
<1> DEFINE r == current[v]
<1>1. /\ r \in Requests
      /\ done' = done \cup {<<r, v>>}
      /\ raised' \in {raised, raised \cup {<<r, v>>}}
      /\ current' = [current EXCEPT ![v] = NoOne]
      /\ UNCHANGED <<queue, skipped>>
      /\ UnitStep(v, "top")
  BY DEF UnitJobDone, ThreadInv
<1>2. Job(r, v) /\ ~In(r, queue[v]) /\ Works(r, v)
  BY <1>1 DEF IInv, JobInv, Job, Works
<1> HIDE DEF r
<1>3. /\ UNCHANGED <<snapshot, units, cancelled, main, serving, back, waits, starting, backlog,
                     pending, answer, http, ready, shutdown>>
      /\ ServingInv' /\ HttpInv'
  BY <1>1, UnitKeeps
<1>4. TypeOK'
  <2>1. thread' \in [Units -> {"none", "top", "get", "tick", "job", "exited", "dead"}]
    BY <1>1 DEF UnitStep, IInv, TypeOK
  <2>2. done' \subseteq Requests \X Units /\ skipped' \subseteq done' /\ raised' \subseteq done'
    BY <1>1 DEF IInv, TypeOK
  <2>3. current' \in [Units -> Requests \cup {NoOne}]
    BY <1>1 DEF IInv, TypeOK
  <2> QED  BY <1>1, <1>3, <2>1, <2>2, <2>3 DEF IInv, TypeOK
<1>5. /\ answer[r] # "none" /\ (Op[r] # "resolve" => ready)
      /\ (r = serving => v \in waits) /\ (r = http.req => http.pc = "blocked")
      /\ ~In(r, backlog) /\ ~In(r, pending)
  BY <1>1, <1>2, WorkFacts
<1>6. JobInv'
  <2> SUFFICES ASSUME NEW q \in Requests, NEW u \in Units PROVE Job(q, u)'
    BY DEF JobInv
  <2>1. Job(q, u)
    BY DEF IInv, JobInv
  <2>2. /\ current'[u] = IF u = v THEN NoOne ELSE current[u]
        /\ u = v => current[u] = r
    BY <1>1 DEF IInv, TypeOK, r
  <2>3. q # NoOne
    OBVIOUS
  <2>4. CASE q = r /\ u = v
    BY <1>1, <1>2, <1>3, <1>5, <2>1, <2>2, <2>3, <2>4 DEF Job, Works, Owned, Orphan
  <2>5. CASE q # r \/ u # v
    BY <1>1, <1>3, <2>1, <2>2, <2>3, <2>5 DEF Job, Works, Owned, Orphan
  <2> QED  BY <2>4, <2>5
<1>7. ConnectionInv'
  BY <1>1, <1>5, UnitKeeps
<1> QED  BY <1>3, <1>4, <1>6, <1>7 DEF IInv

\* The steps of a unit's thread that touch no job.
LEMMA UnitQuietInv ==
  ASSUME IInv, NEW v \in Units, UnitTop(v) \/ UnitIdle(v) \/ UnitTicked(v)
  PROVE  IInv'
<1>1. PICK p \in {"exited", "get", "tick", "top", "dead"} : UnitStep(v, p)
  BY DEF UnitTop, UnitIdle, UnitTicked
<1>2. UNCHANGED <<queue, current, done, skipped, raised>>
  BY DEF UnitTop, UnitIdle, UnitTicked
<1>3. /\ UNCHANGED <<snapshot, units, cancelled, main, serving, back, waits, starting, backlog,
                     pending, answer, http, ready, shutdown>>
      /\ ServingInv' /\ HttpInv' /\ ConnectionInv'
  BY <1>1, <1>2, UnitKeeps
<1>4. TypeOK'
  BY <1>1, <1>2, <1>3 DEF UnitStep, IInv, TypeOK
<1>5. JobInv'
  BY <1>2, <1>3, JobsKept DEF AnswerKept
<1> QED  BY <1>3, <1>4, <1>5 DEF IInv
-----------------------------------------------------------------------------
\* The catch-up thread and the HTTP thread

\* The units start, before any job of the HTTP thread.
LEMMA StartUnitsInv == ASSUME IInv, StartUnits PROVE IInv'
<1>1. /\ http.pc = "down" /\ http' = [pc |-> "idle", req |-> NoOne] /\ http.req = NoOne
      /\ UNCHANGED <<snapshot, queue, current, done, skipped, raised, cancelled, mainVars, answer, ready, shutdown>>
  BY DEF StartUnits, IInv, TypeOK, HttpInv
<1>2. TypeOK'
  BY <1>1 DEF StartUnits, mainVars, IInv, TypeOK
<1>3. ServingInv' /\ HttpInv'
  BY <1>1 DEF mainVars, IInv, ServingInv, HttpInv
<1>4. JobInv'
  <2> SUFFICES ASSUME NEW q \in Requests, NEW u \in Units PROVE Job(q, u)'
    BY DEF JobInv
  <2>1. Job(q, u) /\ q # NoOne
    BY DEF IInv, JobInv
  <2> QED  BY <1>1, <2>1 DEF mainVars, Job, Works, Owned, Orphan
<1>5. ConnectionInv'
  BY <1>1 DEF mainVars, IInv, ConnectionInv, Unserved, Listening
<1> QED  BY <1>2, <1>3, <1>4, <1>5 DEF IInv

\* A resolve begins: it has no job yet.
LEMMA SubmitInv == ASSUME IInv, NEW r \in Requests, Submit(r) PROVE IInv'
<1>1. /\ http.pc = "idle" /\ http.req = NoOne /\ Op[r] = "resolve" /\ answer[r] = "none"
      /\ answer' = [answer EXCEPT ![r] = "open"]
      /\ http' = [pc |-> "routed", req |-> r]
      /\ UNCHANGED <<snapshot, units, queue, unitVars, cancelled, mainVars, ready, shutdown>>
  BY DEF Submit, Reply, IInv, HttpInv
<1>2. \A q \in Requests : answer'[q] = IF q = r THEN "open" ELSE answer[q]
  BY <1>1 DEF IInv, TypeOK
<1>3. TypeOK'
  BY <1>1 DEF mainVars, unitVars, IInv, TypeOK
<1>4. ServingInv' /\ HttpInv'
  BY <1>1, <1>2 DEF mainVars, IInv, TypeOK, ServingInv, HttpInv
<1>5. JobInv'
  <2> SUFFICES ASSUME NEW q \in Requests, NEW u \in Units PROVE Job(q, u)'
    BY DEF JobInv
  <2>1. Job(q, u)
    BY DEF IInv, JobInv
  <2> QED  BY <1>1, <1>2, <2>1 DEF mainVars, unitVars, Job, Works, Owned, Orphan
<1>6. ConnectionInv'
  BY <1>1, <1>2 DEF mainVars, unitVars, IInv, ConnectionInv, Unserved, Listening
<1> QED  BY <1>3, <1>4, <1>5, <1>6 DEF IInv

\* The resolve's unit is found, or the request refused.
LEMMA HttpRouteInv == ASSUME IInv, HttpRoute PROVE IInv'
<1> DEFINE r == http.req
<1>1. /\ http.pc = "routed" /\ r \in Requests /\ Op[r] = "resolve" /\ answer[r] = "open"
      /\ \/ http' = [pc |-> "found", req |-> r] /\ UNCHANGED answer
         \/ http' = [pc |-> "idle", req |-> NoOne] /\ answer' = [answer EXCEPT ![r] = "failed"]
      /\ UNCHANGED <<snapshot, units, queue, unitVars, cancelled, mainVars, ready, shutdown>>
  BY DEF HttpRoute, Reply, IInv, TypeOK, HttpInv
<1>2. \A q \in Requests : /\ q # r => answer'[q] = answer[q]
                          /\ answer[q] # "none" => answer'[q] # "none"
                          /\ http'.pc = "found" => answer'[q] = answer[q]
  BY <1>1 DEF IInv, TypeOK
<1>3. TypeOK'
  <2>1. http' \in [pc : {"down", "idle", "routed", "found", "blocked"}, req : Requests \cup {NoOne}]
    BY <1>1
  <2>2. answer' \in [Requests -> {"none", "open", "ok", "stopped", "failed", "closed"}]
    BY <1>1 DEF IInv, TypeOK
  <2> HIDE DEF r
  <2> QED  BY <1>1, <2>1, <2>2 DEF mainVars, unitVars, IInv, TypeOK
<1>4. ServingInv' /\ HttpInv'
  <2>1. r # serving
    BY <1>1 DEF IInv, ServingInv
  <2>2. ServingInv'
    BY <1>1, <1>2, <2>1 DEF mainVars, IInv, TypeOK, ServingInv
  <2>3. HttpInv'
    BY <1>1, <1>2 DEF HttpInv
  <2> QED  BY <2>2, <2>3
<1>5. JobInv'
  <2> SUFFICES ASSUME NEW q \in Requests, NEW u \in Units PROVE Job(q, u)'
    BY DEF JobInv
  <2>1. Job(q, u)
    BY DEF IInv, JobInv
  <2> QED  BY <1>1, <1>2, <2>1 DEF mainVars, unitVars, Job, Works, Owned, Orphan
<1>6. ConnectionInv'
  BY <1>1, <1>2 DEF mainVars, unitVars, IInv, ConnectionInv, Unserved, Listening
<1> QED  BY <1>3, <1>4, <1>5, <1>6 DEF IInv

\* The resolve gets its one job.
LEMMA HttpSubmitInv == ASSUME IInv, HttpSubmit PROVE IInv'
<1> DEFINE r == http.req
<1>1. /\ http.pc = "found" /\ r \in Requests /\ Op[r] = "resolve" /\ answer[r] = "open"
      /\ http' = [pc |-> "blocked", req |-> r]
      /\ queue' = Submitted(r, {UnitOf[r]}) /\ UnitOf[r] \in Units
      /\ UNCHANGED <<snapshot, units, unitVars, cancelled, mainVars, answer, ready, shutdown>>
  BY DEF HttpSubmit, IInv, TypeOK, HttpInv
<1>2. r # serving
  BY <1>1 DEF IInv, ServingInv
<1>3. \A u \in Units : ~Works(r, u) /\ <<r, u>> \notin done
  BY <1>1, <1>2 DEF IInv, JobInv, Job, Owned, Orphan
<1>4. /\ queue' \in [Units -> Seq(Requests \cup {Stop})]
      /\ \A q \in Requests, u \in Units :
           /\ In(q, queue'[u]) <=> In(q, queue[u]) \/ (q = r /\ u \in {UnitOf[r]})
           /\ Once(q, queue[u]) /\ (q = r /\ u \in {UnitOf[r]} => ~In(q, queue[u])) => Once(q, queue'[u])
  <2>1. r \in Requests \cup {Stop} /\ {UnitOf[r]} \in SUBSET Units
    BY <1>1
  <2> QED  BY <1>1, <2>1, SubmittedJobs DEF IInv
<1> HIDE DEF r
<1>5. TypeOK'
  BY <1>1, <1>4 DEF mainVars, unitVars, IInv, TypeOK
<1>6. ServingInv' /\ HttpInv'
  BY <1>1 DEF mainVars, IInv, ServingInv, HttpInv
<1>7. JobInv'
  <2> SUFFICES ASSUME NEW q \in Requests, NEW u \in Units PROVE Job(q, u)'
    BY DEF JobInv
  <2>1. Job(q, u)
    BY DEF IInv, JobInv
  <2> QED  BY <1>1, <1>2, <1>3, <1>4, <2>1 DEF mainVars, unitVars, Job, Works, Owned, Orphan
<1>8. ConnectionInv'
  BY <1>1 DEF mainVars, unitVars, IInv, ConnectionInv, Unserved, Listening
<1> QED  BY <1>5, <1>6, <1>7, <1>8 DEF IInv

\* The resolve is answered when its one job is done.
LEMMA HttpReplyInv == ASSUME IInv, HttpReply PROVE IInv'
<1> DEFINE r == http.req
<1>1. /\ http.pc = "blocked" /\ r \in Requests /\ Op[r] = "resolve" /\ answer[r] = "open"
      /\ <<r, UnitOf[r]>> \in done /\ UnitOf[r] \in Units
      /\ http' = [pc |-> "idle", req |-> NoOne] /\ answer' \in {[answer EXCEPT ![r] = "ok"], [answer EXCEPT ![r] = "failed"]}
      /\ UNCHANGED <<snapshot, units, queue, unitVars, cancelled, mainVars, ready, shutdown>>
  BY DEF HttpReply, Reply, IInv, TypeOK, HttpInv
<1>2. \A q \in Requests : /\ q # r => answer'[q] = answer[q]
                          /\ answer[q] # "none" => answer'[q] # "none"
  BY <1>1 DEF IInv, TypeOK
<1>3. TypeOK'
  BY <1>1 DEF mainVars, unitVars, IInv, TypeOK
<1>4. ServingInv' /\ HttpInv'
  BY <1>1, <1>2 DEF mainVars, IInv, TypeOK, ServingInv, HttpInv
<1>5. JobInv'
  <2> SUFFICES ASSUME NEW q \in Requests, NEW u \in Units PROVE Job(q, u)'
    BY DEF JobInv
  <2>1. Job(q, u)
    BY DEF IInv, JobInv
  <2> QED  BY <1>1, <1>2, <2>1 DEF mainVars, unitVars, Job, Works, Owned, Orphan
<1>6. ConnectionInv'
  BY <1>1, <1>2 DEF mainVars, unitVars, IInv, ConnectionInv, Unserved, Listening
<1> QED  BY <1>3, <1>4, <1>5, <1>6 DEF IInv
-----------------------------------------------------------------------------
\* The theorems

\* Every step keeps the invariant.
LEMMA NextInv == IInv /\ ThreadInv /\ [Next]_vars => IInv' /\ ThreadInv'
<1> SUFFICES ASSUME IInv, ThreadInv, [Next]_vars PROVE IInv' /\ ThreadInv'
  OBVIOUS
<1>1. CASE UNCHANGED vars
  BY <1>1 DEF vars, unitVars, mainVars, IInv, ThreadInv, TypeOK, ServingInv, HttpInv, JobInv, Job,
              ConnectionInv, Works, Owned, Orphan, Unserved, Listening
<1>2. CASE Next
  <2>1. ThreadInv'
    BY <1>2, ThreadKept
  <2> SUFFICES IInv'
    BY <2>1
  <2>2. CASE \E r \in Requests : Connect(r) \/ Submit(r)
    BY <2>2, ConnectInv, SubmitInv
  <2>3. CASE Cancel \/ Signal \/ CatchUp
    BY <2>3, QuietInv, StartUnitsInv DEF CatchUp
  <2>4. CASE Main
    BY <2>4, TopInv, AcceptInv, ReleaseInv, WakeInv, DirectDoneInv, ReloadRaisesInv, ReloadNextInv, QuietInv DEF Main
  <2>5. CASE \E u \in Units : Unit(u)
    BY <2>5, UnitTakeInv, UnitJobDoneInv, UnitQuietInv DEF Unit
  <2>6. CASE Http
    BY <2>6, HttpRouteInv, HttpSubmitInv, HttpReplyInv DEF Http
  <2> QED  BY <1>2, <2>2, <2>3, <2>4, <2>5, <2>6 DEF Next
<1> QED  BY <1>1, <1>2

\* The invariant holds in every state the threads can reach.
LEMMA InvCorrect == Spec => [](IInv /\ ThreadInv)
<1>1. Init => ThreadInv
  BY DEF Init, ThreadInv
<1> QED  BY <1>1, InitInv, NextInv, PTL DEF Spec

\* Every variable keeps its type: TypeOK of runtime.py, workers.py and ipc.py's state.
THEOREM TypeCorrect == Spec => []TypeOK
<1>1. IInv => TypeOK
  BY DEF IInv
<1> QED  BY <1>1, InvCorrect, PTL

\* What a shell asked for before the phase is ready is not answered.
Early ==
  ~ready => \A r \in Requests : Op[r] \notin {"resolve", "status"} => answer[r] \in {"none", "open", "closed"}

\* Answers are given by a served request, a released one, a status or the end of the loop.
LEMMA EarlyKept == ASSUME IInv, Early, [Next]_vars PROVE Early'
<1> SUFFICES ASSUME ~ready', NEW q \in Requests, Op[q] \notin {"resolve", "status"}
             PROVE  answer'[q] \in {"none", "open", "closed"}
  BY DEF Early
<1>1. ~ready
  BY DEF Next, vars, Connect, Submit, Cancel, Signal, Main, Top, Accept, AcceptTimeout, Release,
         DirectDone, ReloadRaises, ReloadWaits, Wake, Exit, ReloadNext, Unit, UnitTop, UnitTake,
         UnitJobDone, UnitIdle, UnitTicked, UnitStep, CatchUp, StartUnits, SetReady, Http, HttpRoute,
         HttpSubmit, HttpReply
<1>2. answer[q] \in {"none", "open", "closed"} /\ answer \in [Requests -> {"none", "open", "ok", "stopped", "failed", "closed"}]
  BY <1>1 DEF Early, IInv, TypeOK
<1>3. main \notin {"release", "reload", "blocked", "direct"}
  BY <1>1 DEF IInv, ServingInv
<1>4. CASE UNCHANGED answer
  BY <1>2, <1>4
<1>5. CASE \E r \in Requests : Connect(r)
  BY <1>2, <1>5 DEF Connect
<1>6. CASE Top
  BY <1>2, <1>6 DEF Top
<1>7. CASE Accept
  <2>1. Head(backlog) \in Requests
    BY <1>7, TailIn DEF Accept, IInv, TypeOK
  <2>2. CASE MustWait(Head(backlog))
    BY <1>4, <1>7, <2>2 DEF Accept
  <2>3. CASE ~MustWait(Head(backlog))
    <3>1. Op[Head(backlog)] = "status"
      BY <1>1, <2>3 DEF MustWait
    <3>2. answer' = [answer EXCEPT ![Head(backlog)] = "ok"]
      BY <1>7, <2>3, <3>1 DEF Accept, ServeNow, Reply, Serve, ServeUnit, ServeCheck, ServeReload
    <3> QED  BY <1>2, <2>1, <3>1, <3>2
  <2> QED  BY <2>2, <2>3
<1>8. CASE (\E r \in Requests : Submit(r)) \/ Http
  <2>1. \A r \in Requests : r = http.req => Op[r] = "resolve"
    BY DEF IInv, HttpInv
  <2>2. answer'[q] = answer[q]
    BY <1>2, <1>8, <2>1 DEF Submit, Http, HttpRoute, HttpSubmit, HttpReply, Reply
  <2> QED  BY <1>2, <2>2
<1>9. CASE Cancel \/ Signal \/ AcceptTimeout \/ Exit \/ CatchUp \/ UNCHANGED vars \/ \E u \in Units : Unit(u)
  BY <1>4, <1>9 DEF Cancel, Signal, AcceptTimeout, Exit, CatchUp, StartUnits, SetReady, vars, Unit,
                    UnitTop, UnitTake, UnitJobDone, UnitIdle, UnitTicked, UnitStep
<1>10. CASE Release \/ DirectDone \/ ReloadRaises \/ ReloadWaits \/ Wake \/ \E u \in Units : ReloadNext(u)
  BY <1>3, <1>10 DEF Release, DirectDone, ReloadRaises, ReloadWaits, Wake, ReloadNext
<1> QED  BY <1>5, <1>6, <1>7, <1>8, <1>9, <1>10 DEF Next, Main

\* Until the phase is ready the accept thread is inside no request, no unit works or
\* has worked for a shell, and nothing but a status was answered, whatever is asked and
\* in whichever order the threads run.
THEOREM NothingBeforeReadyCorrect == Spec => []NothingBeforeReady
<1>1. ASSUME IInv, Early PROVE NothingBeforeReady
  <2> SUFFICES ASSUME ~ready PROVE NothingBeforeReady
    BY DEF NothingBeforeReady
  <2>1. serving = NoOne
    BY <1>1 DEF IInv, ServingInv
  <2>2. ASSUME NEW r \in Requests, Op[r] \notin {"resolve", "status"}
        PROVE  /\ answer[r] \in {"none", "open", "closed"}
               /\ \A u \in Units : <<r, u>> \notin done /\ current[u] # r
    BY <1>1, <2>2 DEF IInv, JobInv, Job, Works, Early
  <2> QED  BY <2>1, <2>2 DEF NothingBeforeReady
<1>2. Init => Early
  BY DEF Init, Early
<1>3. IInv /\ Early /\ [Next]_vars => Early'
  BY EarlyKept
<1> QED  BY <1>1, <1>2, <1>3, InvCorrect, PTL DEF Spec

\* A request that was answered has no job queued or running on any unit, but for a check
\* or a reload that failed.
THEOREM AnswerIsFinalCorrect == Spec => []AnswerIsFinal
<1>1. ASSUME IInv PROVE AnswerIsFinal
  <2> SUFFICES ASSUME NEW r \in Requests,
                      \/ answer[r] \in {"ok", "stopped"}
                      \/ answer[r] = "failed" /\ Op[r] \notin {"check", "reload"},
                      NEW u \in Units
               PROVE  ~Works(r, u)
    BY DEF AnswerIsFinal, Works, In
  <2>1. Job(r, u)
    BY <1>1 DEF IInv, JobInv
  <2> QED  BY <1>1, <2>1 DEF Job, Owned, Orphan, IInv, ServingInv, HttpInv
<1> QED  BY <1>1, InvCorrect, PTL
-----------------------------------------------------------------------------
\* Which units a request finds.

\* Ready comes after the units; a check waits for every one of them, and is
\* answered on the accept thread only when there is none.
UnitsKnown ==
  /\ ready => http.pc # "down"
  /\ main = "blocked" /\ Op[serving] = "check" => waits = units
  /\ main = "direct" /\ Op[serving] \in {"check", "reload"} => units = {}

ReloadFailed == \E r \in Requests : Op[r] = "reload" /\ answer[r] = "failed"

\* Units and those a reload has yet to visit are of mapped projects, and of all of
\* them, unless a reload failed or had no unit to go on from.
UnitsMapped ==
  http.pc # "down" =>
    /\ units \subseteq snapshot
    /\ main = "reload" => starting \subseteq snapshot
    /\ \/ units = {} /\ main # "reload"
       \/ snapshot = IF main = "reload" THEN units \cup starting ELSE units
       \/ ReloadFailed

\* Every change of an answer is of an open one, or makes one open.
LEMMA FailedStays ==
  ASSUME IInv, [Next]_vars, NEW q \in Requests, Op[q] = "reload", answer[q] = "failed"
  PROVE  answer'[q] = "failed"
<1> USE DEF IInv
<1>1. q # serving /\ q # http.req /\ ~Unserved(q)
  BY DEF ServingInv, HttpInv, Unserved
<1>2. CASE \/ \E r \in Requests : Connect(r) \/ Submit(r)
           \/ Cancel \/ Signal \/ CatchUp \/ Http \/ UNCHANGED vars
           \/ \E u \in Units : Unit(u)
  BY <1>1, <1>2 DEF Connect, Submit, Cancel, Signal, CatchUp, StartUnits, SetReady, Http, HttpRoute,
     HttpSubmit, HttpReply, vars, Reply, TypeOK, HttpInv, Unit, UnitTop, UnitTake, UnitJobDone,
     UnitIdle, UnitTicked, UnitStep
<1>3. CASE Top \/ AcceptTimeout \/ ReloadWaits \/ Exit \/ \E u \in Units : ReloadNext(u)
  BY <1>3 DEF Top, AcceptTimeout, ReloadWaits, Exit, ReloadNext, TypeOK
<1>4. CASE DirectDone \/ ReloadRaises \/ Wake
  BY <1>1, <1>4 DEF DirectDone, ReloadRaises, Wake, Answered, Reply, TypeOK
<1>5. ASSUME NEW r \in Requests, Unserved(r),
             UNCHANGED answer \/ \E loop \in {"top", "release"} : ServeNow(r, loop) \/ Serve(r, loop)
      PROVE  answer'[q] = "failed"
  BY <1>1, <1>5 DEF ServeNow, Serve, ServeUnit, ServeCheck, ServeReload, WaitFor, ServeDirect,
                    Reply, TypeOK
<1>6. CASE Accept
  <2>1. Unserved(Head(backlog)) /\ Head(backlog) \in Requests
    BY <1>6, TailIn DEF Accept, ConnectionInv, TypeOK
  <2> QED  BY <1>5, <1>6, <2>1 DEF Accept
<1>7. CASE Release
  <2>1. CASE pending = <<>>
    BY <1>7, <2>1 DEF Release
  <2>2. CASE pending # <<>>
    <3>1. Unserved(Head(pending)) /\ Head(pending) \in Requests
      BY <2>2, TailIn DEF ConnectionInv, TypeOK
    <3> QED  BY <1>5, <1>7, <2>2, <3>1 DEF Release
  <2> QED  BY <2>1, <2>2
<1> QED  BY <1>2, <1>3, <1>4, <1>6, <1>7 DEF Next, Main

\* So a reload that failed is never forgotten.
LEMMA ReloadFailedStays ==
  ASSUME IInv, [Next]_vars, ReloadFailed PROVE ReloadFailed'
BY FailedStays DEF ReloadFailed

\* What a request that is served changes: a reload visits what it has to start.
LEMMA ServeUnits ==
  ASSUME IInv, UnitsKnown, NEW r \in Requests, NEW loop \in {"top", "release"}, Serve(r, loop), ready,
         ReloadFailed => ReloadFailed',
         serving = NoOne, main \in {"accept", "release"}, UNCHANGED <<http, ready>>
  PROVE  /\ UnitsKnown'
         /\ UnitsMapped => UnitsMapped'
         /\ \A q \in Requests : Op[q] = "check" => answer'[q] = answer[q]
<1> USE DEF IInv
<1>1. CASE ServeUnit(r, loop)
  BY <1>1 DEF ServeUnit, WaitFor, ServeDirect, UnitsKnown, UnitsMapped
<1>2. CASE ServeCheck(r, loop)
  BY <1>2 DEF ServeCheck, WaitFor, ServeDirect, UnitsKnown, UnitsMapped
<1>3. CASE Op[r] = "reload" /\ units = {} /\ ServeDirect(r, loop)
  BY <1>3 DEF ServeDirect, UnitsKnown, UnitsMapped
<1>4. CASE Op[r] = "reload" /\ units # {} /\ ServeNow(r, loop)
  BY <1>4 DEF ServeNow, Reply, UnitsKnown, UnitsMapped, TypeOK
<1>5. ASSUME NEW mapped \in Reloads, NEW edited \in SUBSET snapshot,
             Op[r] = "reload", units # {}, snapshot' = mapped, units' = units \ Retired(mapped),
             starting' = ((edited \cap mapped) \cup (snapshot \ mapped) \cup (mapped \ snapshot)) \cap mapped,
             main' = "reload", serving' = r, UNCHANGED answer
      PROVE  UnitsKnown' /\ (UnitsMapped => UnitsMapped')
  <2>1. UnitsKnown'
    BY <1>5 DEF UnitsKnown
  <2>2. http.pc # "down"
    BY DEF UnitsKnown
  <2>3. units' = units \cap mapped /\ units' \subseteq snapshot' /\ starting' \subseteq snapshot'
    BY <1>5 DEF Retired
  <2>4. snapshot = units => snapshot' = units' \cup starting'
    BY <1>5, <2>3
  <2> QED  BY <1>5, <2>1, <2>2, <2>3, <2>4 DEF UnitsMapped
<1>6. CASE ServeReload(r, loop)
  BY <1>3, <1>4, <1>5, <1>6 DEF ServeReload, ServeNow, Reply, TypeOK
<1> QED  BY <1>1, <1>2, <1>6 DEF Serve

\* What a connection that is accepted or released changes.
LEMMA ServedUnits ==
  ASSUME IInv, UnitsKnown, Accept \/ Release, ReloadFailed => ReloadFailed'
  PROVE  /\ UnitsKnown'
         /\ UnitsMapped => UnitsMapped'
         /\ \A q \in Requests : Op[q] = "check" => answer'[q] = answer[q]
<1>1. serving = NoOne /\ UNCHANGED <<http, ready>> /\ main \in {"accept", "release"}
  BY DEF Accept, Release, IInv, ServingInv
<1>2. ASSUME NEW r \in Requests, NEW loop \in {"top", "release"}, Serve(r, loop), ready
      PROVE  /\ UnitsKnown'
             /\ UnitsMapped => UnitsMapped'
             /\ \A q \in Requests : Op[q] = "check" => answer'[q] = answer[q]
  BY <1>1, <1>2, ServeUnits
<1>3. ASSUME NEW r \in Requests, NEW loop \in {"top", "release"}, ServeNow(r, loop), Op[r] # "check"
      PROVE  /\ UnitsKnown'
             /\ UnitsMapped => UnitsMapped'
             /\ \A q \in Requests : Op[q] = "check" => answer'[q] = answer[q]
  BY <1>1, <1>3 DEF ServeNow, Reply, UnitsKnown, UnitsMapped, IInv, TypeOK
<1>4. CASE main' = "top" /\ UNCHANGED <<snapshot, units, waits, starting, serving, answer>>
  BY <1>1, <1>4 DEF UnitsKnown, UnitsMapped
<1>5. CASE Accept
  <2>1. Head(backlog) \in Requests
    BY <1>5, TailIn DEF Accept, IInv, TypeOK
  <2>2. CASE ~MustWait(Head(backlog)) /\ Serve(Head(backlog), "top")
    <3>1. ready
      BY <2>2 DEF MustWait, Serve, ServeUnit, ServeCheck, ServeReload
    <3> QED  BY <1>2, <2>1, <2>2, <3>1
  <2>3. CASE Op[Head(backlog)] \in {"status", "wait"} /\ ServeNow(Head(backlog), "top")
    BY <1>3, <2>1, <2>3
  <2> QED  BY <1>4, <1>5, <2>2, <2>3 DEF Accept
<1>6. CASE Release
  <2>1. ready
    BY <1>6 DEF Release, IInv, ServingInv
  <2>2. CASE pending = <<>>
    BY <1>4, <1>6, <2>2 DEF Release
  <2>3. CASE pending # <<>>
    <3>1. Head(pending) \in Requests
      BY <2>3, TailIn DEF IInv, TypeOK
    <3> QED  BY <1>2, <1>3, <1>6, <2>1, <2>3, <3>1 DEF Release
  <2> QED  BY <2>2, <2>3
<1> QED  BY <1>5, <1>6

\* A reload goes on to the next project, or leaves the ones it has not visited: it failed.
LEMMA ReloadUnits ==
  ASSUME IInv, UnitsKnown, ReloadRaises \/ \E u \in Units : ReloadNext(u), ReloadFailed => ReloadFailed'
  PROVE  /\ UnitsKnown'
         /\ UnitsMapped => UnitsMapped'
         /\ \A q \in Requests : Op[q] = "check" => answer'[q] = answer[q]
<1>1. main = "reload" /\ ready /\ Op[serving] = "reload" /\ serving \in Requests
  BY DEF ReloadRaises, ReloadNext, IInv, TypeOK, ServingInv
<1>2. CASE ReloadRaises
  <2>1. /\ answer' = [answer EXCEPT ![serving] = "failed"] /\ main' \in {"top", "release"}
        /\ UNCHANGED <<snapshot, units, http, ready>>
    BY <1>2 DEF ReloadRaises, Answered, Reply, IInv, TypeOK
  <2>2. ReloadFailed'
    BY <1>1, <2>1 DEF ReloadFailed, IInv, TypeOK
  <2> QED  BY <1>1, <2>1, <2>2 DEF UnitsKnown, UnitsMapped, IInv, TypeOK
<1>3. CASE \E u \in Units : ReloadNext(u)
  BY <1>1, <1>3 DEF ReloadNext, UnitsKnown, UnitsMapped
<1> QED  BY <1>2, <1>3

\* The answer of a handler on the accept thread, or of the jobs: a check that was
\* not stopped ran on each unit.
LEMMA AnsweredUnits ==
  ASSUME IInv, UnitsKnown, DirectDone \/ Wake, ReloadFailed => ReloadFailed'
  PROVE  /\ UnitsKnown'
         /\ UnitsMapped => UnitsMapped'
         /\ \A q \in Requests : Op[q] = "check" /\ answer[q] = "open" /\ answer'[q] = "ok" =>
              \A u \in units : <<q, u>> \in done \ (skipped \cup raised)
<1>1. /\ main \in {"blocked", "direct"} /\ main' \in {"top", "release"} /\ serving \in Requests
      /\ \A q \in Requests : answer'[q] # answer[q] => q = serving
      /\ UNCHANGED <<units, http, ready>>
  BY DEF DirectDone, Wake, Answered, Reply, IInv, TypeOK, ServingInv
<1>2. CASE DirectDone
  <2>1. main = "direct" /\ (snapshot' = snapshot \/ Op[serving] = "reload")
    BY <1>2 DEF DirectDone
  <2> QED  BY <1>1, <2>1 DEF UnitsKnown, UnitsMapped
<1>3. CASE Wake
  <2>1. /\ UNCHANGED snapshot /\ main = "blocked" /\ answer' = [answer EXCEPT ![serving] = Outcome]
    BY <1>3 DEF Wake, Answered, Reply
  <2>2. UnitsKnown' /\ (UnitsMapped => UnitsMapped')
    BY <1>1, <2>1 DEF UnitsKnown, UnitsMapped
  <2>3. ASSUME NEW q \in Requests, Op[q] = "check", answer[q] = "open", answer'[q] = "ok"
        PROVE  \A u \in units : <<q, u>> \in done \ (skipped \cup raised)
    <3>1. q = serving /\ Outcome = "ok"
      BY <1>1, <2>1, <2>3 DEF IInv, TypeOK
    <3>2. waits = units
      BY <2>1, <2>3, <3>1 DEF UnitsKnown
    <3>3. \A u \in waits : <<serving, u>> \notin raised \cup skipped
      BY <3>1 DEF Outcome
    <3> QED  BY <1>3, <3>1, <3>2, <3>3 DEF Wake, JobsOver
  <2> QED  BY <2>2, <2>3
<1> QED  BY <1>2, <1>3

\* The other steps change no unit, but for the end of catch-up.
LEMMA OtherUnits ==
  ASSUME IInv, UnitsKnown, [Next]_vars, ReloadFailed => ReloadFailed',
         ~Accept, ~Release, ~Wake, ~DirectDone, ~ReloadRaises, ~\E u \in Units : ReloadNext(u)
  PROVE  /\ UnitsKnown'
         /\ UnitsMapped => UnitsMapped'
         /\ \A q \in Requests : Op[q] = "check" /\ answer[q] = "open" => answer'[q] # "ok"
<1> USE DEF IInv
<1>1. CASE \/ \E r \in Requests : Connect(r) \/ Submit(r)
           \/ Cancel \/ Signal \/ SetReady \/ Http \/ UNCHANGED vars
  <2>1. /\ UNCHANGED <<snapshot, units, main, serving, waits, starting>>
        /\ http'.pc = "down" => http.pc = "down"
        /\ http.pc = "down" => http'.pc = "down"
        /\ ready' => ready \/ http.pc # "down"
    BY <1>1 DEF Connect, Submit, Cancel, Signal, SetReady, Http, HttpRoute, HttpSubmit, HttpReply,
                mainVars, unitVars, vars, TypeOK
  <2>2. \A q \in Requests : Op[q] = "check" /\ answer[q] = "open" => answer'[q] # "ok"
    BY <1>1 DEF Connect, Submit, Cancel, Signal, SetReady, Http, HttpRoute, HttpSubmit, HttpReply,
                Reply, vars, TypeOK, HttpInv
  <2> QED  BY <2>1, <2>2 DEF UnitsKnown, UnitsMapped
<1>2. CASE \E u \in Units : Unit(u)
  <2>1. UNCHANGED <<snapshot, units, main, serving, waits, starting, http, ready, answer>>
    BY <1>2 DEF Unit, UnitTop, UnitTake, UnitJobDone, UnitIdle, UnitTicked, UnitStep, mainVars
  <2> QED  BY <2>1 DEF UnitsKnown, UnitsMapped
<1>3. CASE StartUnits
  <2>1. serving = NoOne /\ main \notin {"reload", "blocked", "direct"}
    BY <1>3 DEF StartUnits, UnitsKnown, ServingInv
  <2> QED  BY <1>3, <2>1 DEF StartUnits, mainVars, UnitsKnown, UnitsMapped, TypeOK
<1>4. CASE ReloadWaits
  <2>1. main = "reload" /\ ready /\ Op[serving] = "reload"
    BY <1>4 DEF ReloadWaits, ServingInv
  <2> QED  BY <1>4, <2>1 DEF ReloadWaits, UnitsKnown, UnitsMapped
<1>5. CASE Top \/ AcceptTimeout \/ Exit
  <2>1. /\ UNCHANGED <<snapshot, units, serving, waits, starting, http, ready>>
        /\ main' \notin {"reload", "blocked", "direct"} /\ main # "reload"
    BY <1>5 DEF Top, AcceptTimeout, Exit
  <2>2. \A q \in Requests : Op[q] = "check" /\ answer[q] = "open" => answer'[q] # "ok"
    BY <1>5 DEF Top, AcceptTimeout, Exit, TypeOK
  <2> QED  BY <2>1, <2>2 DEF UnitsKnown, UnitsMapped
<1> QED  BY <1>1, <1>2, <1>3, <1>4, <1>5 DEF Next, Main, CatchUp

\* Every step keeps what is known of the units.
LEMMA UnitsNext ==
  ASSUME IInv, UnitsKnown, [Next]_vars
  PROVE  /\ UnitsKnown'
         /\ UnitsMapped => UnitsMapped'
         /\ \A q \in Requests : Op[q] = "check" /\ answer[q] = "open" /\ answer'[q] = "ok" =>
              \A u \in units : <<q, u>> \in done \ (skipped \cup raised)
BY ReloadFailedStays, ServedUnits, ReloadUnits, AnsweredUnits, OtherUnits

\* It is known in every state the threads can reach.
LEMMA UnitsKnownCorrect == Spec => [](IInv /\ UnitsKnown)
<1>1. Init => UnitsKnown
  BY DEF Init, UnitsKnown
<1> QED  BY <1>1, InvCorrect, UnitsNext, PTL DEF Spec

\* _fanout_check: a check that was answered without a stop ran on every unit
\* there is at that moment, although units come and go with the mapping.
THEOREM CheckIsCompleteCorrect == Spec => CheckIsComplete
<1>1. IInv /\ UnitsKnown /\ [Next]_vars =>
        [\A r \in Requests : Op[r] = "check" /\ answer[r] = "open" /\ answer'[r] = "ok" =>
           \A u \in units : <<r, u>> \in done \ (skipped \cup raised)]_vars
  BY UnitsNext
<1> QED  BY <1>1, UnitsKnownCorrect, PTL DEF Spec, CheckIsComplete

\* Between two requests of a ready daemon only mapped projects have a unit, and all of
\* them have, unless a reload failed half-way or found no unit to go on from: whatever
\* the first mapping is and whatever the reloads map, an empty mapping included.
THEOREM MappedAreObservedCorrect == Spec => []MappedAreObserved
<1>1. Init => UnitsMapped
  BY DEF Init, UnitsMapped
<1>2. IInv /\ UnitsKnown /\ UnitsMapped => MappedAreObserved
  BY DEF IInv, ServingInv, UnitsKnown, UnitsMapped, ReloadFailed, MappedAreObserved
<1>3. IInv /\ UnitsKnown /\ UnitsMapped /\ [Next]_vars => UnitsMapped'
  BY UnitsNext
<1> QED  BY <1>1, <1>2, <1>3, UnitsKnownCorrect, PTL DEF Spec
=============================================================================
