-------------------------- MODULE StopRefreshProofs --------------------------
(***************************************************************************)
(* Proofs about StopRefresh, for any number of users, stops and commands.  *)
(***************************************************************************)
EXTENDS StopRefresh, TLAPS

Fields == {"state", "thread", "frames", "sel", "locals", "exc", "info", "graph"}

(* A snapshot that shows locals only while paused. *)
Honest(s) ==
  /\ s = [f \in Fields |-> s[f]]
  /\ s.locals # None => s.state = "PAUSED"

JobsInv == job = [p \in Jobs |-> job[p]]

(* The job of the watches evaluates for the key of the snapshot, or it has *)
(* done so.                                                                *)
WatchesInv ==
  /\ wkey = EvalKey(store)
  /\ job[Watches] = Idle \/ job[Watches] = [at |-> "watch", frame |-> wkey]
  /\ WatchesFollowFrame

SInv == Honest(store) /\ JobsInv /\ WatchesInv

-----------------------------------------------------------------------------
(* Which jobs are not that of the watches *)
LEMMA OtherJobs ==
  /\ Watches \in Jobs
  /\ Handler # Watches
  /\ \A u : User(u) # Watches
  /\ \A n : Tasks(n) # Watches /\ Info(n) # Watches
BY DEF Watches, Jobs, Handler, User, Tasks, Info

LEMMA NotWatches ==
  ASSUME SInv, NEW p \in Jobs, job[p].at \notin {"idle", "watch"}
  PROVE  p # Watches
BY DEF SInv, WatchesInv, Idle

(* A change of the snapshot by a job that is not the watches' *)
LEMMA UpdateKeeps ==
  ASSUME SInv, NEW s, Honest(s), NEW jobs, NEW sent, Update(s, jobs, sent),
         jobs = [p \in Jobs |-> jobs[p]], jobs[Watches] = job[Watches], UNCHANGED watch
  PROVE  SInv'
<1> DEFINE key == EvalKey(s)
<1>1. store' = s /\ wkey' = key
  BY DEF Update
<1>2. EvalKey(store)' = key
  BY <1>1 DEF EvalKey
<1>3. CASE Restarts(key, jobs)
  <2>1. job' = [jobs EXCEPT ![Watches] =
                  IF key = Off THEN Idle ELSE [at |-> "watch", frame |-> key]]
    BY <1>3 DEF Update
  <2>2. job'[Watches] = IF key = Off THEN Idle ELSE [at |-> "watch", frame |-> key]
    BY <2>1, OtherJobs
  <2>3. JobsInv'
    BY <2>1 DEF JobsInv
  <2>4. key # Off => job'[Watches] # Idle
    BY <2>2 DEF Idle
  <2> QED
    BY <1>1, <1>2, <2>2, <2>3, <2>4 DEF SInv, WatchesInv, WatchesFollowFrame
<1>4. CASE ~Restarts(key, jobs)
  <2>1. job' = jobs /\ wkey' = wkey
    BY <1>1, <1>4 DEF Update, Restarts
  <2> QED
    BY <1>1, <1>2, <2>1 DEF SInv, JobsInv, WatchesInv, WatchesFollowFrame
<1> QED
  BY <1>3, <1>4

(* A step of such a job that leaves the snapshot alone *)
LEMMA KeepKeeps ==
  ASSUME SInv, NEW jobs, NEW sent, Keep(jobs, sent),
         jobs = [p \in Jobs |-> jobs[p]], jobs[Watches] = job[Watches], UNCHANGED watch
  PROVE  SInv'
BY DEF Keep, SInv, JobsInv, WatchesInv, WatchesFollowFrame, EvalKey

(* Another job may be given anything to do. *)
LEMMA ThenKeeps ==
  ASSUME SInv, NEW p, p # Watches, NEW j
  PROVE  /\ Then(p, j) = [q \in Jobs |-> Then(p, j)[q]]
         /\ Then(p, j)[Watches] = job[Watches]
BY OtherJobs DEF Then, SInv, JobsInv

LEMMA RunningHonest == ASSUME NEW s, Honest(s) PROVE Honest(Running(s))
BY DEF Honest, Running, Fields

-----------------------------------------------------------------------------
LEMMA SInit == Init => SInv
<1> SUFFICES ASSUME Init PROVE SInv
  OBVIOUS
<1>1. Honest(store)
  BY DEF Init, Honest, Blank, Fields
<1>2. JobsInv /\ job[Watches] = Idle
  BY OtherJobs DEF Init, JobsInv
<1>3. wkey = Off /\ EvalKey(store) = Off
  BY DEF Init, EvalKey, Blank
<1> QED
  BY <1>1, <1>2, <1>3 DEF SInv, WatchesInv, WatchesFollowFrame

-----------------------------------------------------------------------------
(* The end of a refresh of locals, with a snapshot s *)
LEMMA RefreshOverKeeps ==
  ASSUME SInv, NEW p \in Jobs, p # Watches, NEW s, Honest(s), NEW sent,
         RefreshOver(p, s, sent), UNCHANGED watch
  PROVE  SInv'
<1>1. CASE p # Handler
  BY <1>1, UpdateKeeps, ThenKeeps DEF RefreshOver
<1>2. CASE p = Handler
  <2> DEFINE n == job[p].n
             jobs == [job EXCEPT ![Tasks(n)] = [at |-> "start"]]
             end == StopEnded(s, n, jobs)
             asked == IF end[2][Info(n)] = Idle THEN sent ELSE Append(sent, Info(n))
  <2>1. \/ Update(end[1], [end[2] EXCEPT ![p] = [at |-> "continue", n |-> n]], Append(asked, p))
        \/ Update(end[1], [end[2] EXCEPT ![p] = Idle], asked)
    BY <1>2 DEF RefreshOver
  <2>2. jobs = [q \in Jobs |-> jobs[q]] /\ jobs[Watches] = job[Watches]
    BY OtherJobs DEF SInv, JobsInv
  <2>3. end[2] = jobs \/ end[2] = [jobs EXCEPT ![Info(n)] = [at |-> "exceptionInfo", n |-> n]]
    BY DEF StopEnded
  <2>4. end[2] = [q \in Jobs |-> end[2][q]] /\ end[2][Watches] = job[Watches]
    BY <2>2, <2>3, OtherJobs
  <2>5. end[1] = s \/ end[1] = [s EXCEPT !.info = None]
    BY DEF StopEnded
  <2>6. Honest(end[1])
    BY <2>5 DEF Honest, Fields
  <2> HIDE DEF end, asked
  <2>7. ASSUME NEW j
        PROVE  LET next == [end[2] EXCEPT ![p] = j]
               IN next = [q \in Jobs |-> next[q]] /\ next[Watches] = job[Watches]
    BY <2>4
  <2> QED
    BY <2>1, <2>6, <2>7, UpdateKeeps
<1> QED
  BY <1>1, <1>2

(* A request that fails *)
LEMMA FailedKeeps ==
  ASSUME SInv, NEW p \in Jobs, Failed(p)
  PROVE  SInv'
<1>1. CASE p = Watches
  <2>1. job[p].at \in {"idle", "watch"}
    BY <1>1 DEF SInv, WatchesInv, Idle
  <2>2. Keep(Then(p, Idle), Gone(p)) /\ watch' = IF job[p].at = "watch" THEN Error ELSE watch
    BY <2>1 DEF Failed
  <2>3. job' = [job EXCEPT ![p] = Idle] /\ UNCHANGED <<store, wkey>>
    BY <2>2 DEF Keep, Then
  <2>4. (wkey # Off)' => watch' \in {wkey, Error}
    BY <1>1, <2>2, <2>3 DEF SInv, WatchesInv, WatchesFollowFrame, Idle
  <2> QED
    BY <1>1, <2>3, <2>4, OtherJobs DEF SInv, JobsInv, WatchesInv, WatchesFollowFrame, EvalKey
<1>2. CASE p # Watches
  <2> DEFINE jobs == Then(p, Idle)
  <2>1. jobs = [q \in Jobs |-> jobs[q]] /\ jobs[Watches] = job[Watches]
    BY <1>2, ThenKeeps
  <2>2. CASE job[p].at \in {"define", "call"}
    <3>1. Honest(IF SameStop(p) THEN [store EXCEPT !.graph = Error] ELSE store)
      BY DEF SInv, Honest
    <3>2. UNCHANGED watch
      BY <2>2 DEF Failed
    <3> QED
      BY <2>1, <2>2, <3>1, <3>2, UpdateKeeps DEF Failed
  <2>3. CASE job[p].at = "exceptionInfo"
    <3>1. Honest(IF InfoWanted(p) THEN [store EXCEPT !.info = None] ELSE store)
      BY DEF SInv, Honest
    <3>2. UNCHANGED watch
      BY <2>3 DEF Failed
    <3> QED
      BY <2>1, <2>3, <3>1, <3>2, UpdateKeeps DEF Failed
  <2>4. CASE job[p].at \notin {"define", "call", "exceptionInfo", "watch"}
    <3>1. Keep(jobs, Gone(p)) /\ UNCHANGED watch
      BY <2>4 DEF Failed
    <3> QED
      BY <2>1, <3>1, KeepKeeps
  <2>5. CASE job[p].at = "watch"
    <3>1. Keep(jobs, Gone(p)) /\ watch' = Error
      BY <2>5 DEF Failed
    <3> QED
      BY <2>1, <3>1 DEF Keep, SInv, JobsInv, WatchesInv, WatchesFollowFrame, EvalKey
  <2> QED
    BY <2>2, <2>3, <2>4, <2>5
<1> QED
  BY <1>1, <1>2
-----------------------------------------------------------------------------
(* A job that waits for an answer of this kind is not that of the watches. *)
LEMMA AnswerKeeps ==
  ASSUME SInv, NEW p \in Jobs, Answer(p)
  PROVE  SInv'
<1> USE DEF Idle
<1>1. CASE Moves(p)
  <2>1. p # Watches
    BY <1>1, NotWatches DEF Moves
  <2> QED
    BY <1>1, <2>1, KeepKeeps, ThenKeeps DEF Moves
<1>2. CASE ThreadsLoaded(p)
  <2>1. p # Watches
    BY <1>2, NotWatches DEF ThreadsLoaded
  <2>2. Keep(Then(p, [job[p] EXCEPT !.at = "stackTrace"]), Append(Gone(p), p))
    BY <1>2 DEF ThreadsLoaded, Then
  <2> QED
    BY <1>2, <2>1, <2>2, KeepKeeps, ThenKeeps DEF ThreadsLoaded
<1>3. CASE FramesLoaded(p)
  <2>1. p # Watches
    BY <1>3, NotWatches DEF FramesLoaded
  <2>2. UNCHANGED watch
    BY <1>3 DEF FramesLoaded
  <2>3. CASE halted
    <3>1. PICK f, j : Update([store EXCEPT !.frames = [n |-> Now, top |-> f], !.sel = f],
                             Then(p, j), Append(Gone(p), p))
      BY <1>3, <2>3 DEF FramesLoaded
    <3>2. Honest([store EXCEPT !.frames = [n |-> Now, top |-> f], !.sel = f])
      BY DEF SInv, Honest, Fields
    <3> QED
      BY <2>1, <2>2, <3>1, <3>2, UpdateKeeps, ThenKeeps
  <2>4. CASE ~halted
    <3> DEFINE s == [store EXCEPT !.frames = None, !.sel = None]
    <3>1. Honest(s)
      BY DEF SInv, Honest, Fields
    <3>2. RefreshOver(p, s, Gone(p))
      BY <1>3, <2>4 DEF FramesLoaded
    <3> QED
      BY <2>1, <2>2, <3>1, <3>2, RefreshOverKeeps
  <2> QED
    BY <2>3, <2>4
<1>4. CASE ScopesLoaded(p)
  <2>1. p # Watches
    BY <1>4, NotWatches DEF ScopesLoaded
  <2>2. UNCHANGED watch
    BY <1>4 DEF ScopesLoaded
  <2>3. CASE IsCurrent(p)
    <3>1. PICK j : Keep(Then(p, j), Append(Gone(p), p))
      BY <1>4, <2>3 DEF ScopesLoaded
    <3> QED
      BY <2>1, <2>2, <3>1, KeepKeeps, ThenKeeps
  <2>4. CASE ~IsCurrent(p)
    <3>1. RefreshOver(p, store, Gone(p))
      BY <1>4, <2>4 DEF ScopesLoaded
    <3> QED
      BY <2>1, <2>2, <3>1, RefreshOverKeeps DEF SInv
  <2> QED
    BY <2>3, <2>4
<1>5. CASE VariablesLoaded(p)
  <2>1. p # Watches
    BY <1>5, NotWatches DEF VariablesLoaded
  <2> DEFINE s == IF IsCurrent(p)
                  THEN [store EXCEPT !.locals = [n |-> Now, frame |-> job[p].frame]]
                  ELSE store
  <2>2. Honest(s)
    BY DEF SInv, Honest, IsCurrent, Fields
  <2>3. RefreshOver(p, s, Gone(p)) /\ UNCHANGED watch
    BY <1>5 DEF VariablesLoaded
  <2> QED
    BY <2>1, <2>2, <2>3, RefreshOverKeeps
<1>6. CASE TasksAnswered(p)
  <2>1. p # Watches
    BY <1>6, NotWatches DEF TasksAnswered
  <2>2. UNCHANGED watch
    BY <1>6 DEF TasksAnswered
  <2>3. CASE job[p].at = "define"
    <3>1. PICK j : Keep(Then(p, j), Append(Gone(p), p))
      BY <1>6, <2>3 DEF TasksAnswered
    <3> QED
      BY <2>1, <2>2, <3>1, KeepKeeps, ThenKeeps
  <2>4. CASE job[p].at # "define"
    <3>1. Honest(IF SameStop(p) THEN [store EXCEPT !.graph = Now] ELSE store)
      BY DEF SInv, Honest
    <3> QED
      BY <1>6, <2>1, <2>2, <2>4, <3>1, UpdateKeeps, ThenKeeps DEF TasksAnswered
  <2> QED
    BY <2>3, <2>4
<1>7. CASE InfoAnswered(p)
  <2>1. p # Watches
    BY <1>7, NotWatches DEF InfoAnswered
  <2>2. \A got : Honest(IF InfoWanted(p) THEN [store EXCEPT !.info = got] ELSE store)
    BY DEF SInv, Honest
  <2> QED
    BY <1>7, <2>1, <2>2, UpdateKeeps, ThenKeeps DEF InfoAnswered
<1>8. CASE Refused(p)
  BY <1>8, FailedKeeps DEF Refused
<1>9. CASE TimesOut(p)
  BY <1>9, FailedKeeps DEF TimesOut
<1>10. CASE p = Watches /\ WatchAnswered
  <2>1. job[Watches] = [at |-> "watch", frame |-> wkey]
    BY <1>10 DEF WatchAnswered, SInv, WatchesInv, Idle
  <2>2. watch' \in {wkey, Error}
    BY <1>10, <2>1 DEF WatchAnswered
  <2>3. job' = [job EXCEPT ![Watches] = Idle] /\ UNCHANGED <<store, wkey>>
    BY <1>10 DEF WatchAnswered, Keep, Then
  <2> QED
    BY <2>2, <2>3, OtherJobs DEF SInv, JobsInv, WatchesInv, WatchesFollowFrame, EvalKey
<1> QED
  BY <1>1, <1>2, <1>3, <1>4, <1>5, <1>6, <1>7, <1>8, <1>9, <1>10 DEF Answer
-----------------------------------------------------------------------------
(* What the user does *)
LEMMA CommandKeeps ==
  ASSUME SInv, NEW u \in Users, Go(u) \/ SelectFrame(u) \/ SelectThread(u) \/ RefreshTasks(u)
  PROVE  SInv'
<1>1. User(u) # Watches /\ UNCHANGED watch
  BY OtherJobs DEF Go, SelectFrame, SelectThread, RefreshTasks, Command
<1>2. CASE Go(u)
  BY <1>1, <1>2, KeepKeeps, ThenKeeps DEF Go
<1>3. CASE SelectFrame(u)
  <2>1. \A f : Honest([store EXCEPT !.sel = f])
    BY DEF SInv, Honest, Fields
  <2> QED
    BY <1>1, <1>3, <2>1, UpdateKeeps, ThenKeeps DEF SelectFrame
<1>4. CASE SelectThread(u)
  <2>1. \A t : Honest([store EXCEPT !.thread = t])
    BY DEF SInv, Honest, Fields
  <2> QED
    BY <1>1, <1>4, <2>1, UpdateKeeps, ThenKeeps DEF SelectThread
<1>5. CASE RefreshTasks(u)
  BY <1>1, <1>5, KeepKeeps, ThenKeeps DEF RefreshTasks
<1> QED
  BY <1>2, <1>3, <1>4, <1>5

(* An event that is taken *)
LEMMA EventKeeps == ASSUME SInv, TakeEvent PROVE SInv'
<1>1. UNCHANGED watch
  BY DEF TakeEvent
<1>2. CASE Continued
  <2> DEFINE s == [Running(store) EXCEPT !.exc = FALSE, !.info = None, !.graph = None]
  <2>1. Honest(Running(store))
    BY RunningHonest DEF SInv
  <2>2. Honest(s)
    BY <2>1 DEF Honest, Fields
  <2>3. job = [q \in Jobs |-> job[q]]
    BY DEF SInv, JobsInv
  <2> QED
    BY <1>1, <1>2, <2>2, <2>3, UpdateKeeps DEF Continued
<1>3. CASE Stopped
  <2>1. PICK t, e, j, sent :
          Update([store EXCEPT !.state = "PAUSED", !.thread = t, !.exc = e], Then(Handler, j), sent)
    BY <1>3 DEF Stopped
  <2>2. Honest([store EXCEPT !.state = "PAUSED", !.thread = t, !.exc = e])
    BY DEF SInv, Honest, Fields
  <2> QED
    BY <1>1, <2>1, <2>2, OtherJobs, UpdateKeeps, ThenKeeps
<1> QED
  BY <1>2, <1>3 DEF TakeEvent

(* A job that runs without an answer *)
LEMMA RunsKeeps == ASSUME SInv, NEW p \in Jobs, Runs(p) PROVE SInv'
<1>1. CASE Woken(p)
  <2>1. p # Watches /\ UNCHANGED watch
    BY <1>1, NotWatches DEF Woken
  <2>2. CASE job[p].was = "continue"
    <3>1. Update(Running(store), Then(p, Idle), wire)
      BY <1>1, <2>2 DEF Woken
    <3>2. Honest(Running(store))
      BY RunningHonest DEF SInv
    <3> QED
      BY <2>1, <3>1, <3>2, UpdateKeeps, ThenKeeps
  <2>3. CASE job[p].was # "continue"
    BY <1>1, <2>1, <2>3, KeepKeeps, ThenKeeps DEF Woken
  <2> QED
    BY <2>2, <2>3
<1>2. CASE TasksStarted(p)
  <2>1. p # Watches /\ UNCHANGED watch
    BY <1>2, NotWatches DEF TasksStarted
  <2>2. CASE store.state # "PAUSED"
    <3>1. Honest([store EXCEPT !.graph = Unavailable])
      BY DEF SInv, Honest, Fields
    <3> QED
      BY <1>2, <2>1, <2>2, <3>1, UpdateKeeps, ThenKeeps DEF TasksStarted
  <2>3. CASE store.state = "PAUSED"
    <3>1. PICK j : Keep(Then(p, j), Sent(p))
      BY <1>2, <2>3 DEF TasksStarted
    <3> QED
      BY <2>1, <3>1, KeepKeeps, ThenKeeps
  <2> QED
    BY <2>2, <2>3
<1> QED
  BY <1>1, <1>2 DEF Runs

(* The end of the connection *)
LEMMA ResetKeeps == ASSUME SInv, Reset PROVE SInv'
<1> DEFINE jobs == [p \in Jobs |-> IF job[p].at = "start" THEN job[p] ELSE Idle]
<1>1. Update(Blank, jobs, <<>>) /\ watch' = Off
  BY DEF Reset
<1>2. store' = Blank /\ wkey' = EvalKey(Blank) /\ EvalKey(Blank) = Off
  BY <1>1 DEF Update, EvalKey, Blank
<1>3. Honest(Blank)
  BY DEF Honest, Blank, Fields
<1>4. jobs[Watches] = Idle
  BY OtherJobs DEF SInv, WatchesInv, Idle
<1>5. job' = [p \in Jobs |-> job'[p]] /\ job'[Watches] = Idle
  <2>1. job' = jobs \/ job' = [jobs EXCEPT ![Watches] = Idle]
    BY <1>1, <1>2 DEF Update
  <2> QED
    BY <1>4, <2>1, OtherJobs
<1> QED
  BY <1>2, <1>3, <1>5 DEF SInv, JobsInv, WatchesInv, WatchesFollowFrame, EvalKey

LEMMA SStep == SInv /\ [Next]_vars => SInv'
<1> SUFFICES ASSUME SInv, [Next]_vars PROVE SInv'
  OBVIOUS
<1>1. CASE UNCHANGED vars
  BY <1>1 DEF vars, history, SInv, JobsInv, WatchesInv, WatchesFollowFrame, EvalKey
<1>2. CASE Halt
  BY <1>2 DEF Halt, SInv, JobsInv, WatchesInv, WatchesFollowFrame, EvalKey
<1> QED
  BY <1>1, <1>2, CommandKeeps, EventKeeps, AnswerKeeps, RunsKeeps, ResetKeeps DEF Next

-----------------------------------------------------------------------------
(* What is on its way, and which stop is handled *)

(* Who waits for no answer; the handler on its way through a stop; the     *)
(* requests of refresh_tasks *)
Free   == {"idle", "start", "woken"}
Busy   == {"threads", "stackTrace", "scopes", "variables"}
Graphs == {"define", "call"}

(* The request of p is before that of q. *)
Ahead(w, p, q) == \E i, k \in DOMAIN w : i < k /\ w[i] = p /\ w[k] = q

(* The adapter has one request of each job that waits for an answer. *)
WireOK(j, w) ==
  /\ w \in Seq(Jobs) /\ IsInjective(w)
  /\ \A p \in Jobs : p \in Range(w) <=> j[p].at \notin Free

(* What a job may be at *)
May(p) ==
  IF p = Handler THEN Busy \cup {"idle", "continue", "woken"}
  ELSE IF p = Watches THEN {"idle", "watch"}
  ELSE IF p \in Commands
  THEN {"idle", "continue", "next", "woken", "scopes", "variables", "stackTrace", "start"}
       \cup Graphs
  ELSE IF p \in {Tasks(n) : n \in 1..MaxStop} THEN {"idle", "start"} \cup Graphs
  ELSE {"idle", "exceptionInfo"}

(* What a job knows.  One that was woken had its answer before the last    *)
(* stop, if the debuggee is stopped.                                       *)
JobOK(p) ==
  /\ job[p].at \in May(p)
  /\ job[p].at = "idle" => job[p] = Idle
  /\ job[p].at \in Graphs =>
       job[p] = [at |-> job[p].at, thread |-> job[p].thread, frame |-> job[p].frame]
  /\ job[p].at = "threads" =>
       job[p] = [at |-> "threads", thread |-> job[p].thread, n |-> job[p].n]
  /\ job[p].at \in {"threads", "stackTrace"} => job[p].thread \in Threads
  /\ job[p].at \in {"scopes", "variables"} => job[p].frame \in Frame
  /\ job[p].at = "woken" => job[p].seen \in 0..handled /\ (halted => job[p].seen < Now)

(* The handler is at the stop that was taken last. *)
HandlerInv ==
  job[Handler].at \in Busy =>
    /\ handled > 0 /\ job[Handler].n = handled
    /\ job[Handler].at \in {"threads", "stackTrace"} =>
         job[Handler].thread = stops[handled].thread

(* A stop has its background tasks only when the handler is through. *)
NewInv ==
  \A n \in 1..MaxStop :
    (n > handled \/ (n = handled /\ job[Handler].at \in Busy)) =>
      job[Tasks(n)] = Idle /\ job[Info(n)] = Idle

InfoInv == \A n \in 1..MaxStop : job[Info(n)].at # "idle" => job[Info(n)].n = n

StoreOK(s) ==
  /\ s.state \in {"DISCONNECTED", "RUNNING", "PAUSED"}
  /\ s.thread \in Threads \cup {None}
  /\ s.sel \in Frame \cup {None}
  /\ s.frames = None \/ (s.frames.n \in 1..Now /\ s.frames.top \in Frame)

(* After the end of the connection nothing waits for an answer. *)
OffInv == ~Connected => events = <<>> /\ \A p \in Jobs : job[p].at \in {"idle", "start"}

StopsOK == stops \in Seq([thread : Threads, exc : BOOLEAN, user : BOOLEAN, place : Places])

(* The events that wait are those of later stops, in order; if the         *)
(* debuggee is stopped, the last of them says so.                          *)
EventsInv ==
  /\ StopsOK
  /\ events \in Seq([says : {"stopped", "continued"}, n : 1..MaxStop])
  /\ handled \in 0..Now /\ Now <= MaxStop
  /\ \A i \in DOMAIN events : events[i].says = "stopped" => events[i].n \in (handled + 1)..Now
  /\ \A i, k \in DOMAIN events :
       i < k /\ events[i].says = "stopped" /\ events[k].says = "stopped" =>
         events[i].n < events[k].n
  /\ halted => Now > 0
  /\ halted /\ Connected =>
       IF events = <<>> THEN handled = Now
       ELSE events[Len(events)] = [says |-> "stopped", n |-> Now]

TInv ==
  /\ WireOK(job, wire) /\ (\A p \in Jobs : JobOK(p))
  /\ HandlerInv /\ NewInv /\ InfoInv
  /\ StoreOK(store) /\ OffInv /\ EventsInv

-----------------------------------------------------------------------------
(* Requests, as a sequence without repetitions *)

LEMMA InRange == ASSUME NEW w, NEW p PROVE p \in Range(w) <=> \E i \in DOMAIN w : w[i] = p
BY DEF Range

LEMMA WithoutFacts ==
  ASSUME NEW S, NEW w \in Seq(S), IsInjective(w), NEW p
  PROVE  LET v == Without(w, p)
         IN /\ v \in Seq(S) /\ IsInjective(v)
            /\ Range(v) = Range(w) \ {p}
            /\ \A q, r : Ahead(v, q, r) <=> Ahead(w, q, r) /\ q # p /\ r # p
<1> DEFINE v == Without(w, p)
<1>1. CASE p \notin Range(w)
  <2>1. v = w
    BY <1>1 DEF Without
  <2>2. \A i \in DOMAIN w : w[i] # p
    BY <1>1, InRange
  <2> QED
    BY <1>1, <2>1, <2>2 DEF Ahead
<1>2. CASE p \in Range(w)
  <2> DEFINE i == CHOOSE k \in DOMAIN w : w[k] = p
  <2>1. i \in DOMAIN w /\ w[i] = p
    BY <1>2, InRange
  <2> DEFINE a == SubSeq(w, 1, i - 1)
             b == SubSeq(w, i + 1, Len(w))
  <2>2. v = a \o b
    BY <1>2 DEF Without, RemoveAt
  <2> HIDE DEF v, i
  <2>3. i \in 1..Len(w) /\ Len(w) \in Nat
    BY <2>1
  <2>4. a \in Seq(S) /\ Len(a) = i - 1 /\ \A k \in 1..(i - 1) : a[k] = w[k]
    BY <2>3
  <2>5. b \in Seq(S) /\ Len(b) = Len(w) - i /\ \A k \in 1..(Len(w) - i) : b[k] = w[i + k]
    BY <2>3
  <2> HIDE DEF a, b
  <2>6. v \in Seq(S) /\ Len(v) = Len(w) - 1
    BY <2>2, <2>3, <2>4, <2>5
  <2> DEFINE from(k) == IF k < i THEN k ELSE k + 1
  <2>7. \A k \in 1..Len(v) : v[k] = w[from(k)]
    <3> SUFFICES ASSUME NEW k \in 1..Len(v) PROVE v[k] = w[from(k)]
      OBVIOUS
    <3>1. CASE k < i
      <4>1. v[k] = a[k]
        BY <2>2, <2>3, <2>4, <2>5, <2>6, <3>1
      <4> QED
        BY <2>3, <2>4, <2>6, <3>1, <4>1
    <3>2. CASE k >= i
      <4>1. v[k] = b[k - (i - 1)]
        BY <2>2, <2>3, <2>4, <2>5, <2>6, <3>2
      <4>2. k - (i - 1) \in 1..(Len(w) - i) /\ i + (k - (i - 1)) = k + 1
        BY <2>3, <2>6, <3>2
      <4> QED
        BY <2>3, <2>5, <3>2, <4>1, <4>2
    <3> QED
      BY <2>3, <2>6, <3>1, <3>2
  <2>8. DOMAIN v = 1..(Len(w) - 1) /\ DOMAIN w = 1..Len(w)
    BY <2>6
  <2>9. \A k \in DOMAIN v : from(k) \in DOMAIN w /\ from(k) # i
    BY <2>3, <2>8
  <2>10. \A k \in DOMAIN w : k # i => \E l \in DOMAIN v : from(l) = k
    <3> SUFFICES ASSUME NEW k \in DOMAIN w, k # i PROVE \E l \in DOMAIN v : from(l) = k
      OBVIOUS
    <3>1. CASE k < i
      BY <2>3, <2>8, <3>1
    <3>2. CASE k > i
      <4>1. k - 1 \in DOMAIN v /\ from(k - 1) = k
        BY <2>3, <2>8, <3>2
      <4> QED
        BY <4>1
    <3> QED
      BY <2>3, <2>8, <3>1, <3>2
  <2>11. \A k, l \in DOMAIN v : (k < l <=> from(k) < from(l)) /\ (from(k) = from(l) => k = l)
    BY <2>3, <2>8
  <2>12. \A k \in DOMAIN w : w[k] = p <=> k = i
    BY <2>1 DEF IsInjective
  <2> HIDE DEF from
  <2>13. IsInjective(v)
    BY <2>6, <2>7, <2>8, <2>9, <2>11 DEF IsInjective
  <2>14. \A q : q \in Range(v) <=> q \in Range(w) /\ q # p
    <3>1. ASSUME NEW k \in DOMAIN v PROVE v[k] \in Range(w) /\ v[k] # p
      BY <2>6, <2>7, <2>8, <2>9, <2>12, InRange
    <3>2. ASSUME NEW k \in DOMAIN w, w[k] # p PROVE w[k] \in Range(v)
      <4>1. PICK l \in DOMAIN v : from(l) = k
        BY <2>10, <2>12, <3>2
      <4> QED
        BY <2>6, <2>7, <2>8, <4>1, InRange
    <3> QED
      BY <3>1, <3>2, InRange
  <2>15. ASSUME NEW q, NEW r PROVE Ahead(v, q, r) <=> Ahead(w, q, r) /\ q # p /\ r # p
    <3>1. ASSUME Ahead(v, q, r) PROVE Ahead(w, q, r) /\ q # p /\ r # p
      BY <2>6, <2>7, <2>8, <2>9, <2>11, <2>12, <3>1 DEF Ahead
    <3>2. ASSUME Ahead(w, q, r), q # p, r # p PROVE Ahead(v, q, r)
      <4>1. PICK k, l \in DOMAIN w : k < l /\ w[k] = q /\ w[l] = r
        BY <3>2 DEF Ahead
      <4>2. PICK k1 \in DOMAIN v : from(k1) = k
        BY <2>10, <2>12, <3>2, <4>1
      <4>3. PICK l1 \in DOMAIN v : from(l1) = l
        BY <2>10, <2>12, <3>2, <4>1
      <4> QED
        BY <2>6, <2>7, <2>8, <2>11, <4>1, <4>2, <4>3 DEF Ahead
    <3> QED
      BY <3>1, <3>2
  <2> QED
    BY <2>6, <2>13, <2>14, <2>15 DEF v
<1> QED
  BY <1>1, <1>2

LEMMA AppendFacts ==
  ASSUME NEW S, NEW w \in Seq(S), IsInjective(w), NEW p \in S, p \notin Range(w)
  PROVE  LET v == Append(w, p)
         IN /\ v \in Seq(S) /\ IsInjective(v)
            /\ Range(v) = Range(w) \cup {p}
            /\ \A q, r : Ahead(v, q, r) <=> Ahead(w, q, r) \/ (q \in Range(w) /\ r = p)
<1> DEFINE v == Append(w, p)
           n == Len(w)
<1>1. n \in Nat /\ DOMAIN w = 1..n
  OBVIOUS
<1>2. v \in Seq(S) /\ Len(v) = n + 1 /\ DOMAIN v = 1..(n + 1)
  OBVIOUS
<1>3. v[n + 1] = p /\ \A k \in 1..n : v[k] = w[k]
  OBVIOUS
<1> HIDE DEF v, n
<1>4. \A k \in 1..n : w[k] # p
  BY <1>1, InRange
<1>5. \A k \in DOMAIN v : k = n + 1 \/ (k \in 1..n /\ v[k] = w[k])
  BY <1>1, <1>2, <1>3
<1>6. n + 1 \in DOMAIN v /\ \A k \in 1..n : k \in DOMAIN v /\ k < n + 1
  BY <1>1, <1>2
<1>7. IsInjective(v)
  BY <1>1, <1>3, <1>4, <1>5 DEF IsInjective
<1>8. \A q : q \in Range(v) <=> q \in Range(w) \/ q = p
  BY <1>1, <1>3, <1>5, <1>6, InRange
<1>9. ASSUME NEW q, NEW r PROVE Ahead(v, q, r) <=> Ahead(w, q, r) \/ (q \in Range(w) /\ r = p)
  <2>1. ASSUME Ahead(v, q, r) PROVE Ahead(w, q, r) \/ (q \in Range(w) /\ r = p)
    <3>1. PICK k, l \in DOMAIN v : k < l /\ v[k] = q /\ v[l] = r
      BY <2>1 DEF Ahead
    <3>2. k \in 1..n /\ w[k] = q
      BY <1>1, <1>2, <1>3, <3>1
    <3>3. CASE l = n + 1
      BY <1>1, <1>3, <3>1, <3>2, <3>3, InRange
    <3>4. CASE l \in 1..n
      BY <1>1, <1>3, <3>1, <3>2, <3>4 DEF Ahead
    <3> QED
      BY <1>5, <3>3, <3>4
  <2>2. ASSUME Ahead(w, q, r) PROVE Ahead(v, q, r)
    BY <1>1, <1>3, <1>6, <2>2 DEF Ahead
  <2>3. ASSUME q \in Range(w), r = p PROVE Ahead(v, q, r)
    <3>1. PICK k \in 1..n : w[k] = q
      BY <1>1, <2>3, InRange
    <3> QED
      BY <1>3, <1>6, <2>3, <3>1 DEF Ahead
  <2> QED
    BY <2>1, <2>2, <2>3
<1> QED
  BY <1>2, <1>7, <1>8, <1>9 DEF v

-----------------------------------------------------------------------------
(* Which job is which, and what it may be at *)
LEMMA Classes ==
  /\ Handler \in Jobs /\ Watches \in Jobs /\ Handler # Watches
  /\ \A u \in Users : User(u) \in Jobs /\ User(u) \in Commands
  /\ \A n \in 1..MaxStop : Tasks(n) \in Jobs /\ Info(n) \in Jobs
  /\ \A u : User(u) \notin {Handler, Watches}
  /\ \A n : {Tasks(n), Info(n)} \cap ({Handler, Watches} \cup Commands) = {}
  /\ \A n, k : Tasks(n) # Info(k)
  /\ \A n, k : (Tasks(n) = Tasks(k) => n = k) /\ (Info(n) = Info(k) => n = k)
BY DEF Jobs, Commands, Handler, Watches, User, Tasks, Info

LEMMA JobCases ==
  ASSUME NEW p \in Jobs
  PROVE  \/ p = Handler \/ p = Watches \/ (\E u \in Users : p = User(u))
         \/ (\E n \in 1..MaxStop : p = Tasks(n)) \/ (\E n \in 1..MaxStop : p = Info(n))
BY DEF Jobs, Commands

LEMMA MayBe ==
  /\ May(Handler) = Busy \cup {"idle", "continue", "woken"}
  /\ \A u \in Users : May(User(u)) = {"idle", "continue", "next", "woken", "scopes", "variables",
                                      "stackTrace", "start"} \cup Graphs
  /\ \A n \in 1..MaxStop : /\ May(Tasks(n)) = {"idle", "start"} \cup Graphs
                            /\ May(Info(n)) = {"idle", "exceptionInfo"}
<1>1. May(Handler) = Busy \cup {"idle", "continue", "woken"}
  BY DEF May
<1>2. ASSUME NEW u \in Users
      PROVE  May(User(u)) = {"idle", "continue", "next", "woken", "scopes", "variables",
                             "stackTrace", "start"} \cup Graphs
  <2>1. User(u) # Handler /\ User(u) # Watches /\ User(u) \in Commands
    BY Classes
  <2> QED
    BY <2>1 DEF May
<1>3. ASSUME NEW n \in 1..MaxStop
      PROVE  May(Tasks(n)) = {"idle", "start"} \cup Graphs
  <2>1. Tasks(n) # Handler /\ Tasks(n) # Watches /\ Tasks(n) \notin Commands
    BY Classes
  <2> QED
    BY <2>1 DEF May
<1>4. ASSUME NEW n \in 1..MaxStop
      PROVE  May(Info(n)) = {"idle", "exceptionInfo"}
  <2>1. Info(n) # Handler /\ Info(n) # Watches /\ Info(n) \notin Commands
    BY Classes
  <2>2. Info(n) \notin {Tasks(k) : k \in 1..MaxStop}
    BY Classes
  <2> QED
    BY <2>1, <2>2 DEF May
<1> QED
  BY <1>1, <1>2, <1>3, <1>4

(* Who may be at what *)
LEMMA AtSays ==
  ASSUME TInv, NEW p \in Jobs
  PROVE  /\ job[p].at = "threads" => p = Handler
         /\ job[p].at \in {"stackTrace", "scopes", "variables", "continue", "next", "woken"} =>
              p = Handler \/ \E u \in Users : p = User(u)
         /\ job[p].at \in {"start"} \cup Graphs =>
              (\E u \in Users : p = User(u)) \/ \E n \in 1..MaxStop : p = Tasks(n)
         /\ job[p].at = "exceptionInfo" => \E n \in 1..MaxStop : p = Info(n)
<1>1. job[p].at \in May(p)
  BY DEF TInv, JobOK
<1>2. CASE p = Handler
  BY <1>1, <1>2, MayBe DEF Busy, Graphs
<1>3. CASE p = Watches
  BY <1>1, <1>3, Classes DEF May, Graphs
<1>4. ASSUME NEW u \in Users, p = User(u) PROVE job[p].at \notin {"threads", "exceptionInfo"}
  BY <1>1, <1>4, MayBe DEF Graphs
<1>5. ASSUME NEW n \in 1..MaxStop, p = Tasks(n) PROVE job[p].at \in {"idle", "start"} \cup Graphs
  BY <1>1, <1>5, MayBe
<1>6. ASSUME NEW n \in 1..MaxStop, p = Info(n) PROVE job[p].at \in {"idle", "exceptionInfo"}
  BY <1>1, <1>6, MayBe
<1> QED
  BY <1>2, <1>3, <1>4, <1>5, <1>6, JobCases DEF Graphs, Busy

(* The first request of its kind *)
LEMMA FirstOfKind ==
  ASSUME TInv, NEW p \in Jobs, First(p)
  PROVE  /\ p \in Range(wire)
         /\ \A q \in Jobs : Ahead(wire, q, p) => Kind(job[q].at) # Kind(job[p].at)
<1> DEFINE i == CHOOSE k \in DOMAIN wire : wire[k] = p
<1>1. p \in Range(wire)
  BY DEF First
<1>2. i \in DOMAIN wire /\ wire[i] = p
  BY <1>1, InRange
<1>3. \A k \in 1..(i - 1) : Kind(job[wire[k]].at) # Kind(job[p].at)
  BY DEF First
<1> HIDE DEF i
<1>4. ASSUME NEW q \in Jobs, Ahead(wire, q, p) PROVE Kind(job[q].at) # Kind(job[p].at)
  <2>1. PICK k, l \in DOMAIN wire : k < l /\ wire[k] = q /\ wire[l] = p
    BY <1>4 DEF Ahead
  <2>2. l = i
    BY <1>2, <2>1 DEF TInv, WireOK, IsInjective
  <2>3. k \in 1..(i - 1)
    BY <1>2, <2>1, <2>2 DEF TInv, WireOK
  <2> QED
    BY <1>3, <2>1, <2>3
<1> QED
  BY <1>1, <1>4

-----------------------------------------------------------------------------
(* Steps of one job *)

(* The jobs but those of P, and the order of their requests, are as before. *)
Kept(P) ==
  /\ \A q \in Jobs : q \notin P => job'[q] = job[q]
  /\ \A q, r \in Jobs : q \notin P /\ r \notin P => (Ahead(wire', q, r) <=> Ahead(wire, q, r))

(* The job p goes on to j, with the snapshot s; the job of the watches may *)
(* start over.                                                             *)
Step(p, j, s) ==
  /\ store' = s
  /\ WireOK(job', wire')
  /\ job'[p] = j
  /\ Kept({p, Watches})

(* The request of p is the last one. *)
Behind(p) ==
  \A q \in Jobs : q \notin {p, Watches} /\ job[q].at \notin Free => Ahead(wire', q, p)

(* The notification of the watches disturbs nobody else. *)
LEMMA UpdateView ==
  ASSUME NEW s, NEW jobs, NEW sent, jobs = [p \in Jobs |-> jobs[p]], WireOK(jobs, sent),
         Update(s, jobs, sent) \/ (s = store /\ Keep(jobs, sent))
  PROVE  /\ store' = s
         /\ WireOK(job', wire')
         /\ \A q \in Jobs : q # Watches => job'[q] = jobs[q]
         /\ \A q, r : q # Watches /\ r # Watches => (Ahead(wire', q, r) <=> Ahead(sent, q, r))
<1>1. CASE s = store /\ Keep(jobs, sent)
  BY <1>1 DEF Keep
<1>2. CASE Update(s, jobs, sent)
  <2> DEFINE key == EvalKey(s)
             rest == Without(sent, Watches)
  <2>1. CASE ~Restarts(key, jobs)
    <3>1. store' = s /\ job' = jobs /\ wire' = sent
      BY <1>2, <2>1 DEF Update
    <3> QED
      BY <3>1
  <2>2. CASE Restarts(key, jobs)
    <3>1. /\ store' = s
          /\ job' = [jobs EXCEPT ![Watches] =
                       IF key = Off THEN Idle ELSE [at |-> "watch", frame |-> key]]
          /\ wire' = IF key = Off THEN rest ELSE Append(rest, Watches)
      BY <1>2, <2>2 DEF Update
    <3>2. \A q \in Jobs : q # Watches => job'[q] = jobs[q]
      BY <3>1
    <3>3. job'[Watches] = IF key = Off THEN Idle ELSE [at |-> "watch", frame |-> key]
      BY <3>1, Classes
    <3>4. /\ rest \in Seq(Jobs) /\ IsInjective(rest)
          /\ Range(rest) = Range(sent) \ {Watches}
          /\ \A q, r : Ahead(rest, q, r) <=> Ahead(sent, q, r) /\ q # Watches /\ r # Watches
      BY WithoutFacts DEF WireOK
    <3> HIDE DEF rest
    <3>5. CASE key = Off
      <4>1. wire' = rest /\ job'[Watches].at \in Free
        BY <3>1, <3>3, <3>5 DEF Idle, Free
      <4>2. WireOK(job', wire')
        BY <3>2, <3>4, <4>1 DEF WireOK
      <4> QED
        BY <3>1, <3>2, <3>4, <4>1, <4>2
    <3>6. CASE key # Off
      <4>1. wire' = Append(rest, Watches) /\ job'[Watches].at \notin Free
        BY <3>1, <3>3, <3>6 DEF Free
      <4>2. /\ wire' \in Seq(Jobs) /\ IsInjective(wire')
            /\ Range(wire') = Range(rest) \cup {Watches}
            /\ \A q, r : Ahead(wire', q, r) <=>
                           Ahead(rest, q, r) \/ (q \in Range(rest) /\ r = Watches)
        BY <3>4, <4>1, AppendFacts, Classes
      <4>3. WireOK(job', wire')
        BY <3>2, <3>4, <4>1, <4>2 DEF WireOK
      <4> QED
        BY <3>1, <3>2, <3>4, <4>2, <4>3
    <3> QED
      BY <3>5, <3>6
  <2> QED
    BY <2>1, <2>2
<1> QED
  BY <1>1, <1>2

LEMMA Single ==
  ASSUME JobsInv, WireOK(job, wire), NEW p \in Jobs, p # Watches, NEW j, NEW s, NEW sent,
         Update(s, Then(p, j), sent) \/ (s = store /\ Keep(Then(p, j), sent)),
         \/ sent = wire /\ job[p].at \in Free /\ j.at \in Free
         \/ sent = Sent(p) /\ job[p].at \in Free /\ j.at \notin Free
         \/ sent = Gone(p) /\ j.at \in Free
         \/ sent = Append(Gone(p), p) /\ j.at \notin Free
  PROVE  Step(p, j, s) /\ (j.at \notin Free => Behind(p))
<1> DEFINE jobs == Then(p, j)
<1>1. jobs = [q \in Jobs |-> jobs[q]] /\ jobs[p] = j /\ \A q \in Jobs : q # p => jobs[q] = job[q]
  BY DEF Then, JobsInv
<1> HIDE DEF jobs
<1>2. /\ Gone(p) \in Seq(Jobs) /\ IsInjective(Gone(p))
      /\ Range(Gone(p)) = Range(wire) \ {p}
      /\ \A q, r : Ahead(Gone(p), q, r) <=> Ahead(wire, q, r) /\ q # p /\ r # p
  BY WithoutFacts DEF WireOK, Gone
<1>3. /\ WireOK(jobs, sent)
      /\ \A q, r : q # p /\ r # p => (Ahead(sent, q, r) <=> Ahead(wire, q, r))
      /\ j.at \notin Free => \A q \in Range(wire) \ {p} : Ahead(sent, q, p)
  <2>1. CASE sent = wire /\ job[p].at \in Free /\ j.at \in Free
    BY <1>1, <2>1 DEF WireOK
  <2>2. CASE sent = Sent(p) /\ job[p].at \in Free /\ j.at \notin Free
    <3>1. p \notin Range(wire)
      BY <2>2 DEF WireOK
    <3>2. /\ sent \in Seq(Jobs) /\ IsInjective(sent)
          /\ Range(sent) = Range(wire) \cup {p}
          /\ \A q, r : Ahead(sent, q, r) <=> Ahead(wire, q, r) \/ (q \in Range(wire) /\ r = p)
      BY <2>2, <3>1, AppendFacts DEF WireOK, Sent
    <3> QED
      BY <1>1, <2>2, <3>2 DEF WireOK
  <2>3. CASE sent = Gone(p) /\ j.at \in Free
    BY <1>1, <1>2, <2>3 DEF WireOK
  <2>4. CASE sent = Append(Gone(p), p) /\ j.at \notin Free
    <3>1. /\ sent \in Seq(Jobs) /\ IsInjective(sent)
          /\ Range(sent) = Range(Gone(p)) \cup {p}
          /\ \A q, r : Ahead(sent, q, r) <=>
                         Ahead(Gone(p), q, r) \/ (q \in Range(Gone(p)) /\ r = p)
      BY <1>2, <2>4, AppendFacts
    <3> QED
      BY <1>1, <1>2, <2>4, <3>1 DEF WireOK
  <2> QED
    BY <2>1, <2>2, <2>3, <2>4
<1>4. Update(s, jobs, sent) \/ (s = store /\ Keep(jobs, sent))
  BY DEF jobs
<1>5. /\ store' = s
      /\ WireOK(job', wire')
      /\ \A q \in Jobs : q # Watches => job'[q] = jobs[q]
      /\ \A q, r : q # Watches /\ r # Watches => (Ahead(wire', q, r) <=> Ahead(sent, q, r))
  BY <1>1, <1>3, <1>4, UpdateView
<1>6. Step(p, j, s)
  BY <1>1, <1>3, <1>5 DEF Step, Kept
<1>7. j.at \notin Free => Behind(p)
  BY <1>3, <1>5 DEF Behind, WireOK
<1> QED
  BY <1>6, <1>7

LEMMA NowSame == ASSUME UNCHANGED stops PROVE Now' = Now
BY DEF Now

(* What a step of one job must see to for the types to be kept *)
LEMMA TypesKept ==
  ASSUME SInv, SInv', TInv, NEW p \in Jobs, p # Watches, NEW j, NEW s, Step(p, j, s),
         StoreOK(s), OffInv', EventsInv', JobOK(p)',
         UNCHANGED <<stops, handled>>, halted' => halted,
         p = Handler /\ j.at \in Busy =>
           /\ job[p].at \in Busy /\ j.n = job[p].n
           /\ j.at \in {"threads", "stackTrace"} =>
                job[p].at \in {"threads", "stackTrace"} /\ j.thread = job[p].thread,
         \A n \in 1..MaxStop : p \in {Tasks(n), Info(n)} => job[p].at # "idle",
         \A n \in 1..MaxStop : p = Info(n) => j.at = "idle"
  PROVE  TInv'
<1>1. job'[p] = j /\ \A q \in Jobs : q \notin {p, Watches} => job'[q] = job[q]
  BY DEF Step, Kept
<1>2. ASSUME NEW q \in Jobs PROVE JobOK(q)'
  <2>1. CASE q = Watches
    <3>1. job'[Watches] = Idle \/ job'[Watches] = [at |-> "watch", frame |-> wkey']
      BY DEF SInv, WatchesInv
    <3>2. /\ job'[Watches].at \in {"idle", "watch"}
          /\ job'[Watches].at = "idle" => job'[Watches] = Idle
      BY <3>1 DEF Idle
    <3>3. May(Watches) = {"idle", "watch"}
      BY Classes DEF May
    <3> QED
      BY <2>1, <3>2, <3>3 DEF JobOK, Graphs
  <2>2. CASE q # Watches /\ q # p
    <3>1. job'[q] = job[q]
      BY <1>1, <2>2
    <3>2. Now' = Now
      BY NowSame
    <3>3. JobOK(q)
      BY DEF TInv
    <3> QED
      BY <3>1, <3>2, <3>3 DEF JobOK
  <2> QED
    BY <2>1, <2>2
<1>3. HandlerInv'
  <2>1. CASE p = Handler
    BY <1>1, <2>1 DEF TInv, HandlerInv
  <2>2. CASE p # Handler
    <3>1. job'[Handler] = job[Handler]
      BY <1>1, <2>2, Classes
    <3> QED
      BY <3>1 DEF TInv, HandlerInv
  <2> QED
    BY <2>1, <2>2
<1>4. job'[Handler].at \in Busy => job[Handler].at \in Busy
  BY <1>1, Classes
<1>5. NewInv'
  <2> SUFFICES ASSUME NEW n \in 1..MaxStop,
                      n > handled \/ (n = handled /\ job'[Handler].at \in Busy)
               PROVE  job'[Tasks(n)] = Idle /\ job'[Info(n)] = Idle
    BY DEF NewInv
  <2>1. job[Tasks(n)] = Idle /\ job[Info(n)] = Idle
    BY <1>4 DEF TInv, NewInv
  <2>2. p \notin {Tasks(n), Info(n)}
    BY <2>1 DEF Idle
  <2> QED
    BY <1>1, <2>1, <2>2, Classes
<1>6. InfoInv'
  <2> SUFFICES ASSUME NEW n \in 1..MaxStop, job'[Info(n)].at # "idle" PROVE job'[Info(n)].n = n
    BY DEF InfoInv
  <2>1. Info(n) # p /\ Info(n) # Watches
    BY <1>1, Classes
  <2>2. job'[Info(n)] = job[Info(n)]
    BY <1>1, <2>1, Classes
  <2> QED
    BY <2>2 DEF TInv, InfoInv
<1>7. WireOK(job, wire)' /\ StoreOK(store)'
  BY NowSame DEF Step, StoreOK
<1> QED
  BY <1>2, <1>3, <1>5, <1>6, <1>7 DEF TInv

(* Without an event and a stop *)
LEMMA EventsSame ==
  ASSUME TInv, UNCHANGED <<stops, handled, halted, events>>, Connected' => Connected
  PROVE  EventsInv'
<1>1. EventsInv /\ Now' = Now
  BY NowSame DEF TInv
<1> QED
  BY <1>1 DEF EventsInv, StopsOK

LEMMA IdleOK == ASSUME NEW p \in Jobs, job'[p] = Idle PROVE JobOK(p)'
<1>1. "idle" \in May(p)
  BY DEF May
<1> QED
  BY <1>1 DEF JobOK, Idle, Graphs

-----------------------------------------------------------------------------
(* A stop that is handled undisturbed *)

Settling == Connected /\ halted /\ ~dead /\ clean /\ handled = Now
Place == stops[Now].place

(* The frames are those of the thread that is shown, or the last request   *)
(* for frames is for that thread.                                          *)
Loads(p) == job[p].at = "stackTrace"
FramesInv ==
  \/ \E p \in Jobs : /\ Loads(p) /\ job[p].thread = store.thread
                     /\ \A q \in Jobs : Loads(q) /\ q # p => Ahead(wire, q, p)
  \/ /\ \A p \in Jobs : ~Loads(p)
     /\ store.frames = [n |-> Now, top |-> Top(store.thread, Place)]

(* The locals are those of the frame that is selected, or on their way.    *)
Gets(p) ==
  \/ job[p].at = "scopes" /\ job[p].frame = store.sel
  \/ job[p].at = "variables" /\ job[p].frame = store.sel /\ job[p].of = Now
LocalsInv ==
  \/ \E p \in Jobs : Loads(p) \/ Gets(p)
  \/ store.locals = [n |-> Now, frame |-> store.sel]

(* The frames are of this stop, and one of them is selected. *)
SelInv ==
  /\ store.frames # None /\ store.frames.n = Now /\ store.frames.top[2] = Place
  /\ store.sel \in Frames(store.frames.top[1], Place)

(* The exception is that of the stop, or on its way. *)
ExcInv ==
  IF stops[Now].exc THEN job[Info(Now)].at = "exceptionInfo" \/ store.info = Now
  ELSE store.info = None

(* The graph is that of the stop, or will be: a request that will be       *)
(* refused since its frame is of another stop is answered before.          *)
Lost(p) == job[p].at \in Graphs /\ ~Serves(job[p].frame)
GraphInv ==
  LET t == Tasks(Now) IN
  \/ job[t].at = "start"
  \/ /\ job[t].at \in Graphs /\ ~Lost(t)
     /\ job[t].thread = stops[Now].thread
     /\ \A q \in Jobs : Lost(q) => job[t].at = "define" /\ Ahead(wire, q, t)
  \/ store.graph = Now /\ \A q \in Jobs : ~Lost(q)

SettlingInv ==
  Settling =>
    /\ store.state = "PAUSED" /\ store.exc = stops[Now].exc
    /\ ~moved => store.thread = stops[Now].thread
    /\ job[Handler].at = "threads" => ~moved
    /\ job[Handler].at # "threads" => FramesInv /\ LocalsInv
    /\ job[Handler].at \notin {"threads", "stackTrace"} => SelInv
    /\ job[Handler].at \notin Busy /\ ~moved => ExcInv /\ GraphInv

LEMMA StopSame == ASSUME UNCHANGED stops PROVE Now' = Now /\ Place' = Place
BY DEF Now, Place

LEMMA FramesKept ==
  ASSUME FramesInv, UNCHANGED stops, NEW P, Kept(P),
         \A p \in P : ~Loads(p) /\ ~Loads(p)',
         store'.thread = store.thread, store'.frames = store.frames
  PROVE  FramesInv'
<1>1. \A q \in Jobs : (Loads(q)' <=> Loads(q)) /\ (Loads(q) => q \notin P /\ job'[q] = job[q])
  BY DEF Kept, Loads
<1>2. CASE \E p \in Jobs : /\ Loads(p) /\ job[p].thread = store.thread
                           /\ \A q \in Jobs : Loads(q) /\ q # p => Ahead(wire, q, p)
  <2>1. PICK p \in Jobs : /\ Loads(p) /\ job[p].thread = store.thread
                          /\ \A q \in Jobs : Loads(q) /\ q # p => Ahead(wire, q, p)
    BY <1>2
  <2>2. Loads(p)' /\ job'[p].thread = store'.thread
    BY <1>1, <2>1
  <2>3. \A q \in Jobs : Loads(q)' /\ q # p => Ahead(wire', q, p)
    BY <1>1, <2>1 DEF Kept
  <2> QED
    BY <2>2, <2>3 DEF FramesInv
<1>3. CASE /\ \A p \in Jobs : ~Loads(p)
           /\ store.frames = [n |-> Now, top |-> Top(store.thread, Place)]
  BY <1>1, <1>3, StopSame DEF FramesInv
<1> QED
  BY <1>2, <1>3 DEF FramesInv

LEMMA LocalsKept ==
  ASSUME LocalsInv, UNCHANGED stops, NEW P, Kept(P),
         \A p \in P : ~Loads(p) /\ ~Gets(p),
         store'.sel = store.sel, store'.locals = store.locals
  PROVE  LocalsInv'
<1>1. \A q \in Jobs : Loads(q) \/ Gets(q) => Loads(q)' \/ Gets(q)'
  BY StopSame DEF Kept, Loads, Gets
<1> QED
  BY <1>1, StopSame DEF LocalsInv

LEMMA SelKept ==
  ASSUME SelInv, UNCHANGED stops, store'.sel = store.sel, store'.frames = store.frames
  PROVE  SelInv'
BY StopSame DEF SelInv

LEMMA ExcKept ==
  ASSUME ExcInv, UNCHANGED stops, NEW P, Kept(P), Info(Now) \notin P, Info(Now) \in Jobs,
         store'.info = store.info
  PROVE  ExcInv'
BY StopSame DEF ExcInv, Kept

LEMMA GraphKept ==
  ASSUME GraphInv, UNCHANGED <<stops, halted>>, NEW P, Kept(P),
         Tasks(Now) \notin P, Tasks(Now) \in Jobs,
         \A p \in P : ~Lost(p)', store'.graph \in {store.graph, Now}
  PROVE  GraphInv'
<1>0. PICK t \in Jobs : t = Tasks(Now)
  OBVIOUS
<1>1. job'[t] = job[t] /\ t = Tasks(Now')
  BY <1>0, StopSame DEF Kept
<1>2. \A q \in Jobs : Lost(q)' => Lost(q) /\ q \notin P
  BY StopSame DEF Kept, Lost, Serves
<1>3. Lost(t)' => Lost(t)
  BY <1>2
<1>4. \A q \in Jobs : Lost(q)' /\ Ahead(wire, q, t) => Ahead(wire', q, t)
  BY <1>0, <1>2 DEF Kept
<1>5. stops'[Now'] = stops[Now]
  BY StopSame
<1>6. CASE job[t].at = "start"
  BY <1>1, <1>6 DEF GraphInv
<1>7. CASE /\ job[t].at \in Graphs /\ ~Lost(t)
           /\ job[t].thread = stops[Now].thread
           /\ \A q \in Jobs : Lost(q) => job[t].at = "define" /\ Ahead(wire, q, t)
  <2>1. /\ job'[t].at \in Graphs /\ ~Lost(t)'
        /\ job'[t].thread = stops'[Now'].thread
    BY <1>1, <1>3, <1>5, <1>7
  <2>2. \A q \in Jobs : Lost(q)' => job'[t].at = "define" /\ Ahead(wire', q, t)
    BY <1>1, <1>2, <1>4, <1>7
  <2> QED
    BY <1>1, <2>1, <2>2 DEF GraphInv
<1>8. CASE store.graph = Now /\ \A q \in Jobs : ~Lost(q)
  BY <1>2, <1>8, StopSame DEF GraphInv
<1> QED
  BY <1>0, <1>6, <1>7, <1>8 DEF GraphInv

(* A job at anything else is at work for a session. *)
LEMMA AtWork ==
  ASSUME TInv, NEW p \in Jobs, job[p].at \notin {"idle", "start"}
  PROVE  Connected
BY DEF TInv, OffInv

(* What the snapshot becomes may be shown. *)
LEMMA StoreFields ==
  ASSUME StoreOK(store), Honest(store), NEW x
  PROVE  /\ StoreOK([store EXCEPT !.graph = x])
         /\ StoreOK([store EXCEPT !.info = x])
         /\ StoreOK([store EXCEPT !.locals = x])
         /\ StoreOK([store EXCEPT !.frames = None, !.sel = None])
         /\ x \in Frame => StoreOK([store EXCEPT !.sel = x])
         /\ x \in Threads => StoreOK([store EXCEPT !.thread = x])
BY DEF StoreOK, Honest, Fields

(* A step of one job of a session, between two events *)
LEMMA TypesStay ==
  ASSUME SInv, SInv', TInv, NEW p \in Jobs, p # Watches, NEW j, NEW s, Step(p, j, s),
         StoreOK(s), s.state # "DISCONNECTED", Connected, JobOK(p)',
         UNCHANGED <<stops, halted, events, handled>>,
         p = Handler /\ j.at \in Busy =>
           /\ job[p].at \in Busy /\ j.n = job[p].n
           /\ j.at \in {"threads", "stackTrace"} =>
                job[p].at \in {"threads", "stackTrace"} /\ j.thread = job[p].thread,
         \A n \in 1..MaxStop : p \in {Tasks(n), Info(n)} => job[p].at # "idle",
         \A n \in 1..MaxStop : p = Info(n) => j.at = "idle"
  PROVE  TInv'
<1>1. Connected'
  BY DEF Step, Connected
<1>2. OffInv'
  BY <1>1 DEF OffInv
<1>3. EventsInv'
  BY EventsSame
<1>4. halted' => halted
  OBVIOUS
<1> QED
  BY <1>2, <1>3, <1>4, TypesKept

(* A step that the stop does not see, but for its exception and its tasks *)
LEMMA Quietly ==
  ASSUME SettlingInv, NEW P, Kept(P), Handler \in Jobs,
         Settling' => Settling,
         UNCHANGED <<stops, moved>>,
         store'.state = store.state, store'.thread = store.thread, store'.exc = store.exc,
         store'.frames = store.frames, store'.sel = store.sel, store'.locals = store.locals,
         \A p \in P : ~Loads(p) /\ ~Loads(p)',
         job[Handler].at \notin {"threads", "stackTrace"} /\ Settling => \A p \in P : ~Gets(p),
         Handler \in P => job[Handler].at \notin Busy /\ job'[Handler].at \notin Busy,
         Settling /\ ~moved /\ job[Handler].at \notin Busy /\ SelInv /\ ExcInv /\ GraphInv
           => ExcInv' /\ GraphInv'
  PROVE  SettlingInv'
<1> SUFFICES ASSUME Settling' PROVE SettlingInv'
  BY DEF SettlingInv
<1>1. Settling /\ Now' = Now /\ stops'[Now'] = stops[Now]
  BY NowSame
<1>2. \/ job'[Handler] = job[Handler]
      \/ job[Handler].at \notin Busy /\ job'[Handler].at \notin Busy
  BY DEF Kept
<1>3. /\ job'[Handler].at = "threads" <=> job[Handler].at = "threads"
      /\ job'[Handler].at = "stackTrace" <=> job[Handler].at = "stackTrace"
      /\ job'[Handler].at \in Busy <=> job[Handler].at \in Busy
  BY <1>2 DEF Busy
<1>4. /\ store'.state = "PAUSED" /\ store'.exc = stops'[Now'].exc
      /\ ~moved' => store'.thread = stops'[Now'].thread
      /\ job'[Handler].at = "threads" => ~moved'
  BY <1>1, <1>3 DEF SettlingInv
<1>5. ASSUME job'[Handler].at # "threads" PROVE FramesInv'
  BY <1>1, <1>3, <1>5, FramesKept DEF SettlingInv
<1>6. ASSUME job'[Handler].at # "threads" PROVE LocalsInv'
  <2>1. CASE job[Handler].at = "stackTrace"
    <3>1. Loads(Handler)'
      BY <1>3, <2>1 DEF Loads
    <3> QED
      BY <3>1 DEF LocalsInv
  <2>2. CASE job[Handler].at # "stackTrace"
    <3>1. LocalsInv /\ \A p \in P : ~Loads(p) /\ ~Gets(p)
      BY <1>1, <1>3, <1>6, <2>2 DEF SettlingInv
    <3> QED
      BY <3>1, LocalsKept
  <2> QED
    BY <2>1, <2>2
<1>7. ASSUME job'[Handler].at \notin {"threads", "stackTrace"} PROVE SelInv'
  BY <1>1, <1>3, <1>7, SelKept DEF SettlingInv
<1>8. ASSUME job'[Handler].at \notin Busy, ~moved' PROVE ExcInv' /\ GraphInv'
  <2>1. job[Handler].at \notin Busy /\ ~moved
    BY <1>3, <1>8
  <2>2. SelInv /\ ExcInv /\ GraphInv
    BY <1>1, <2>1 DEF SettlingInv, Busy
  <2> QED
    BY <1>1, <2>1, <2>2
<1> QED
  BY <1>4, <1>5, <1>6, <1>7, <1>8 DEF SettlingInv

LEMMA WatchesQuiet ==
  ASSUME SInv, SInv'
  PROVE  /\ ~Loads(Watches) /\ ~Gets(Watches) /\ ~Lost(Watches)
         /\ ~Loads(Watches)' /\ ~Gets(Watches)' /\ ~Lost(Watches)'
<1>1. job[Watches].at \in {"idle", "watch"}
  BY DEF SInv, WatchesInv, Idle
<1>2. job'[Watches].at \in {"idle", "watch"}
  BY DEF SInv, WatchesInv, Idle
<1> QED
  BY <1>1, <1>2 DEF Loads, Gets, Lost, Graphs

(* The jobs of the stop that lasts *)
LEMMA StopJobs ==
  ASSUME TInv, halted
  PROVE  /\ Now \in 1..MaxStop /\ Tasks(Now) \in Jobs /\ Info(Now) \in Jobs
         /\ Info(Now) \notin {Handler, Watches} /\ Tasks(Now) \notin {Handler, Watches}
         /\ \A u : User(u) = Info(Now) \/ User(u) = Tasks(Now) => User(u) \notin Commands
         /\ stops[Now] \in [thread : Threads, exc : BOOLEAN, user : BOOLEAN, place : Places]
<1>1. Now \in 1..MaxStop /\ Now = Len(stops) /\ StopsOK
  <2>1. Now \in Nat
    BY DEF TInv, EventsInv, StopsOK, Now
  <2> QED
    BY <2>1, StopRefreshAssumption DEF TInv, EventsInv, Now
<1>2. stops[Now] \in [thread : Threads, exc : BOOLEAN, user : BOOLEAN, place : Places]
  <2> DEFINE R == [thread : Threads, exc : BOOLEAN, user : BOOLEAN, place : Places]
  <2>1. stops \in Seq(R) /\ Now \in 1..Len(stops)
    BY <1>1 DEF StopsOK
  <2> HIDE DEF R
  <2>2. stops[Now] \in R
    BY <2>1
  <2> QED
    BY <2>2 DEF R
<1> QED
  BY <1>1, <1>2, Classes

(* Neither the exception nor the tasks are touched. *)
LEMMA BothKept ==
  ASSUME TInv, SInv, SInv', ExcInv, GraphInv, halted, UNCHANGED <<stops, halted>>,
         NEW p \in Jobs, Kept({p, Watches}), p # Info(Now), p # Tasks(Now), ~Lost(p)',
         store'.info = store.info, store'.graph \in {store.graph, Now}
  PROVE  ExcInv' /\ GraphInv'
<1> DEFINE P == {p, Watches}
<1>1. Info(Now) \notin P /\ Tasks(Now) \notin P /\ Info(Now) \in Jobs /\ Tasks(Now) \in Jobs
  BY StopJobs
<1>2. \A q \in P : ~Lost(q)'
  BY WatchesQuiet
<1>3. Kept(P)
  OBVIOUS
<1> HIDE DEF P
<1>4. ExcInv'
  BY <1>1, <1>3, ExcKept
<1>5. GraphInv'
  BY <1>1, <1>2, <1>3, GraphKept
<1> QED
  BY <1>4, <1>5

(* A step of one job that has no part in showing the stop *)
LEMMA Bystander ==
  ASSUME SInv, SInv', TInv, SettlingInv, NEW p \in Jobs, NEW j, Step(p, j, store),
         Settling' => Settling, UNCHANGED <<stops, halted, moved>>,
         job[p].at \notin Busy, j.at \notin Busy \cup Graphs,
         \A n \in 1..MaxStop : p \notin {Tasks(n), Info(n)}
  PROVE  SettlingInv'
<1> DEFINE P == {p, Watches}
<1>1. Kept(P) /\ store' = store /\ job'[p] = j
  BY DEF Step
<1>2. ~Loads(p) /\ ~Loads(p)' /\ ~Gets(p) /\ ~Lost(p)'
  BY <1>1 DEF Loads, Gets, Lost, Busy
<1>3. \A q \in P : ~Loads(q) /\ ~Loads(q)' /\ ~Gets(q)
  BY <1>2, WatchesQuiet
<1>4. Handler \in P => job[Handler].at \notin Busy /\ job'[Handler].at \notin Busy
  BY <1>1, Classes
<1>5. ASSUME Settling, ExcInv, GraphInv PROVE ExcInv' /\ GraphInv'
  <2>1. halted /\ p # Info(Now) /\ p # Tasks(Now)
    BY <1>5, StopJobs DEF Settling
  <2> QED
    BY <1>1, <1>2, <1>5, <2>1, BothKept
<1>6. /\ store'.state = store.state /\ store'.thread = store.thread /\ store'.exc = store.exc
      /\ store'.frames = store.frames /\ store'.sel = store.sel /\ store'.locals = store.locals
  BY <1>1
<1> HIDE DEF P
<1> QED
  BY <1>1, <1>3, <1>4, <1>5, <1>6, Quietly, Classes

-----------------------------------------------------------------------------
(* What the user does *)

LEMMA UserIs ==
  ASSUME NEW u \in Users
  PROVE  LET p == User(u)
         IN /\ p \in Jobs /\ p \notin {Handler, Watches}
            /\ \A n : p \notin {Tasks(n), Info(n)}
            /\ {"continue", "next", "scopes", "variables", "stackTrace", "start", "idle"}
                 \subseteq May(p)
            /\ Graphs \subseteq May(p)
BY Classes, MayBe

LEMMA GoSettles ==
  ASSUME SInv, SInv', TInv, SettlingInv, NEW u \in Users, Go(u)
  PROVE  TInv' /\ SettlingInv'
<1> DEFINE p == User(u)
<1>1. p \in Jobs /\ p # Handler /\ p # Watches /\ \A n : p \notin {Tasks(n), Info(n)}
  BY UserIs
<1>2. PICK at \in {"continue", "next"} : Keep(Then(p, [at |-> at]), Sent(p))
  BY DEF Go
<1>3. /\ Connected /\ job[p] = Idle
      /\ UNCHANGED <<stops, halted, events, dead, handled, clean, moved>>
  BY DEF Go, Command
<1> DEFINE j == [at |-> at]
<1>4. at \in May(p)
  BY UserIs
<1> HIDE DEF p
<1>5. job[p].at = "idle" /\ j.at = at
  BY <1>3 DEF Idle
<1>6. Step(p, j, store)
  BY <1>1, <1>2, <1>5, Single DEF Free, SInv, TInv
<1>7. job'[p] = j /\ store' = store
  BY <1>6 DEF Step
<1>8. JobOK(p)'
  BY <1>4, <1>7 DEF JobOK, Graphs
<1> HIDE DEF j
<1>9. TInv'
  BY <1>1, <1>3, <1>5, <1>6, <1>8, TypesStay DEF TInv, Connected
<1>10. SettlingInv'
  <2>1. Settling' => Settling
    BY <1>3, <1>7, NowSame DEF Settling, Connected
  <2>2. job[p].at \notin Busy /\ j.at \notin Busy \cup Graphs
    BY <1>5 DEF Busy, Graphs
  <2> QED
    BY <1>1, <1>3, <1>6, <2>1, <2>2, Bystander
<1> QED
  BY <1>9, <1>10

LEMMA RefreshTasksSettles ==
  ASSUME SInv, SInv', TInv, SettlingInv, NEW u \in Users, RefreshTasks(u)
  PROVE  TInv' /\ SettlingInv'
<1> DEFINE p == User(u)
           j == [at |-> "start"]
<1>1. p \in Jobs /\ p # Handler /\ p # Watches /\ \A n : p \notin {Tasks(n), Info(n)}
  BY UserIs
<1>2. Keep(Then(p, j), wire)
  BY DEF RefreshTasks
<1>3. /\ Connected /\ job[p] = Idle
      /\ UNCHANGED <<stops, halted, events, dead, handled, clean, moved>>
  BY DEF RefreshTasks, Command
<1>4. "start" \in May(p)
  BY UserIs
<1> HIDE DEF p
<1>5. job[p].at = "idle" /\ j.at = "start"
  BY <1>3 DEF Idle
<1>6. Step(p, j, store)
  BY <1>1, <1>2, <1>5, Single DEF Free, SInv, TInv
<1>7. job'[p] = j /\ store' = store
  BY <1>6 DEF Step
<1>8. JobOK(p)'
  BY <1>4, <1>7 DEF JobOK, Graphs
<1> HIDE DEF j
<1>9. TInv'
  BY <1>1, <1>3, <1>5, <1>6, <1>8, TypesStay DEF TInv, Connected
<1>10. SettlingInv'
  <2>1. Settling' => Settling
    BY <1>3, <1>7, NowSame DEF Settling, Connected
  <2>2. job[p].at \notin Busy /\ j.at \notin Busy \cup Graphs
    BY <1>5 DEF Busy, Graphs
  <2> QED
    BY <1>1, <1>3, <1>6, <2>1, <2>2, Bystander
<1> QED
  BY <1>9, <1>10

(* The scopes of the frame chosen are on their way. *)
LEMMA SelectFrameSettles ==
  ASSUME SInv, SInv', TInv, SettlingInv, NEW u \in Users, SelectFrame(u)
  PROVE  TInv' /\ SettlingInv'
<1> DEFINE p == User(u)
<1>1. p \in Jobs /\ p # Handler /\ p # Watches /\ \A n : p \notin {Tasks(n), Info(n)}
  BY UserIs
<1>2. PICK f \in Frames(store.frames.top[1], store.frames.top[2]) :
        Update([store EXCEPT !.sel = f], Then(p, [at |-> "scopes", frame |-> f]), Sent(p))
  BY DEF SelectFrame
<1>3. /\ Connected /\ job[p] = Idle /\ store.frames # None
      /\ UNCHANGED <<stops, halted, events, dead, handled, clean, moved>>
  BY DEF SelectFrame, Command
<1>4. "scopes" \in May(p)
  BY UserIs
<1>5. f \in Frame
  <2>1. store.frames.top \in Frame
    BY <1>3 DEF TInv, StoreOK
  <2> QED
    BY <2>1 DEF Frame, Frames
<1> DEFINE j == [at |-> "scopes", frame |-> f]
           s == [store EXCEPT !.sel = f]
<1> HIDE DEF p
<1>6. job[p].at = "idle" /\ j.at = "scopes"
  BY <1>3 DEF Idle
<1>7. StoreOK(s)
  BY <1>5, StoreFields DEF TInv, SInv
<1>8. /\ s.state = store.state /\ s.thread = store.thread /\ s.exc = store.exc
      /\ s.frames = store.frames /\ s.info = store.info /\ s.graph = store.graph
      /\ s.sel = f
  BY DEF SInv, Honest, Fields
<1> HIDE DEF s
<1>9. Step(p, j, s)
  BY <1>1, <1>2, <1>6, Single DEF Free, SInv, TInv, s
<1>10. job'[p] = j /\ store' = s /\ Kept({p, Watches})
  BY <1>9 DEF Step
<1>11. JobOK(p)'
  BY <1>4, <1>5, <1>10 DEF JobOK, Graphs
<1>12. TInv'
  <2>1. s.state # "DISCONNECTED"
    BY <1>3, <1>8 DEF Connected
  <2>2. \A n \in 1..MaxStop : p \notin {Tasks(n), Info(n)}
    BY <1>1
  <2> QED
    BY <1>1, <1>3, <1>7, <1>9, <1>11, <2>1, <2>2, TypesStay
<1>13. ASSUME Settling' PROVE SettlingInv'
  <2>1. Settling /\ Now' = Now /\ stops'[Now'] = stops[Now] /\ Place' = Place
    BY <1>3, <1>8, <1>10, <1>13, NowSame, StopSame DEF Settling, Connected
  <2>2. job'[Handler] = job[Handler]
    BY <1>1, <1>10, Classes DEF Kept
  <2>3. ~Loads(p) /\ ~Loads(p)' /\ ~Lost(p)' /\ Gets(p)'
    BY <1>6, <1>8, <1>10 DEF Loads, Lost, Gets, Graphs
  <2>4. ASSUME job'[Handler].at # "threads" PROVE FramesInv' /\ LocalsInv'
    <3>1. \A q \in {p, Watches} : ~Loads(q) /\ ~Loads(q)'
      BY <2>3, WatchesQuiet
    <3>2. FramesInv
      BY <2>1, <2>2, <2>4 DEF SettlingInv
    <3>3. FramesInv'
      BY <1>3, <1>8, <1>10, <3>1, <3>2, FramesKept
    <3>4. LocalsInv'
      BY <1>1, <2>3 DEF LocalsInv
    <3> QED
      BY <3>3, <3>4
  <2>5. ASSUME job'[Handler].at \notin {"threads", "stackTrace"} PROVE SelInv'
    BY <1>2, <1>8, <1>10, <2>1, <2>2, <2>5 DEF SettlingInv, SelInv
  <2>6. ASSUME job'[Handler].at \notin Busy, ~moved' PROVE ExcInv' /\ GraphInv'
    <3>1. ExcInv /\ GraphInv /\ halted
      BY <1>3, <2>1, <2>2, <2>6 DEF SettlingInv, Settling
    <3>2. p # Info(Now) /\ p # Tasks(Now)
      BY <1>1
    <3> QED
      BY <1>1, <1>3, <1>8, <1>10, <2>3, <3>1, <3>2, BothKept
  <2>7. /\ store'.state = "PAUSED" /\ store'.exc = stops'[Now'].exc
        /\ ~moved' => store'.thread = stops'[Now'].thread
        /\ job'[Handler].at = "threads" => ~moved'
    BY <1>3, <1>8, <1>10, <2>1, <2>2 DEF SettlingInv
  <2> QED
    BY <2>4, <2>5, <2>6, <2>7 DEF SettlingInv
<1> QED
  BY <1>12, <1>13 DEF SettlingInv

(* The frames of the thread chosen are asked for last. *)
LEMMA SelectThreadSettles ==
  ASSUME SInv, SInv', TInv, SettlingInv, NEW u \in Users, SelectThread(u)
  PROVE  TInv' /\ SettlingInv'
<1> DEFINE p == User(u)
<1>1. p \in Jobs /\ p # Handler /\ p # Watches /\ \A n : p \notin {Tasks(n), Info(n)}
  BY UserIs
<1>2. PICK t \in Threads :
        Update([store EXCEPT !.thread = t], Then(p, [at |-> "stackTrace", thread |-> t]), Sent(p))
  BY DEF SelectThread
<1>3. /\ Connected /\ job[p] = Idle /\ store.state = "PAUSED"
      /\ UNCHANGED <<stops, halted, events, dead, handled>>
      /\ clean' = (clean /\ job[Handler].at # "threads") /\ moved' = TRUE
  BY DEF SelectThread, Command
<1>4. "stackTrace" \in May(p)
  BY UserIs
<1> DEFINE j == [at |-> "stackTrace", thread |-> t]
           s == [store EXCEPT !.thread = t]
<1> HIDE DEF p
<1>5. job[p].at = "idle" /\ j.at = "stackTrace"
  BY <1>3 DEF Idle
<1>6. StoreOK(s)
  BY <1>2, StoreFields DEF TInv, SInv
<1>7. /\ s.state = store.state /\ s.thread = t /\ s.exc = store.exc
      /\ s.frames = store.frames /\ s.sel = store.sel
  BY DEF SInv, Honest, Fields
<1> HIDE DEF s
<1>8. Step(p, j, s) /\ Behind(p)
  BY <1>1, <1>2, <1>5, Single DEF Free, SInv, TInv, s
<1>9. job'[p] = j /\ store' = s /\ Kept({p, Watches})
  BY <1>8 DEF Step
<1>10. JobOK(p)'
  BY <1>2, <1>4, <1>9 DEF JobOK, Graphs
<1>11. TInv'
  <2>1. s.state # "DISCONNECTED"
    BY <1>3, <1>7
  <2>2. \A n \in 1..MaxStop : p \notin {Tasks(n), Info(n)}
    BY <1>1
  <2> QED
    BY <1>1, <1>3, <1>6, <1>8, <1>10, <2>1, <2>2, TypesStay
<1>12. ASSUME Settling' PROVE SettlingInv'
  <2>1. /\ Settling /\ Now' = Now /\ stops'[Now'] = stops[Now] /\ Place' = Place
        /\ job[Handler].at # "threads"
    BY <1>3, <1>7, <1>9, <1>12, NowSame, StopSame DEF Settling, Connected
  <2>2. job'[Handler] = job[Handler]
    BY <1>1, <1>9, Classes DEF Kept
  <2>3. Loads(p)' /\ job'[p].thread = store'.thread
    BY <1>7, <1>9 DEF Loads
  <2>4. \A q \in Jobs : Loads(q)' /\ q # p => Ahead(wire', q, p)
    <3> SUFFICES ASSUME NEW q \in Jobs, Loads(q)', q # p PROVE Ahead(wire', q, p)
      OBVIOUS
    <3>1. q # Watches
      BY WatchesQuiet
    <3>2. job'[q] = job[q] /\ job[q].at \notin Free
      BY <1>9, <3>1 DEF Kept, Loads, Free
    <3> QED
      BY <1>8, <3>1, <3>2 DEF Behind
  <2>5. FramesInv' /\ LocalsInv'
    BY <1>1, <2>3, <2>4 DEF FramesInv, LocalsInv
  <2>6. ASSUME job'[Handler].at \notin {"threads", "stackTrace"} PROVE SelInv'
    <3>1. SelInv
      BY <2>1, <2>2, <2>6 DEF SettlingInv
    <3> QED
      BY <1>3, <1>7, <1>9, <3>1, SelKept
  <2>7. store'.state = "PAUSED" /\ store'.exc = stops'[Now'].exc
    BY <1>7, <1>9, <2>1 DEF SettlingInv
  <2> QED
    BY <1>3, <2>1, <2>2, <2>5, <2>6, <2>7 DEF SettlingInv
<1> QED
  BY <1>11, <1>12 DEF SettlingInv

-----------------------------------------------------------------------------
(* Answers that carry the handler on *)

(* An event of the debuggee that runs on is not one of a stop. *)
LEMMA MovesSettles ==
  ASSUME SInv, SInv', TInv, NEW p \in Jobs, Moves(p)
  PROVE  TInv' /\ SettlingInv'
<1>1. /\ First(p) /\ job[p].at \in {"continue", "next"}
      /\ Keep(Then(p, [at |-> "woken", was |-> job[p].at, seen |-> handled]), Gone(p))
      /\ halted' = FALSE
      /\ UNCHANGED <<stops, dead, handled, clean, moved>>
  BY DEF Moves, history
<1> DEFINE j == [at |-> "woken", was |-> job[p].at, seen |-> handled]
<1>2. p # Watches
  BY <1>1, NotWatches
<1>3. p = Handler \/ \E u \in Users : p = User(u)
  BY <1>1, AtSays
<1>4. \A n \in 1..MaxStop : p \notin {Tasks(n), Info(n)}
  BY <1>3, Classes
<1>5. "woken" \in May(p)
  BY <1>3, MayBe
<1>6. Step(p, j, store)
  BY <1>1, <1>2, Single DEF Free, SInv, TInv
<1>7. job'[p] = j /\ store' = store
  BY <1>6 DEF Step
<1>8. Connected /\ Connected'
  BY <1>1, <1>7, AtWork DEF Connected
<1>9. JobOK(p)'
  <2>1. handled' \in 0..handled'
    BY <1>1 DEF TInv, EventsInv
  <2>2. job'[p].at = "woken" /\ job'[p].seen \in 0..handled'
    BY <1>1, <1>7, <2>1
  <2> QED
    BY <1>1, <1>5, <2>2 DEF JobOK, Graphs
<1>10. EventsInv'
  <2> DEFINE E == [says : {"stopped", "continued"}, n : 1..MaxStop]
             c == [says |-> "continued", n |-> Now]
  <2>1. Now' = Now
    BY <1>1, NowSame
  <2>2. CASE UNCHANGED events
    BY <1>1, <2>1, <2>2 DEF TInv, EventsInv, StopsOK
  <2>3. CASE halted /\ events' = Append(events, c)
    <3>1. c \in E
      BY <2>3, StopJobs
    <3>2. events \in Seq(E)
      BY DEF TInv, EventsInv
    <3>3. c.says # "stopped"
      OBVIOUS
    <3> HIDE DEF E, c
    <3>4. events' \in Seq(E) /\ Len(events') = Len(events) + 1
      BY <2>3, <3>1, <3>2
    <3>5. \A i \in DOMAIN events' :
            events'[i].says = "stopped" => i \in DOMAIN events /\ events'[i] = events[i]
      BY <2>3, <3>2, <3>3, <3>4
    <3>6. events' \in Seq([says : {"stopped", "continued"}, n : 1..MaxStop])
      BY <3>4 DEF E
    <3>7. /\ \A i \in DOMAIN events :
               events[i].says = "stopped" => events[i].n \in (handled + 1)..Now
          /\ \A i, k \in DOMAIN events :
               i < k /\ events[i].says = "stopped" /\ events[k].says = "stopped" =>
                 events[i].n < events[k].n
      BY DEF TInv, EventsInv
    <3>8. /\ \A i \in DOMAIN events' :
               events'[i].says = "stopped" => events'[i].n \in (handled + 1)..Now
          /\ \A i, k \in DOMAIN events' :
               i < k /\ events'[i].says = "stopped" /\ events'[k].says = "stopped" =>
                 events'[i].n < events'[k].n
      BY <3>5, <3>7
    <3>9. StopsOK' /\ handled' \in 0..Now' /\ Now' <= MaxStop
      BY <1>1, <2>1 DEF TInv, EventsInv, StopsOK
    <3> QED
      BY <1>1, <2>1, <3>6, <3>8, <3>9 DEF EventsInv
  <2> QED
    BY <2>2, <2>3 DEF Moves
<1>11. TInv'
  <2>1. OffInv'
    BY <1>8 DEF OffInv
  <2>2. j.at \notin Busy /\ job[p].at # "idle" /\ (halted' => halted)
    BY <1>1 DEF Busy
  <2>3. StoreOK(store)
    BY DEF TInv
  <2> HIDE DEF j
  <2> QED
    BY <1>1, <1>2, <1>4, <1>6, <1>9, <1>10, <2>1, <2>2, <2>3, TypesKept
<1> QED
  BY <1>1, <1>11 DEF SettlingInv, Settling

(* With the list of the threads, the handler asks for the frames. *)
LEMMA ThreadsSettle ==
  ASSUME SInv, SInv', TInv, SettlingInv, NEW p \in Jobs, ThreadsLoaded(p)
  PROVE  TInv' /\ SettlingInv'
<1>1. /\ job[p].at = "threads"
      /\ Keep(Then(p, [job[p] EXCEPT !.at = "stackTrace"]), Append(Gone(p), p))
      /\ UNCHANGED <<stops, halted, events, dead, handled, clean, moved>>
  BY DEF ThreadsLoaded, history
<1>2. p = Handler /\ p # Watches
  BY <1>1, AtSays, Classes
<1> DEFINE j == [at |-> "stackTrace", thread |-> job[p].thread, n |-> job[p].n]
<1>3. [job[p] EXCEPT !.at = "stackTrace"] = j
  <2>1. job[p] = [at |-> "threads", thread |-> job[p].thread, n |-> job[p].n]
    BY <1>1 DEF TInv, JobOK
  <2> QED
    BY <2>1
<1>4. j.at \notin Free /\ j.at \in May(p) /\ j.n = job[p].n /\ j.thread = job[p].thread
      /\ j.at = "stackTrace"
  BY <1>2, MayBe DEF Free, Busy
<1> HIDE DEF j
<1>5. Step(p, j, store) /\ Behind(p)
  <2>1. Keep(Then(p, j), Append(Gone(p), p))
    BY <1>1, <1>3
  <2> QED
    BY <1>2, <1>4, <2>1, Single DEF SInv, TInv
<1>6. job'[p] = j /\ store' = store /\ Kept({p, Watches})
  BY <1>5 DEF Step
<1>7. JobOK(p)'
  <2>1. job[p].thread \in Threads
    BY <1>1 DEF TInv, JobOK
  <2> QED
    BY <1>4, <1>6, <2>1 DEF JobOK, Graphs
<1>8. TInv'
  <2>1. Connected
    BY <1>1, AtWork
  <2>2. StoreOK(store) /\ store.state # "DISCONNECTED"
    BY <2>1 DEF TInv, Connected
  <2>3. \A n \in 1..MaxStop : p \notin {Tasks(n), Info(n)}
    BY <1>2, Classes
  <2>4. job[p].at \in Busy
    BY <1>1 DEF Busy
  <2> QED
    BY <1>1, <1>2, <1>4, <1>5, <1>7, <2>1, <2>2, <2>3, <2>4, TypesStay
<1>9. ASSUME Settling' PROVE SettlingInv'
  <2>1. Settling /\ Now' = Now /\ stops'[Now'] = stops[Now]
    BY <1>1, <1>6, <1>9, NowSame DEF Settling, Connected
  <2>2. ~moved /\ store.thread = stops[Now].thread
    BY <1>1, <1>2, <2>1 DEF SettlingInv
  <2>3. job[p].thread = store.thread
    BY <1>1, <1>2, <2>1, <2>2 DEF TInv, HandlerInv, Busy, Settling
  <2>4. Loads(p)' /\ job'[p].thread = store'.thread
    BY <1>4, <1>6, <2>3 DEF Loads
  <2>5. \A q \in Jobs : Loads(q)' /\ q # p => Ahead(wire', q, p)
    <3> SUFFICES ASSUME NEW q \in Jobs, Loads(q)', q # p PROVE Ahead(wire', q, p)
      OBVIOUS
    <3>1. q # Watches
      BY WatchesQuiet
    <3>2. job'[q] = job[q] /\ job[q].at \notin Free
      BY <1>6, <3>1 DEF Kept, Loads, Free
    <3> QED
      BY <1>5, <3>1, <3>2 DEF Behind
  <2>6. FramesInv' /\ LocalsInv'
    BY <2>4, <2>5 DEF FramesInv, LocalsInv
  <2>7. /\ store'.state = "PAUSED" /\ store'.exc = stops'[Now'].exc
        /\ ~moved' => store'.thread = stops'[Now'].thread
    BY <1>1, <1>6, <2>1 DEF SettlingInv
  <2>8. job'[Handler].at = "stackTrace"
    BY <1>2, <1>4, <1>6
  <2> QED
    BY <2>6, <2>7, <2>8 DEF SettlingInv, Busy
<1> QED
  BY <1>8, <1>9 DEF SettlingInv

(* The handler at the end of its way through a stop: it may go on to       *)
(* resume, and leaves the tasks and the exception to others.               *)
LEMMA HandlerOver ==
  ASSUME SInv, TInv, NEW s, job[Handler].at \in Busy, RefreshOver(Handler, s, Gone(Handler))
  PROVE  LET e == stops[handled].exc
             t == Tasks(handled)
             i == Info(handled)
         IN /\ handled \in 1..MaxStop
            /\ store' = IF e THEN s ELSE [s EXCEPT !.info = None]
            /\ WireOK(job', wire') /\ Kept({Handler, t, i, Watches})
            /\ job'[t] = [at |-> "start"]
            /\ job'[i] = IF e THEN [at |-> "exceptionInfo", n |-> handled] ELSE Idle
            /\ job'[Handler] \in {Idle, [at |-> "continue", n |-> handled]}
<1>1. handled \in 1..MaxStop /\ job[Handler].n = handled
  BY StopRefreshAssumption DEF TInv, HandlerInv, EventsInv, StopsOK, Now
<1>2. PICK n \in 1..MaxStop : n = handled
  BY <1>1
<1> DEFINE e == stops[n].exc
           ask == [at |-> "exceptionInfo", n |-> n]
           jobs1 == [job EXCEPT ![Tasks(n)] = [at |-> "start"]]
           jobs2 == IF e THEN [jobs1 EXCEPT ![Info(n)] = ask] ELSE jobs1
           sent1 == Gone(Handler)
           sent2 == IF e THEN Append(sent1, Info(n)) ELSE sent1
           s1 == IF e THEN s ELSE [s EXCEPT !.info = None]
<1>3. job[Tasks(n)] = Idle /\ job[Info(n)] = Idle
  BY <1>2 DEF TInv, NewInv
<1>4. /\ Tasks(n) \in Jobs /\ Info(n) \in Jobs /\ Handler \in Jobs
      /\ Tasks(n) # Info(n) /\ Handler # Tasks(n) /\ Handler # Info(n)
      /\ Watches # Tasks(n) /\ Watches # Info(n) /\ Watches # Handler
  BY Classes
<1>5. job = [q \in Jobs |-> job[q]]
  BY DEF SInv, JobsInv
<1>6. /\ jobs1 = [q \in Jobs |-> jobs1[q]]
      /\ jobs1[Tasks(n)] = [at |-> "start"] /\ jobs1[Info(n)] = Idle
      /\ \A q \in Jobs \ {Tasks(n)} : jobs1[q] = job[q]
  BY <1>3, <1>4, <1>5
<1>7. StopEnded(s, n, jobs1) = <<s1, jobs2>>
  BY DEF StopEnded
<1> HIDE DEF jobs1
<1>8. /\ jobs2 = [q \in Jobs |-> jobs2[q]]
      /\ jobs2[Tasks(n)] = [at |-> "start"] /\ jobs2[Info(n)] = IF e THEN ask ELSE Idle
      /\ \A q \in Jobs \ {Tasks(n), Info(n)} : jobs2[q] = job[q]
  BY <1>4, <1>6
<1>9. ask # Idle
  BY DEF Idle
<1>10. (IF jobs2[Info(n)] = Idle THEN sent1 ELSE Append(sent1, Info(n))) = sent2
  BY <1>8, <1>9
<1>11. \/ Update(s1, [jobs2 EXCEPT ![Handler] = [at |-> "continue", n |-> n]],
                 Append(sent2, Handler))
       \/ Update(s1, [jobs2 EXCEPT ![Handler] = Idle], sent2)
  <2> HIDE DEF s1, jobs2, sent1, sent2
  <2>1. <<s1, jobs2>>[1] = s1 /\ <<s1, jobs2>>[2] = jobs2
    OBVIOUS
  <2> QED
    BY <1>1, <1>2, <1>7, <1>10, <2>1 DEF RefreshOver, jobs1, sent1
<1> HIDE DEF jobs2, s1
<1>12. PICK j, sent :
         /\ Update(s1, [jobs2 EXCEPT ![Handler] = j], sent)
         /\ \/ j = [at |-> "continue", n |-> n] /\ sent = Append(sent2, Handler)
            \/ j = Idle /\ sent = sent2
  BY <1>11
<1> DEFINE jobs3 == [jobs2 EXCEPT ![Handler] = j]
<1>13. /\ jobs3 = [q \in Jobs |-> jobs3[q]] /\ jobs3[Handler] = j
       /\ jobs3[Tasks(n)] = [at |-> "start"] /\ jobs3[Info(n)] = IF e THEN ask ELSE Idle
       /\ \A q \in Jobs \ {Tasks(n), Info(n), Handler} : jobs3[q] = job[q]
  BY <1>4, <1>8
<1> HIDE DEF jobs3
<1>14. /\ sent1 \in Seq(Jobs) /\ IsInjective(sent1) /\ Range(sent1) = Range(wire) \ {Handler}
       /\ \A q, r : Ahead(sent1, q, r) <=> Ahead(wire, q, r) /\ q # Handler /\ r # Handler
  BY WithoutFacts DEF TInv, WireOK, Gone
<1>15. Info(n) \notin Range(wire) /\ Tasks(n) \notin Range(wire)
  BY <1>3, <1>4 DEF TInv, WireOK, Idle, Free
<1> HIDE DEF sent1
<1>16. /\ sent2 \in Seq(Jobs) /\ IsInjective(sent2)
       /\ Range(sent2) = IF e THEN Range(sent1) \cup {Info(n)} ELSE Range(sent1)
       /\ \A q, r : q # Info(n) /\ r # Info(n) => (Ahead(sent2, q, r) <=> Ahead(sent1, q, r))
  <2>1. CASE e
    BY <1>4, <1>14, <1>15, <2>1, AppendFacts
  <2>2. CASE ~e
    BY <1>14, <2>2
  <2> QED
    BY <2>1, <2>2
<1> HIDE DEF sent2
<1>17. Handler \notin Range(sent2)
  BY <1>4, <1>14, <1>16
<1>18. /\ sent \in Seq(Jobs) /\ IsInjective(sent)
       /\ Range(sent) = IF j = Idle THEN Range(sent2) ELSE Range(sent2) \cup {Handler}
       /\ \A q, r : q # Handler /\ r # Handler => (Ahead(sent, q, r) <=> Ahead(sent2, q, r))
  <2>1. CASE j = Idle /\ sent = sent2
    BY <1>16, <2>1
  <2>2. CASE j = [at |-> "continue", n |-> n] /\ sent = Append(sent2, Handler)
    <3>1. j # Idle
      BY <2>2 DEF Idle
    <3> QED
      BY <1>4, <1>16, <1>17, <2>2, <3>1, AppendFacts
  <2> QED
    BY <1>12, <2>1, <2>2
<1>19. WireOK(jobs3, sent)
  <2>1. jobs3[Handler].at \in Free <=> j = Idle
    BY <1>12, <1>13 DEF Free, Idle
  <2>2. jobs3[Info(n)].at \in Free <=> ~e
    BY <1>13 DEF Free, Idle
  <2>3. jobs3[Tasks(n)].at \in Free
    BY <1>13 DEF Free
  <2>4. ASSUME NEW q \in Jobs PROVE q \in Range(sent) <=> jobs3[q].at \notin Free
    <3>1. CASE q = Handler
      BY <1>17, <1>18, <2>1, <3>1
    <3>2. CASE q = Info(n)
      BY <1>4, <1>14, <1>15, <1>16, <1>18, <2>2, <3>2
    <3>3. CASE q = Tasks(n)
      BY <1>4, <1>14, <1>15, <1>16, <1>18, <2>3, <3>3
    <3>4. CASE q \notin {Tasks(n), Info(n), Handler}
      BY <1>13, <1>14, <1>16, <1>18, <3>4 DEF TInv, WireOK
    <3> QED
      BY <3>1, <3>2, <3>3, <3>4
  <2> QED
    BY <1>18, <2>4 DEF WireOK
<1>20. /\ store' = s1 /\ WireOK(job', wire')
       /\ \A q \in Jobs : q # Watches => job'[q] = jobs3[q]
       /\ \A q, r : q # Watches /\ r # Watches => (Ahead(wire', q, r) <=> Ahead(sent, q, r))
  <2>1. Update(s1, jobs3, sent)
    BY <1>12 DEF jobs3
  <2> QED
    BY <1>13, <1>19, <2>1, UpdateView
<1>21. Kept({Handler, Tasks(n), Info(n), Watches})
  BY <1>13, <1>14, <1>16, <1>18, <1>20 DEF Kept
<1> QED
  BY <1>1, <1>2, <1>4, <1>12, <1>13, <1>20, <1>21 DEF s1

(* What the end of a refresh of locals leaves of the snapshot *)
Ends(p, s) ==
  /\ Honest(s) /\ StoreOK(s)
  /\ s.state = store.state /\ s.thread = store.thread /\ s.exc = store.exc
  /\ s.info = store.info /\ s.graph = store.graph
  /\ halted => s.frames = store.frames /\ s.sel = store.sel /\ ~Loads(p)
  /\ Settling => \/ s.locals = [n |-> Now, frame |-> s.sel]
                 \/ ~Gets(p) /\ s.locals = store.locals

LEMMA UserOver ==
  ASSUME SInv, SInv', TInv, SettlingInv, NEW p \in Jobs, p # Handler,
         job[p].at \in {"stackTrace", "scopes", "variables"}, NEW s, Ends(p, s),
         RefreshOver(p, s, Gone(p)),
         UNCHANGED <<stops, halted, events, dead, handled, clean, moved>>
  PROVE  TInv' /\ SettlingInv'
<1>1. p # Watches
  BY NotWatches
<1>2. \A n : p \notin {Tasks(n), Info(n)}
  BY AtSays, Classes
<1>3. Update(s, Then(p, Idle), Gone(p))
  BY DEF RefreshOver
<1>4. Idle.at \in Free /\ Idle.at = "idle" /\ Idle.at \notin Busy \cup Graphs
  BY DEF Idle, Free, Busy, Graphs
<1>5. Step(p, Idle, s)
  BY <1>1, <1>3, <1>4, Single DEF SInv, TInv
<1>6. job'[p] = Idle /\ store' = s /\ Kept({p, Watches})
  BY <1>5 DEF Step
<1>7. Connected
  BY AtWork
<1>8. TInv'
  <2>1. JobOK(p)'
    BY <1>6, IdleOK
  <2>2. StoreOK(s) /\ s.state # "DISCONNECTED"
    BY <1>7 DEF Ends, Connected
  <2>3. \A n \in 1..MaxStop : p \notin {Tasks(n), Info(n)}
    BY <1>2
  <2> QED
    BY <1>1, <1>4, <1>5, <1>7, <2>1, <2>2, <2>3, TypesStay
<1>9. ASSUME Settling' PROVE SettlingInv'
  <2>1. Settling /\ Now' = Now /\ stops'[Now'] = stops[Now] /\ Place' = Place
    BY <1>6, <1>9, NowSame, StopSame DEF Settling, Connected, Ends
  <2>2. job'[Handler] = job[Handler]
    BY <1>1, <1>6, Classes DEF Kept
  <2>3. /\ s.frames = store.frames /\ s.sel = store.sel /\ ~Loads(p)
        /\ \/ s.locals = [n |-> Now, frame |-> s.sel]
           \/ ~Gets(p) /\ s.locals = store.locals
    BY <2>1 DEF Ends, Settling
  <2>4. ~Loads(p)' /\ ~Lost(p)'
    BY <1>4, <1>6 DEF Loads, Lost, Busy
  <2>5. ASSUME job'[Handler].at # "threads" PROVE FramesInv' /\ LocalsInv'
    <3>1. \A q \in {p, Watches} : ~Loads(q) /\ ~Loads(q)'
      BY <2>3, <2>4, WatchesQuiet
    <3>2. FramesInv /\ LocalsInv
      BY <2>1, <2>2, <2>5 DEF SettlingInv
    <3>3. FramesInv'
      BY <1>6, <2>3, <3>1, <3>2, FramesKept DEF Ends
    <3>4. CASE s.locals = [n |-> Now, frame |-> s.sel]
      BY <1>6, <2>1, <3>3, <3>4 DEF LocalsInv
    <3>5. CASE ~Gets(p) /\ s.locals = store.locals
      <4>1. \A q \in {p, Watches} : ~Loads(q) /\ ~Gets(q)
        BY <3>1, <3>5, WatchesQuiet
      <4>2. LocalsInv'
        BY <1>6, <2>3, <3>2, <3>5, <4>1, LocalsKept
      <4> QED
        BY <3>3, <4>2
    <3> QED
      BY <2>3, <3>4, <3>5
  <2>6. ASSUME job'[Handler].at \notin {"threads", "stackTrace"} PROVE SelInv'
    <3>1. SelInv
      BY <2>1, <2>2, <2>6 DEF SettlingInv
    <3> QED
      BY <1>6, <2>3, <3>1, SelKept
  <2>7. ASSUME job'[Handler].at \notin Busy, ~moved' PROVE ExcInv' /\ GraphInv'
    <3>1. ExcInv /\ GraphInv /\ halted
      BY <2>1, <2>2, <2>7 DEF SettlingInv, Settling
    <3>2. p # Info(Now) /\ p # Tasks(Now)
      BY <1>2
    <3>3. store'.info = store.info /\ store'.graph = store.graph
      BY <1>6 DEF Ends
    <3> QED
      BY <1>6, <2>4, <3>1, <3>2, <3>3, BothKept
  <2>8. /\ store'.state = "PAUSED" /\ store'.exc = stops'[Now'].exc
        /\ ~moved' => store'.thread = stops'[Now'].thread
        /\ job'[Handler].at = "threads" => ~moved'
    BY <1>6, <2>1, <2>2 DEF SettlingInv, Ends
  <2> QED
    BY <2>5, <2>6, <2>7, <2>8 DEF SettlingInv
<1> QED
  BY <1>8, <1>9 DEF SettlingInv

LEMMA HandlerOverSettles ==
  ASSUME SInv, SInv', TInv, SettlingInv,
         job[Handler].at \in {"stackTrace", "scopes", "variables"}, NEW s, Ends(Handler, s),
         RefreshOver(Handler, s, Gone(Handler)),
         UNCHANGED <<stops, halted, events, dead, handled, clean, moved>>
  PROVE  TInv' /\ SettlingInv'
<1>1. job[Handler].at \in Busy
  BY DEF Busy
<1>2. PICK n \in 1..MaxStop : n = handled
  BY <1>1, HandlerOver
<1> DEFINE e == stops[n].exc
           P == {Handler, Tasks(n), Info(n), Watches}
<1>3. /\ store' = IF e THEN s ELSE [s EXCEPT !.info = None]
      /\ WireOK(job', wire') /\ Kept(P)
      /\ job'[Tasks(n)] = [at |-> "start"]
      /\ job'[Info(n)] = IF e THEN [at |-> "exceptionInfo", n |-> n] ELSE Idle
      /\ job'[Handler] \in {Idle, [at |-> "continue", n |-> n]}
  BY <1>1, <1>2, HandlerOver
<1>4. /\ store'.state = store.state /\ store'.thread = store.thread /\ store'.exc = store.exc
      /\ store'.frames = s.frames /\ store'.sel = s.sel /\ store'.locals = s.locals
      /\ ~e => store'.info = None
  BY <1>3 DEF Ends, Honest, Fields
<1>5. job'[Handler].at \in {"idle", "continue"} /\ job'[Handler].at \notin Busy \cup Graphs
  BY <1>3 DEF Idle, Busy, Graphs
<1>6. job[Tasks(n)] = Idle /\ job[Info(n)] = Idle
  BY <1>1, <1>2 DEF TInv, NewInv
<1>7. Connected /\ Connected'
  <2>1. Connected
    BY <1>1, AtWork, Classes DEF Busy
  <2> QED
    BY <1>4, <2>1 DEF Connected
<1>8. Now' = Now
  BY NowSame
<1> HIDE DEF e, P
<1>9. TInv'
  <2>1. ASSUME NEW q \in Jobs PROVE JobOK(q)'
    <3>1. CASE q = Handler
      <4>1. job'[q].at \in May(q) /\ (job'[q].at = "idle" => job'[q] = Idle)
        BY <1>3, <3>1, MayBe DEF Idle
      <4> QED
        BY <1>5, <3>1, <4>1 DEF JobOK, Graphs
    <3>2. CASE q = Watches
      <4>1. job'[Watches] = Idle \/ job'[Watches] = [at |-> "watch", frame |-> wkey']
        BY DEF SInv, WatchesInv
      <4>2. /\ job'[Watches].at \in {"idle", "watch"}
            /\ job'[Watches].at = "idle" => job'[Watches] = Idle
        BY <4>1 DEF Idle
      <4>3. May(Watches) = {"idle", "watch"}
        BY Classes DEF May
      <4> QED
        BY <3>2, <4>2, <4>3 DEF JobOK, Graphs
    <3>3. CASE q = Tasks(n)
      BY <1>3, <3>3, MayBe DEF JobOK, Graphs
    <3>4. CASE q = Info(n)
      <4>1. job'[q].at \in {"idle", "exceptionInfo"} /\ (job'[q].at = "idle" => job'[q] = Idle)
        BY <1>3, <3>4 DEF Idle
      <4>2. May(q) = {"idle", "exceptionInfo"}
        BY <3>4, MayBe
      <4> QED
        BY <4>1, <4>2 DEF JobOK, Graphs
    <3>5. CASE q \notin P
      <4>1. job'[q] = job[q]
        BY <1>3, <3>5 DEF Kept
      <4>2. JobOK(q)
        BY DEF TInv
      <4> QED
        BY <1>8, <4>1, <4>2 DEF JobOK
    <3> QED
      BY <3>1, <3>2, <3>3, <3>4, <3>5 DEF P
  <2>2. HandlerInv'
    BY <1>5 DEF HandlerInv
  <2>3. NewInv'
    <3> SUFFICES ASSUME NEW m \in 1..MaxStop, m > handled
                 PROVE  job'[Tasks(m)] = Idle /\ job'[Info(m)] = Idle
      BY <1>5 DEF NewInv
    <3>1. job[Tasks(m)] = Idle /\ job[Info(m)] = Idle
      BY DEF TInv, NewInv
    <3>2. m # n
      BY <1>2
    <3>3. Tasks(m) \in Jobs \ P /\ Info(m) \in Jobs \ P
      BY <3>2, Classes DEF P
    <3> QED
      BY <1>3, <3>1, <3>3 DEF Kept
  <2>4. InfoInv'
    <3> SUFFICES ASSUME NEW m \in 1..MaxStop, job'[Info(m)].at # "idle" PROVE job'[Info(m)].n = m
      BY DEF InfoInv
    <3>1. CASE m = n
      BY <1>3, <3>1 DEF Idle
    <3>2. CASE m # n
      <4>1. Info(m) \in Jobs \ P
        BY <3>2, Classes DEF P
      <4>2. job'[Info(m)] = job[Info(m)]
        BY <1>3, <4>1 DEF Kept
      <4> QED
        BY <4>2 DEF TInv, InfoInv
    <3> QED
      BY <3>1, <3>2
  <2>5. StoreOK(store)'
    BY <1>4, <1>8 DEF Ends, StoreOK
  <2>6. OffInv'
    BY <1>7 DEF OffInv
  <2>7. EventsInv'
    BY <1>7, EventsSame
  <2> QED
    BY <1>3, <2>1, <2>2, <2>3, <2>4, <2>5, <2>6, <2>7 DEF TInv
<1>10. ASSUME Settling' PROVE SettlingInv'
  <2>1. /\ Settling /\ halted /\ stops'[Now'] = stops[Now] /\ Place' = Place
        /\ n = Now /\ n = Now'
    BY <1>2, <1>7, <1>8, <1>10, StopSame DEF Settling
  <2>2. /\ store'.frames = store.frames /\ store'.sel = store.sel /\ ~Loads(Handler)
        /\ \/ store'.locals = [n |-> Now, frame |-> store'.sel]
           \/ ~Gets(Handler) /\ store'.locals = store.locals
    BY <1>4, <2>1 DEF Ends
  <2>3. FramesInv /\ LocalsInv /\ SelInv
    <3>1. job[Handler].at \notin {"threads", "stackTrace"}
      BY <2>2 DEF Loads
    <3> QED
      BY <2>1, <3>1 DEF SettlingInv
  <2>4. \A q \in P : ~Loads(q) /\ ~Loads(q)'
    <3>1. ~Loads(Handler)'
      BY <1>5 DEF Loads
    <3>2. ~Loads(Tasks(n)) /\ ~Loads(Tasks(n))' /\ ~Loads(Info(n)) /\ ~Loads(Info(n))'
      BY <1>3, <1>6 DEF Loads, Idle
    <3> QED
      BY <2>2, <3>1, <3>2, WatchesQuiet DEF P
  <2>5. FramesInv'
    BY <1>3, <1>4, <2>2, <2>3, <2>4, FramesKept
  <2>6. LocalsInv'
    <3>1. CASE store'.locals = [n |-> Now, frame |-> store'.sel]
      BY <1>8, <3>1 DEF LocalsInv
    <3>2. CASE ~Gets(Handler) /\ store'.locals = store.locals
      <4>1. ~Gets(Tasks(n)) /\ ~Gets(Info(n))
        BY <1>6 DEF Gets, Idle
      <4>2. \A q \in P : ~Loads(q) /\ ~Gets(q)
        BY <2>4, <3>2, <4>1, WatchesQuiet DEF P
      <4> QED
        BY <1>3, <2>2, <2>3, <3>2, <4>2, LocalsKept
    <3> QED
      BY <2>2, <3>1, <3>2
  <2>7. SelInv'
    BY <2>2, <2>3, SelKept
  <2>8. ExcInv'
    BY <1>3, <1>4, <2>1 DEF ExcInv, e
  <2>9. GraphInv'
    <3>1. job'[Tasks(Now')].at = "start"
      BY <1>3, <2>1
    <3> QED
      BY <3>1 DEF GraphInv
  <2>10. /\ store'.state = "PAUSED" /\ store'.exc = stops'[Now'].exc
         /\ ~moved' => store'.thread = stops'[Now'].thread
    BY <1>4, <2>1 DEF SettlingInv
  <2> QED
    BY <1>5, <2>5, <2>6, <2>7, <2>8, <2>9, <2>10 DEF SettlingInv
<1> QED
  BY <1>9, <1>10 DEF SettlingInv

(* The request of p for frames is answered after those before it: if it    *)
(* was the last, the frames are those of the thread shown.                 *)
LEMMA FramesSettle ==
  ASSUME SInv, SInv', TInv, SettlingInv, NEW p \in Jobs, FramesLoaded(p)
  PROVE  TInv' /\ SettlingInv'
<1>1. /\ First(p) /\ job[p].at = "stackTrace" /\ Loads(p)
      /\ UNCHANGED <<stops, halted, events, dead, handled, clean, moved>>
  BY DEF FramesLoaded, history, Loads
<1>2. p # Watches /\ \A n : p \notin {Tasks(n), Info(n)}
  BY <1>1, AtSays, Classes
<1>3. Connected
  BY <1>1, AtWork
<1>4. CASE ~halted
  <2> DEFINE s == [store EXCEPT !.frames = None, !.sel = None]
  <2>1. RefreshOver(p, s, Gone(p))
    BY <1>4 DEF FramesLoaded
  <2>2. StoreOK(s)
    BY StoreFields DEF TInv, SInv
  <2>3. Honest(s) /\ s.state = store.state /\ s.thread = store.thread /\ s.exc = store.exc
        /\ s.info = store.info /\ s.graph = store.graph
    BY DEF SInv, Honest, Fields
  <2>4. Ends(p, s)
    BY <1>4, <2>2, <2>3 DEF Ends, Settling
  <2> HIDE DEF s
  <2>5. CASE p = Handler
    BY <1>1, <2>1, <2>4, <2>5, HandlerOverSettles
  <2>6. CASE p # Handler
    BY <1>1, <2>1, <2>4, <2>6, UserOver
  <2> QED
    BY <2>5, <2>6
<1>5. CASE halted
  <2> DEFINE f == Top(job[p].thread, stops[Now].place)
             s == [store EXCEPT !.frames = [n |-> Now, top |-> f], !.sel = f]
             j == IF p = Handler THEN [at |-> "scopes", frame |-> f, n |-> job[p].n]
                  ELSE [at |-> "scopes", frame |-> f]
  <2>1. Update(s, Then(p, j), Append(Gone(p), p))
    BY <1>5 DEF FramesLoaded
  <2>2. j.at = "scopes" /\ j.frame = f /\ (p = Handler => j.n = job[p].n)
    OBVIOUS
  <2> HIDE DEF j
  <2>3. Now \in 1..MaxStop /\ stops[Now].place \in Places /\ job[p].thread \in Threads
    BY <1>1, <1>5, StopJobs DEF TInv, JobOK
  <2>4. f \in Frame /\ f[1] = job[p].thread /\ f[2] = Place /\ f \in Frames(f[1], Place)
    BY <2>3 DEF Frame, Frames, Top, Depths, Place
  <2>5. f = Top(job[p].thread, Place)
    BY DEF Place
  <2> HIDE DEF f
  <2>6. /\ s.state = store.state /\ s.thread = store.thread /\ s.exc = store.exc
        /\ s.frames = [n |-> Now, top |-> f] /\ s.sel = f
        /\ s.info = store.info /\ s.graph = store.graph
    BY DEF SInv, Honest, Fields
  <2> HIDE DEF s
  <2>7. s.frames # None
    BY <2>3, <2>4, <2>6, StopRefreshAssumption
  <2>8. StoreOK(s)
    BY <2>3, <2>4, <2>6 DEF TInv, StoreOK
  <2>9. Step(p, j, s)
    BY <1>2, <2>1, <2>2, Single DEF SInv, TInv, Free
  <2>10. job'[p] = j /\ store' = s /\ Kept({p, Watches})
    BY <2>9 DEF Step
  <2>11. TInv'
    <3>1. "scopes" \in May(p)
      BY <1>1, AtSays, MayBe DEF Busy
    <3>2. JobOK(p)'
      BY <2>2, <2>4, <2>10, <3>1 DEF JobOK, Graphs
    <3>3. s.state # "DISCONNECTED"
      BY <1>3, <2>6 DEF Connected
    <3>4. \A n \in 1..MaxStop : p \notin {Tasks(n), Info(n)}
      BY <1>2
    <3>5. job[p].at \in Busy
      BY <1>1 DEF Busy
    <3> QED
      BY <1>1, <1>2, <1>3, <2>2, <2>8, <2>9, <3>2, <3>3, <3>4, <3>5, TypesStay
  <2>12. ASSUME Settling' PROVE SettlingInv'
    <3>1. Settling /\ Now' = Now /\ stops'[Now'] = stops[Now] /\ Place' = Place
      BY <1>1, <2>6, <2>10, <2>12, NowSame, StopSame DEF Settling, Connected
    <3>2. p = Handler \/ job'[Handler] = job[Handler]
      BY <1>2, <2>10, Classes DEF Kept
    <3>3. (job'[Handler].at = "threads" <=> job[Handler].at = "threads")
          /\ (job'[Handler].at \in Busy <=> job[Handler].at \in Busy)
      BY <1>1, <2>2, <2>10, <3>2 DEF Busy
    <3>4. ~Loads(p)' /\ Gets(p)' /\ ~Lost(p)'
      BY <2>2, <2>6, <2>10 DEF Loads, Gets, Lost, Graphs
    <3>5. \A q \in Jobs : Loads(q)' => Loads(q) /\ q \notin {p, Watches} /\ job'[q] = job[q]
      BY <2>10, <3>4, WatchesQuiet DEF Kept, Loads
    <3>6. ASSUME job'[Handler].at # "threads" PROVE FramesInv'
      <4>1. FramesInv
        BY <3>1, <3>3, <3>6 DEF SettlingInv
      <4>2. PICK q \in Jobs : /\ Loads(q) /\ job[q].thread = store.thread
                              /\ \A r \in Jobs : Loads(r) /\ r # q => Ahead(wire, r, q)
        BY <1>1, <4>1 DEF FramesInv
      <4>3. CASE q = p
        <5>1. \A r \in Jobs : r # p => ~Loads(r)
          <6> SUFFICES ASSUME NEW r \in Jobs, r # p, Loads(r) PROVE FALSE
            OBVIOUS
          <6>1. Ahead(wire, r, p)
            BY <4>2, <4>3
          <6>2. Kind(job[r].at) # Kind(job[p].at)
            BY <1>1, <6>1, FirstOfKind
          <6> QED
            BY <1>1, <6>2 DEF Loads
        <5>2. \A r \in Jobs : ~Loads(r)'
          BY <3>5, <5>1
        <5>3. store'.frames = [n |-> Now', top |-> Top(store'.thread, Place')]
          BY <2>5, <2>6, <2>10, <3>1, <4>2, <4>3
        <5> QED
          BY <5>2, <5>3 DEF FramesInv
      <4>4. CASE q # p
        <5>1. q # Watches /\ job'[q] = job[q] /\ Loads(q)'
          BY <2>10, <4>2, <4>4, WatchesQuiet DEF Kept, Loads
        <5>2. \A r \in Jobs : Loads(r)' /\ r # q => Ahead(wire', r, q)
          BY <2>10, <3>5, <4>2, <4>4, <5>1 DEF Kept
        <5>3. job'[q].thread = store'.thread
          BY <2>6, <2>10, <4>2, <5>1
        <5> QED
          BY <5>1, <5>2, <5>3 DEF FramesInv
      <4> QED
        BY <4>3, <4>4
    <3>7. LocalsInv'
      BY <3>4 DEF LocalsInv
    <3>8. SelInv'
      BY <2>4, <2>6, <2>7, <2>10, <3>1 DEF SelInv
    <3>9. ASSUME job'[Handler].at \notin Busy, ~moved' PROVE ExcInv' /\ GraphInv'
      <4>1. ExcInv /\ GraphInv
        BY <1>1, <3>1, <3>3, <3>9 DEF SettlingInv
      <4>2. p # Info(Now) /\ p # Tasks(Now)
        BY <1>2
      <4>3. store'.info = store.info /\ store'.graph = store.graph
        BY <2>6, <2>10
      <4> QED
        BY <1>1, <1>5, <2>10, <3>4, <4>1, <4>2, <4>3, BothKept
    <3>10. /\ store'.state = "PAUSED" /\ store'.exc = stops'[Now'].exc
           /\ ~moved' => store'.thread = stops'[Now'].thread
           /\ job'[Handler].at = "threads" => ~moved'
      BY <1>1, <2>6, <2>10, <3>1, <3>3 DEF SettlingInv
    <3> QED
      BY <3>6, <3>7, <3>8, <3>9, <3>10 DEF SettlingInv
  <2> QED
    BY <2>11, <2>12 DEF SettlingInv
<1> QED
  BY <1>4, <1>5

(* A refresh of locals ends when the frame is no longer selected, or goes  *)
(* on for the frame that is.                                               *)
LEMMA ScopesSettle ==
  ASSUME SInv, SInv', TInv, SettlingInv, NEW p \in Jobs, ScopesLoaded(p)
  PROVE  TInv' /\ SettlingInv'
<1>1. /\ job[p].at = "scopes" /\ ~Loads(p) /\ halted
      /\ UNCHANGED <<stops, halted, events, dead, handled, clean, moved>>
  BY DEF ScopesLoaded, history, Loads, Serves
<1>2. p # Watches /\ \A n : p \notin {Tasks(n), Info(n)}
  BY <1>1, AtSays, Classes
<1>3. Connected
  BY <1>1, AtWork
<1>4. CASE ~IsCurrent(p)
  <2>1. RefreshOver(p, store, Gone(p))
    BY <1>4 DEF ScopesLoaded
  <2>2. Settling => ~Gets(p)
    BY <1>1, <1>4 DEF IsCurrent, Gets, SettlingInv
  <2>3. Ends(p, store)
    BY <1>1, <2>2 DEF Ends, SInv, TInv
  <2>4. CASE p = Handler
    BY <1>1, <2>1, <2>3, <2>4, HandlerOverSettles
  <2>5. CASE p # Handler
    BY <1>1, <2>1, <2>3, <2>5, UserOver
  <2> QED
    BY <2>4, <2>5
<1>5. CASE IsCurrent(p)
  <2> DEFINE j == IF p = Handler
                  THEN [at |-> "variables", frame |-> job[p].frame, of |-> Now, n |-> job[p].n]
                  ELSE [at |-> "variables", frame |-> job[p].frame, of |-> Now]
  <2>1. Keep(Then(p, j), Append(Gone(p), p))
    BY <1>5 DEF ScopesLoaded
  <2>2. /\ j.at = "variables" /\ j.frame = job[p].frame /\ j.of = Now
        /\ p = Handler => j.n = job[p].n
    OBVIOUS
  <2> HIDE DEF j
  <2>3. Step(p, j, store)
    BY <1>2, <2>1, <2>2, Single DEF SInv, TInv, Free
  <2>4. job'[p] = j /\ store' = store /\ Kept({p, Watches})
    BY <2>3 DEF Step
  <2>5. TInv'
    <3>1. "variables" \in May(p)
      BY <1>1, AtSays, MayBe DEF Busy
    <3>2. job[p].frame \in Frame
      BY <1>1 DEF TInv, JobOK
    <3>3. JobOK(p)'
      BY <2>2, <2>4, <3>1, <3>2 DEF JobOK, Graphs
    <3>4. store.state # "DISCONNECTED" /\ StoreOK(store)
      BY <1>3 DEF Connected, TInv
    <3>5. \A n \in 1..MaxStop : p \notin {Tasks(n), Info(n)}
      BY <1>2
    <3>6. job[p].at \in Busy
      BY <1>1 DEF Busy
    <3> QED
      BY <1>1, <1>2, <1>3, <2>2, <2>3, <3>3, <3>4, <3>5, <3>6, TypesStay
  <2>6. ASSUME Settling' PROVE SettlingInv'
    <3>1. Settling /\ Now' = Now /\ stops'[Now'] = stops[Now] /\ Place' = Place
      BY <1>1, <2>4, <2>6, NowSame, StopSame DEF Settling, Connected
    <3>2. p = Handler \/ job'[Handler] = job[Handler]
      BY <1>2, <2>4, Classes DEF Kept
    <3>3. (job'[Handler].at = "threads" <=> job[Handler].at = "threads")
          /\ (job'[Handler].at \in {"threads", "stackTrace"} <=>
                job[Handler].at \in {"threads", "stackTrace"})
          /\ (job'[Handler].at \in Busy <=> job[Handler].at \in Busy)
      BY <1>1, <2>2, <2>4, <3>2 DEF Busy
    <3>4. ~Loads(p)' /\ Gets(p)' /\ ~Lost(p)'
      BY <1>5, <2>2, <2>4, <3>1 DEF Loads, Gets, Lost, Graphs, IsCurrent
    <3>5. ASSUME job'[Handler].at # "threads" PROVE FramesInv'
      <4>1. FramesInv
        BY <3>1, <3>3, <3>5 DEF SettlingInv
      <4>2. \A q \in {p, Watches} : ~Loads(q) /\ ~Loads(q)'
        BY <1>1, <3>4, WatchesQuiet
      <4> QED
        BY <1>1, <2>4, <4>1, <4>2, FramesKept
    <3>6. LocalsInv'
      BY <3>4 DEF LocalsInv
    <3>7. ASSUME job'[Handler].at \notin {"threads", "stackTrace"} PROVE SelInv'
      <4>1. SelInv
        BY <3>1, <3>3, <3>7 DEF SettlingInv
      <4> QED
        BY <1>1, <2>4, <4>1, SelKept
    <3>8. ASSUME job'[Handler].at \notin Busy, ~moved' PROVE ExcInv' /\ GraphInv'
      <4>1. ExcInv /\ GraphInv
        BY <1>1, <3>1, <3>3, <3>8 DEF SettlingInv
      <4>2. p # Info(Now) /\ p # Tasks(Now)
        BY <1>2
      <4> QED
        BY <1>1, <2>4, <3>4, <4>1, <4>2, BothKept
    <3>9. /\ store'.state = "PAUSED" /\ store'.exc = stops'[Now'].exc
          /\ ~moved' => store'.thread = stops'[Now'].thread
          /\ job'[Handler].at = "threads" => ~moved'
      BY <1>1, <2>4, <3>1, <3>3 DEF SettlingInv
    <3> QED
      BY <3>5, <3>6, <3>7, <3>8, <3>9 DEF SettlingInv
  <2> QED
    BY <2>5, <2>6 DEF SettlingInv
<1> QED
  BY <1>4, <1>5

LEMMA VariablesSettle ==
  ASSUME SInv, SInv', TInv, SettlingInv, NEW p \in Jobs, VariablesLoaded(p)
  PROVE  TInv' /\ SettlingInv'
<1> DEFINE s == IF IsCurrent(p)
                THEN [store EXCEPT !.locals = [n |-> Now, frame |-> job[p].frame]]
                ELSE store
<1>1. /\ job[p].at = "variables" /\ ~Loads(p)
      /\ RefreshOver(p, s, Gone(p))
      /\ UNCHANGED <<stops, halted, events, dead, handled, clean, moved>>
  BY DEF VariablesLoaded, history, Loads
<1>2. Honest(s)
  BY DEF SInv, Honest, IsCurrent, Fields
<1>3. StoreOK(s)
  BY StoreFields DEF SInv, TInv
<1>4. /\ s.state = store.state /\ s.thread = store.thread /\ s.exc = store.exc
      /\ s.frames = store.frames /\ s.sel = store.sel
      /\ s.info = store.info /\ s.graph = store.graph
  BY DEF SInv, Honest, Fields
<1>5. Settling => \/ s.locals = [n |-> Now, frame |-> s.sel]
                  \/ ~Gets(p) /\ s.locals = store.locals
  <2>1. CASE IsCurrent(p)
    <3>1. s.locals = [n |-> Now, frame |-> job[p].frame]
      BY <2>1 DEF SInv, Honest, Fields
    <3> QED
      BY <1>4, <2>1, <3>1 DEF IsCurrent
  <2>2. CASE ~IsCurrent(p)
    BY <1>1, <2>2 DEF IsCurrent, Gets, SettlingInv
  <2> QED
    BY <2>1, <2>2
<1> HIDE DEF s
<1>6. Ends(p, s)
  BY <1>1, <1>2, <1>3, <1>4, <1>5 DEF Ends
<1>7. CASE p = Handler
  BY <1>1, <1>6, <1>7, HandlerOverSettles
<1>8. CASE p # Handler
  BY <1>1, <1>6, <1>8, UserOver
<1> QED
  BY <1>7, <1>8

-----------------------------------------------------------------------------
(* In the background *)

LEMMA GraphField ==
  ASSUME Honest(store), NEW x, NEW s, s = [store EXCEPT !.graph = x]
  PROVE  /\ s.state = store.state /\ s.thread = store.thread /\ s.exc = store.exc
         /\ s.frames = store.frames /\ s.sel = store.sel /\ s.locals = store.locals
         /\ s.info = store.info /\ s.graph = x
BY DEF Honest, Fields

LEMMA InfoField ==
  ASSUME Honest(store), NEW x, NEW s, s = [store EXCEPT !.info = x]
  PROVE  /\ s.state = store.state /\ s.thread = store.thread /\ s.exc = store.exc
         /\ s.frames = store.frames /\ s.sel = store.sel /\ s.locals = store.locals
         /\ s.graph = store.graph /\ s.info = x
BY DEF Honest, Fields

(* A step of a job of the background, with what it writes in the snapshot *)
LEMMA Background ==
  ASSUME SInv, SInv', TInv, SettlingInv, NEW p \in Jobs,
         p # Handler, p # Watches, NEW j, NEW s, Step(p, j, s),
         Settling' => Settling, UNCHANGED <<stops, moved>>,
         s.state = store.state, s.thread = store.thread, s.exc = store.exc,
         s.frames = store.frames, s.sel = store.sel, s.locals = store.locals,
         ~Loads(p), j.at # "stackTrace",
         Settling /\ job[Handler].at \notin {"threads", "stackTrace"} => ~Gets(p),
         Settling /\ ~moved /\ job[Handler].at \notin Busy /\ SelInv /\ ExcInv /\ GraphInv
           => ExcInv' /\ GraphInv'
  PROVE  SettlingInv'
<1> DEFINE P == {p, Watches}
<1>1. Kept(P) /\ store' = s /\ job'[p] = j
  BY DEF Step
<1>2. \A q \in P : ~Loads(q) /\ ~Loads(q)'
  BY <1>1, WatchesQuiet DEF Loads
<1>3. job[Handler].at \notin {"threads", "stackTrace"} /\ Settling => \A q \in P : ~Gets(q)
  BY WatchesQuiet
<1>4. Handler \notin P /\ Handler \in Jobs
  BY Classes
<1>5. /\ store'.state = store.state /\ store'.thread = store.thread /\ store'.exc = store.exc
      /\ store'.frames = store.frames /\ store'.sel = store.sel /\ store'.locals = store.locals
  BY <1>1
<1> HIDE DEF P
<1> QED
  BY <1>1, <1>2, <1>3, <1>4, <1>5, Quietly

(* The identity of the stop is taken when the task runs.  The requests     *)
(* that will be refused are before its own.                                *)
LEMMA TasksStartedSettles ==
  ASSUME SInv, SInv', TInv, SettlingInv, NEW p \in Jobs, TasksStarted(p)
  PROVE  TInv' /\ SettlingInv'
<1>1. /\ job[p].at = "start"
      /\ UNCHANGED <<stops, halted, events, dead, handled, clean, moved>>
  BY DEF TasksStarted, history
<1>2. /\ p # Watches /\ p # Handler /\ \A n : p # Info(n)
      /\ {"idle", "start"} \cup Graphs \subseteq May(p)
  BY <1>1, AtSays, MayBe, Classes
<1>3. ~Loads(p) /\ ~Gets(p) /\ job[p].at \in Free
  BY <1>1 DEF Loads, Gets, Free
<1>4. Now' = Now
  BY <1>1, NowSame
<1>5. CASE store.state # "PAUSED"
  <2> DEFINE s == [store EXCEPT !.graph = Unavailable]
  <2>1. Update(s, Then(p, Idle), wire)
    BY <1>5 DEF TasksStarted
  <2>2. s.state = store.state /\ StoreOK(s)
    BY GraphField, StoreFields DEF SInv, TInv
  <2> HIDE DEF s
  <2>3. Step(p, Idle, s)
    BY <1>2, <1>3, <2>1, Single DEF Idle, Free, SInv, TInv
  <2>4. job'[p] = Idle /\ store' = s /\ Kept({p, Watches})
    BY <2>3 DEF Step
  <2>5. OffInv'
    <3> SUFFICES ASSUME ~Connected'
                 PROVE  events' = <<>> /\ \A q \in Jobs : job'[q].at \in {"idle", "start"}
      BY DEF OffInv
    <3>1. ~Connected
      BY <2>2, <2>4 DEF Connected
    <3>2. events' = <<>> /\ \A q \in Jobs : job[q].at \in {"idle", "start"}
      BY <1>1, <3>1 DEF TInv, OffInv
    <3>3. wkey' = wkey
      <4>1. wkey = EvalKey(store) /\ wkey' = EvalKey(store')
        BY DEF SInv, WatchesInv, EvalKey
      <4> QED
        BY <1>5, <2>2, <2>4, <4>1 DEF EvalKey
    <3>4. job' = Then(p, Idle)
      BY <2>1, <3>3 DEF Update, Restarts
    <3>5. job'[Watches] = job[Watches]
      BY <1>2, <3>4, ThenKeeps
    <3>6. ASSUME NEW q \in Jobs PROVE job'[q].at \in {"idle", "start"}
      BY <2>4, <3>2, <3>5 DEF Kept, Idle
    <3> QED
      BY <3>2, <3>6
  <2>6. EventsInv'
    BY <1>1, <2>2, <2>4, EventsSame DEF Connected
  <2>7. JobOK(p)'
    BY <2>4, IdleOK
  <2>8. job[p].at # "idle" /\ Idle.at \notin Busy /\ (halted' => halted)
    BY <1>1 DEF Idle, Busy
  <2>9. TInv'
    BY <1>1, <1>2, <2>2, <2>3, <2>5, <2>6, <2>7, <2>8, TypesKept
  <2>10. SettlingInv'
    <3>1. ~Settling
      BY <1>5 DEF SettlingInv
    <3>2. Settling' => Settling
      BY <1>1, <1>4, <2>2, <2>4 DEF Settling, Connected
    <3> QED
      BY <3>1, <3>2 DEF SettlingInv
  <2> QED
    BY <2>9, <2>10
<1>6. CASE store.state = "PAUSED"
  <2> DEFINE j == [at |-> "define", thread |-> store.thread, frame |-> store.sel]
  <2>1. Keep(Then(p, j), Sent(p)) /\ j.at \notin Free
    BY <1>6 DEF TasksStarted, Free
  <2>2. Step(p, j, store) /\ Behind(p)
    <3> HIDE DEF j
    <3> QED
      BY <1>2, <1>3, <2>1, Single DEF SInv, TInv
  <2>3. job'[p] = j /\ store' = store /\ Kept({p, Watches})
    BY <2>2 DEF Step
  <2>4. Connected /\ Connected' /\ store.state # "DISCONNECTED" /\ StoreOK(store)
    BY <1>6, <2>3 DEF Connected, TInv
  <2>5. JobOK(p)'
    BY <1>2, <2>3 DEF JobOK, Graphs
  <2>6. TInv'
    BY <1>1, <1>2, <2>2, <2>4, <2>5, TypesStay
  <2>7. Settling' => Settling
    BY <1>1, <1>4, <2>4 DEF Settling
  <2>8. ASSUME Settling, ~moved, SelInv, ExcInv, GraphInv PROVE ExcInv' /\ GraphInv'
    <3>1. halted /\ Serves(store.sel)
      BY <2>8 DEF Settling, SelInv, Serves, Frames, Place
    <3>2. Serves(store.sel)'
      BY <1>1, <1>4, <2>3, <3>1 DEF Serves
    <3>3. ~Lost(p)'
      BY <2>3, <3>2 DEF Lost
    <3>4. p # Info(Now)
      BY <1>2
    <3>5. CASE p # Tasks(Now)
      BY <1>1, <2>3, <2>8, <3>1, <3>3, <3>4, <3>5, BothKept
    <3>6. CASE p = Tasks(Now)
      <4>1. ExcInv'
        <5>1. Info(Now) \notin {p, Watches} /\ Info(Now) \in Jobs
          BY <3>1, <3>4, StopJobs
        <5> QED
          BY <1>1, <2>3, <2>8, <5>1, ExcKept
      <4>2. \A q \in Jobs : Lost(q)' => Ahead(wire', q, p)
        <5> SUFFICES ASSUME NEW q \in Jobs, Lost(q)' PROVE Ahead(wire', q, p)
          OBVIOUS
        <5>1. q # p /\ q # Watches
          BY <3>3, WatchesQuiet
        <5>2. job'[q] = job[q] /\ job[q].at \notin Free
          BY <2>3, <5>1 DEF Kept, Lost, Graphs, Free
        <5> QED
          BY <2>2, <5>1, <5>2 DEF Behind
      <4>3. store.thread = stops[Now].thread /\ stops'[Now'].thread = stops[Now].thread
        BY <1>1, <1>4, <2>8 DEF SettlingInv
      <4>4. /\ job'[p].at = "define" /\ job'[p].thread = stops'[Now'].thread
        BY <2>3, <4>3
      <4>5. p = Tasks(Now')
        BY <1>4, <3>6
      <4>6. GraphInv'
        BY <3>3, <4>2, <4>4, <4>5 DEF GraphInv, Graphs
      <4> QED
        BY <4>1, <4>6
    <3> QED
      BY <3>5, <3>6
  <2>9. SettlingInv'
    BY <1>1, <1>2, <1>3, <2>2, <2>7, <2>8, Background
  <2> QED
    BY <2>6, <2>9
<1> QED
  BY <1>5, <1>6

(* The tasks of the stop are shown once nothing can take them away. *)
LEMMA TasksAnsweredSettles ==
  ASSUME SInv, SInv', TInv, SettlingInv, NEW p \in Jobs, TasksAnswered(p)
  PROVE  TInv' /\ SettlingInv'
<1>1. /\ job[p].at \in Graphs /\ Serves(job[p].frame) /\ halted /\ First(p)
      /\ UNCHANGED <<stops, halted, events, dead, handled, clean, moved>>
  BY DEF TasksAnswered, history, Graphs, Serves
<1>2. /\ p # Watches /\ p # Handler /\ \A n : p # Info(n)
      /\ {"idle", "start"} \cup Graphs \subseteq May(p)
  BY <1>1, AtSays, MayBe, Classes
<1>3. ~Loads(p) /\ ~Gets(p) /\ job[p].at # "idle"
  BY <1>1 DEF Loads, Gets, Graphs
<1>4. Now' = Now
  BY <1>1, NowSame
<1>5. Connected
  BY <1>1, AtWork DEF Graphs
<1>6. ASSUME GraphInv, p = Tasks(Now)
      PROVE  /\ \A q \in Jobs : ~Lost(q)
             /\ job[p].thread = stops[Now].thread \/ store.graph = Now
  <2>1. \/ /\ job[p].thread = stops[Now].thread
           /\ \A q \in Jobs : Lost(q) => Ahead(wire, q, p)
        \/ store.graph = Now /\ \A q \in Jobs : ~Lost(q)
    BY <1>1, <1>6 DEF GraphInv, Graphs
  <2>2. ASSUME NEW q \in Jobs, Lost(q), Ahead(wire, q, p) PROVE FALSE
    <3>1. Kind(job[q].at) # Kind(job[p].at)
      BY <1>1, <2>2, FirstOfKind
    <3> QED
      BY <1>1, <2>2, <3>1 DEF Lost, Graphs, Kind
  <2> QED
    BY <2>1, <2>2
<1>7. PICK j, s :
        /\ Step(p, j, s) /\ j.at \in {"idle", "call"}
        /\ job[p].at = "define" => s = store /\ j = [job[p] EXCEPT !.at = "call"] /\ j.at = "call"
        /\ job[p].at = "call" => /\ j = Idle
                                 /\ s = IF SameStop(p) THEN [store EXCEPT !.graph = Now] ELSE store
  <2>1. CASE job[p].at = "define"
    <3> DEFINE j == [job[p] EXCEPT !.at = "call"]
    <3>1. Keep(Then(p, j), Append(Gone(p), p))
      BY <2>1 DEF TasksAnswered
    <3>2. j.at = "call" /\ j.at \notin Free
      <4>1. job[p] = [at |-> job[p].at, thread |-> job[p].thread, frame |-> job[p].frame]
        BY <1>1 DEF TInv, JobOK
      <4> QED
        BY <4>1 DEF Free
    <3> HIDE DEF j
    <3>3. Step(p, j, store)
      BY <1>2, <3>1, <3>2, Single DEF SInv, TInv
    <3>4. job[p].at # "call"
      BY <2>1
    <3> QED
      BY <3>2, <3>3, <3>4 DEF j
  <2>2. CASE job[p].at # "define"
    <3> DEFINE s == IF SameStop(p) THEN [store EXCEPT !.graph = Now] ELSE store
    <3>1. Update(s, Then(p, Idle), Gone(p))
      BY <2>2 DEF TasksAnswered
    <3>2. Idle.at \in Free /\ Idle.at = "idle"
      BY DEF Idle, Free
    <3> HIDE DEF s
    <3>3. Step(p, Idle, s)
      BY <1>2, <3>1, <3>2, Single DEF SInv, TInv
    <3> QED
      BY <2>2, <3>2, <3>3 DEF s
  <2> QED
    BY <2>1, <2>2
<1>8. job'[p] = j /\ store' = s /\ Kept({p, Watches})
  BY <1>7 DEF Step
<1>9. /\ s.state = store.state /\ s.thread = store.thread /\ s.exc = store.exc
      /\ s.frames = store.frames /\ s.sel = store.sel /\ s.locals = store.locals
      /\ s.info = store.info /\ s.graph \in {store.graph, Now} /\ StoreOK(s)
      /\ job[p].at = "call" /\ SameStop(p) => s.graph = Now
  <2>1. job[p].at = "define" \/ job[p].at = "call"
    BY <1>1 DEF Graphs
  <2>2. s = store \/ s = [store EXCEPT !.graph = Now]
    BY <1>7, <2>1
  <2>3. StoreOK(s)
    BY <2>2, StoreFields DEF SInv, TInv
  <2>4. job[p].at = "call" /\ SameStop(p) => s = [store EXCEPT !.graph = Now]
    BY <1>7
  <2>5. CASE s = store /\ ~(job[p].at = "call" /\ SameStop(p))
    BY <2>3, <2>5
  <2>6. CASE s = [store EXCEPT !.graph = Now]
    BY <2>3, <2>6, GraphField DEF SInv
  <2> QED
    BY <2>2, <2>4, <2>5, <2>6
<1>10. Connected' /\ s.state # "DISCONNECTED"
  BY <1>5, <1>8, <1>9 DEF Connected
<1>11. /\ job[p].at = "define" => /\ j.frame = job[p].frame /\ j.thread = job[p].thread
                                  /\ j = [at |-> j.at, thread |-> j.thread, frame |-> j.frame]
       /\ job[p].at # "define" => j = Idle
  <2>1. job[p] = [at |-> job[p].at, thread |-> job[p].thread, frame |-> job[p].frame]
    BY <1>1 DEF TInv, JobOK
  <2> QED
    BY <1>1, <1>7, <2>1 DEF Graphs
<1>12. TInv'
  <2>1. j.at \in May(p) /\ (j.at = "idle" => j = Idle)
    BY <1>1, <1>2, <1>7 DEF Graphs
  <2>2. j.at = "call" => j = [at |-> j.at, thread |-> j.thread, frame |-> j.frame]
    BY <1>11 DEF Idle
  <2>3. JobOK(p)'
    BY <1>7, <1>8, <2>1, <2>2 DEF JobOK, Graphs
  <2> QED
    BY <1>1, <1>2, <1>3, <1>5, <1>7, <1>9, <1>10, <2>3, TypesStay
<1>13. ~Lost(p)'
  <2>1. Serves(job[p].frame)' <=> Serves(job'[p].frame)
    BY <1>1, <1>4 DEF Serves
  <2>2. CASE job[p].at = "define"
    <3>1. Serves(job[p].frame)'
      BY <1>1, <1>4, <1>8, <1>11, <2>2 DEF Serves
    <3> QED
      BY <3>1 DEF Lost
  <2>3. CASE job[p].at # "define"
    BY <1>8, <1>11, <2>3 DEF Lost, Idle, Graphs
  <2> QED
    BY <2>2, <2>3
<1>14. Settling' => Settling
  BY <1>1, <1>4, <1>5 DEF Settling
<1>15. ASSUME Settling, ~moved, SelInv, ExcInv, GraphInv PROVE ExcInv' /\ GraphInv'
  <2>1. p # Info(Now)
    BY <1>2
  <2>2. CASE p # Tasks(Now)
    BY <1>1, <1>8, <1>9, <1>13, <1>15, <2>1, <2>2, BothKept
  <2>3. CASE p = Tasks(Now)
    <3>1. ExcInv'
      <4>1. Info(Now) \notin {p, Watches} /\ Info(Now) \in Jobs
        BY <1>1, <2>1, StopJobs
      <4> QED
        BY <1>1, <1>8, <1>9, <1>15, <4>1, ExcKept
    <3>2. \A q \in Jobs : ~Lost(q)'
      <4> SUFFICES ASSUME NEW q \in Jobs, Lost(q)' PROVE FALSE
        OBVIOUS
      <4>1. q # p /\ q # Watches
        BY <1>13, WatchesQuiet
      <4>2. Lost(q)
        BY <1>1, <1>4, <1>8, <4>1 DEF Kept, Lost, Serves
      <4> QED
        BY <1>6, <1>15, <2>3, <4>2
    <3>3. CASE store.graph = Now
      <4>1. store'.graph = Now'
        BY <1>4, <1>8, <1>9, <3>3
      <4> QED
        BY <3>1, <3>2, <4>1 DEF GraphInv
    <3>4. CASE store.graph # Now
      <4>1. job[p].thread = stops[Now].thread
        BY <1>6, <1>15, <2>3, <3>4
      <4>2. SameStop(p)
        BY <1>15, <4>1 DEF SameStop, SettlingInv
      <4>3. CASE job[p].at = "call"
        <5>1. store'.graph = Now'
          BY <1>4, <1>8, <1>9, <4>2, <4>3
        <5> QED
          BY <3>1, <3>2, <5>1 DEF GraphInv
      <4>4. CASE job[p].at = "define"
        <5>1. /\ job'[p].at \in Graphs /\ job'[p].thread = stops'[Now'].thread
              /\ p = Tasks(Now')
          BY <1>1, <1>4, <1>7, <1>8, <1>11, <2>3, <4>1, <4>4 DEF Graphs
        <5> QED
          BY <1>13, <3>1, <3>2, <5>1 DEF GraphInv
      <4> QED
        BY <1>1, <4>3, <4>4 DEF Graphs
    <3> QED
      BY <3>3, <3>4
  <2> QED
    BY <2>2, <2>3
<1>16. SettlingInv'
  <2>1. j.at # "stackTrace"
    BY <1>7
  <2> QED
    BY <1>1, <1>2, <1>3, <1>7, <1>9, <1>14, <1>15, <2>1, Background
<1> QED
  BY <1>12, <1>16

(* The exception is that of the stop that lasts. *)
LEMMA InfoSettles ==
  ASSUME SInv, SInv', TInv, SettlingInv, NEW p \in Jobs, InfoAnswered(p)
  PROVE  TInv' /\ SettlingInv'
<1> DEFINE got == IF halted /\ stops[Now].exc THEN Now ELSE None
           s == IF InfoWanted(p) THEN [store EXCEPT !.info = got] ELSE store
<1>1. /\ job[p].at = "exceptionInfo"
      /\ Update(s, Then(p, Idle), Gone(p))
      /\ UNCHANGED <<stops, halted, events, dead, handled, clean, moved>>
  BY DEF InfoAnswered, history
<1>2. PICK n \in 1..MaxStop : p = Info(n)
  BY <1>1, AtSays
<1>3. /\ p # Watches /\ p # Handler /\ \A k : p # Tasks(k)
  BY <1>2, Classes
<1>4. job[p].n = n
  BY <1>1, <1>2 DEF TInv, InfoInv
<1>5. s = store \/ (InfoWanted(p) /\ s = [store EXCEPT !.info = got])
  OBVIOUS
<1>6. InfoWanted(p) => s = [store EXCEPT !.info = got]
  OBVIOUS
<1> HIDE DEF s
<1>7. /\ s.state = store.state /\ s.thread = store.thread /\ s.exc = store.exc
      /\ s.frames = store.frames /\ s.sel = store.sel /\ s.locals = store.locals
      /\ s.graph = store.graph /\ StoreOK(s)
      /\ s.info = store.info \/ (InfoWanted(p) /\ s.info = got)
      /\ InfoWanted(p) => s.info = got
  <2>1. CASE s = store /\ ~InfoWanted(p)
    BY <2>1 DEF TInv
  <2> HIDE DEF got
  <2>2. CASE InfoWanted(p) /\ s = [store EXCEPT !.info = got]
    <3>1. Honest(store) /\ StoreOK(store)
      BY DEF SInv, TInv
    <3>2. StoreOK(s)
      BY <2>2, <3>1, StoreFields
    <3>3. /\ s.state = store.state /\ s.thread = store.thread /\ s.exc = store.exc
          /\ s.frames = store.frames /\ s.sel = store.sel /\ s.locals = store.locals
          /\ s.graph = store.graph /\ s.info = got
      BY <2>2, <3>1, InfoField
    <3> QED
      BY <2>2, <3>2, <3>3
  <2> QED
    BY <1>5, <1>6, <2>1, <2>2
<1>8. Idle.at = "idle" /\ Idle.at \in Free
  BY DEF Idle, Free
<1>9. Step(p, Idle, s)
  BY <1>1, <1>3, <1>8, Single DEF SInv, TInv
<1>10. job'[p] = Idle /\ store' = s /\ Kept({p, Watches})
  BY <1>9 DEF Step
<1>11. Connected /\ s.state # "DISCONNECTED"
  BY <1>1, <1>7, AtWork DEF Connected
<1>12. TInv'
  <2>1. JobOK(p)'
    BY <1>10, IdleOK
  <2> QED
    BY <1>1, <1>3, <1>7, <1>8, <1>9, <1>11, <2>1, TypesStay DEF Busy
<1>13. Settling' => Settling
  BY <1>1, <1>11, NowSame DEF Settling
<1>14. ASSUME Settling, ~moved, SelInv, ExcInv, GraphInv PROVE ExcInv' /\ GraphInv'
  <2>1. /\ halted /\ Now' = Now /\ stops'[Now'] = stops[Now]
        /\ store.exc = stops[Now].exc /\ store.thread = stops[Now].thread
        /\ store.state = "PAUSED"
    BY <1>1, <1>14, NowSame DEF Settling, SettlingInv
  <2>2. ~Lost(p)'
    BY <1>8, <1>10 DEF Lost, Graphs
  <2>3. GraphInv'
    <3>1. Tasks(Now) \notin {p, Watches} /\ Tasks(Now) \in Jobs
      BY <1>3, <2>1, StopJobs
    <3>2. \A q \in {p, Watches} : ~Lost(q)'
      BY <2>2, WatchesQuiet
    <3> QED
      BY <1>1, <1>7, <1>10, <1>14, <3>1, <3>2, GraphKept
  <2>4. ExcInv'
    <3>1. CASE stops[Now].exc
      <4>1. got = Now
        BY <2>1, <3>1
      <4> HIDE DEF got
      <4>2. CASE s.info = Now
        BY <1>10, <2>1, <3>1, <4>2 DEF ExcInv
      <4>3. CASE s.info # Now
        <5>1. ~InfoWanted(p) /\ s.info = store.info
          BY <1>7, <4>1, <4>3
        <5>2. p # Info(Now)
          BY <1>4, <2>1, <3>1, <5>1, <1>2, Classes, StopJobs DEF InfoWanted
        <5>3. job[Info(Now)].at = "exceptionInfo"
          BY <1>14, <3>1, <4>3, <5>1 DEF ExcInv
        <5>4. job'[Info(Now)] = job[Info(Now)]
          BY <1>10, <2>1, <5>2, StopJobs DEF Kept
        <5> QED
          BY <2>1, <3>1, <5>3, <5>4 DEF ExcInv
      <4> QED
        BY <4>2, <4>3
    <3>2. CASE ~stops[Now].exc
      <4>1. ~InfoWanted(p)
        BY <2>1, <3>2 DEF InfoWanted
      <4>2. s.info = store.info
        BY <1>7, <4>1
      <4> QED
        BY <1>10, <1>14, <2>1, <3>2, <4>2 DEF ExcInv
    <3> QED
      BY <3>1, <3>2
  <2> QED
    BY <2>3, <2>4
<1>15. SettlingInv'
  <2>1. ~Loads(p) /\ ~Gets(p) /\ Idle.at # "stackTrace"
    BY <1>1, <1>8 DEF Loads, Gets
  <2> QED
    BY <1>1, <1>3, <1>7, <1>9, <1>13, <1>14, <2>1, Background
<1> QED
  BY <1>12, <1>15

-----------------------------------------------------------------------------
(* Failures *)

(* The job of the watches ends: nobody else is concerned. *)
LEMMA WatchesEnd ==
  ASSUME SInv, SInv', TInv, SettlingInv, job[Watches].at \notin {"idle", "start"},
         Keep(Then(Watches, Idle), Gone(Watches)), Settling' => Settling,
         UNCHANGED <<stops, halted, events, handled, moved>>
  PROVE  TInv' /\ SettlingInv'
<1> DEFINE P == {Watches}
           p == Handler
<1>1. store' = store /\ job' = [job EXCEPT ![Watches] = Idle] /\ wire' = Gone(Watches)
  BY DEF Keep, Then
<1>2. /\ wire' \in Seq(Jobs) /\ IsInjective(wire')
      /\ Range(wire') = Range(wire) \ {Watches}
      /\ \A q, r : Ahead(wire', q, r) <=> Ahead(wire, q, r) /\ q # Watches /\ r # Watches
  BY <1>1, WithoutFacts DEF TInv, WireOK, Gone
<1>3. job'[Watches] = Idle /\ \A q \in Jobs : q # Watches => job'[q] = job[q]
  BY <1>1, Classes DEF SInv, JobsInv
<1>4. WireOK(job', wire')
  BY <1>2, <1>3 DEF TInv, WireOK, Idle, Free
<1>5. Kept(P)
  BY <1>2, <1>3 DEF Kept
<1>6. p \in Jobs /\ p # Watches /\ \A n : p \notin {Tasks(n), Info(n)}
  BY Classes
<1>7. Step(p, job[p], store)
  BY <1>1, <1>2, <1>3, <1>4, <1>6 DEF Step, Kept
<1>8. Connected
  BY AtWork, Classes
<1>9. TInv'
  <2>1. Now' = Now
    BY NowSame
  <2>2. JobOK(p)'
    <3>1. JobOK(p) /\ job'[p] = job[p]
      BY <1>3, <1>6 DEF TInv
    <3> HIDE DEF p
    <3> QED
      BY <2>1, <3>1 DEF JobOK
  <2>3. StoreOK(store) /\ store.state # "DISCONNECTED"
    BY <1>8 DEF TInv, Connected
  <2>4. \A n \in 1..MaxStop : p \notin {Tasks(n), Info(n)}
    BY <1>6
  <2>5. job[p].at \in {"threads", "stackTrace"} => job[p].at \in Busy
    BY DEF Busy
  <2> HIDE DEF p
  <2> QED
    BY <1>6, <1>7, <1>8, <2>2, <2>3, <2>4, <2>5, TypesStay
<1>10. SettlingInv'
  <2>1. \A q \in P : ~Loads(q) /\ ~Loads(q)' /\ ~Gets(q) /\ ~Lost(q)'
    BY WatchesQuiet
  <2>2. Handler \notin P /\ Handler \in Jobs
    BY <1>6
  <2>3. /\ store'.state = store.state /\ store'.thread = store.thread /\ store'.exc = store.exc
        /\ store'.frames = store.frames /\ store'.sel = store.sel /\ store'.locals = store.locals
        /\ store'.info = store.info /\ store'.graph = store.graph
    BY <1>1
  <2>4. ASSUME Settling, ExcInv, GraphInv PROVE ExcInv' /\ GraphInv'
    <3>1. Info(Now) \notin P /\ Info(Now) \in Jobs /\ Tasks(Now) \notin P /\ Tasks(Now) \in Jobs
      BY <2>4, StopJobs DEF Settling
    <3> HIDE DEF P
    <3>2. ExcInv'
      BY <1>5, <2>3, <2>4, <3>1, ExcKept
    <3>3. GraphInv'
      BY <1>5, <2>1, <2>3, <2>4, <3>1, GraphKept
    <3> QED
      BY <3>2, <3>3
  <2> HIDE DEF P
  <2> QED
    BY <1>5, <2>1, <2>2, <2>3, <2>4, Quietly
<1> QED
  BY <1>9, <1>10

LEMMA WatchSettles ==
  ASSUME SInv, SInv', TInv, SettlingInv, WatchAnswered
  PROVE  TInv' /\ SettlingInv'
<1>1. /\ job[Watches].at = "watch" /\ Keep(Then(Watches, Idle), Gone(Watches))
      /\ UNCHANGED <<stops, halted, events, dead, handled, clean, moved>>
  BY DEF WatchAnswered, history
<1>2. store' = store
  BY <1>1 DEF Keep
<1>3. Settling' => Settling
  BY <1>1, <1>2, NowSame DEF Settling, Connected
<1> QED
  BY <1>1, <1>3, WatchesEnd

(* What a failed request leaves *)
LEMMA FailedStep ==
  ASSUME SInv, SInv', TInv, NEW p \in Jobs, p \in Range(wire), p # Watches, Failed(p)
  PROVE  \E s : /\ Step(p, Idle, s)
                /\ s.state = store.state /\ s.thread = store.thread /\ s.exc = store.exc
                /\ s.frames = store.frames /\ s.sel = store.sel /\ s.locals = store.locals
                /\ job[p].at # "exceptionInfo" => s.info = store.info
                /\ job[p].at \notin Graphs => s.graph = store.graph
                /\ TInv'
<1>1. job[p].at \notin Free
  BY DEF TInv, WireOK
<1>2. PICK s : /\ Update(s, Then(p, Idle), Gone(p)) \/ (s = store /\ Keep(Then(p, Idle), Gone(p)))
               /\ \/ s = store
                  \/ job[p].at \in Graphs /\ s = [store EXCEPT !.graph = Error]
                  \/ job[p].at = "exceptionInfo" /\ s = [store EXCEPT !.info = None]
  <2>1. CASE job[p].at \in {"define", "call"}
    <3> DEFINE s == IF SameStop(p) THEN [store EXCEPT !.graph = Error] ELSE store
    <3>1. Update(s, Then(p, Idle), Gone(p))
      BY <2>1 DEF Failed
    <3> QED
      BY <2>1, <3>1 DEF Graphs
  <2>2. CASE job[p].at = "exceptionInfo"
    <3> DEFINE s == IF InfoWanted(p) THEN [store EXCEPT !.info = None] ELSE store
    <3>1. Update(s, Then(p, Idle), Gone(p))
      BY <2>2 DEF Failed
    <3> QED
      BY <2>2, <3>1
  <2>3. CASE job[p].at \notin {"define", "call", "exceptionInfo"}
    <3>1. Keep(Then(p, Idle), Gone(p))
      BY <2>3 DEF Failed
    <3> QED
      BY <3>1
  <2> QED
    BY <2>1, <2>2, <2>3
<1>3. Idle.at = "idle" /\ Idle.at \in Free /\ Idle.at \notin Busy
  BY DEF Idle, Free, Busy
<1>4. Step(p, Idle, s)
  BY <1>2, <1>3, Single DEF SInv, TInv
<1>5. /\ s.state = store.state /\ s.thread = store.thread /\ s.exc = store.exc
      /\ s.frames = store.frames /\ s.sel = store.sel /\ s.locals = store.locals
      /\ job[p].at # "exceptionInfo" => s.info = store.info
      /\ job[p].at \notin Graphs => s.graph = store.graph
  <2>1. Honest(store)
    BY DEF SInv
  <2>2. CASE s = store
    BY <2>2
  <2>3. CASE job[p].at \in Graphs /\ s = [store EXCEPT !.graph = Error]
    BY <2>1, <2>3, GraphField
  <2>4. CASE job[p].at = "exceptionInfo" /\ s = [store EXCEPT !.info = None]
    BY <2>1, <2>4, InfoField
  <2> QED
    BY <1>2, <2>2, <2>3, <2>4
<1>6. StoreOK(s)
  <2>1. StoreOK(store)
    BY DEF TInv
  <2> QED
    BY <1>5, <2>1 DEF StoreOK
<1>7. Connected /\ s.state # "DISCONNECTED"
  <2>1. Connected
    BY <1>1, AtWork DEF Free
  <2> QED
    BY <1>5, <2>1 DEF Connected
<1>8. JobOK(p)'
  BY <1>4, IdleOK DEF Step
<1>9. UNCHANGED <<stops, halted, events, handled>>
  BY DEF Failed
<1>10. job[p].at # "idle"
  BY <1>1 DEF Free
<1>11. TInv'
  BY <1>3, <1>4, <1>6, <1>7, <1>8, <1>9, <1>10, TypesStay
<1> QED
  BY <1>4, <1>5, <1>11

(* What is refused was of another stop, and nothing of this one. *)
LEMMA RefusedSettles ==
  ASSUME SInv, SInv', TInv, SettlingInv, NEW p \in Jobs, Refused(p)
  PROVE  TInv' /\ SettlingInv'
<1>1. /\ First(p) /\ Failed(p)
      /\ job[p].at \in {"stackTrace", "scopes", "define", "call", "variables"}
      /\ dead' = (dead \/ (p = Handler /\ job[p].at # "continue"))
      /\ UNCHANGED <<stops, halted, events, handled, clean, moved>>
  BY DEF Refused, Failed
<1>2. p \in Range(wire)
  BY <1>1, FirstOfKind
<1>3. p # Watches /\ \A n : p # Info(n)
  <2>1. p # Watches
    BY <1>1, NotWatches
  <2> QED
    BY <1>1, <2>1, AtSays, Classes DEF Graphs
<1>4. PICK s : /\ Step(p, Idle, s)
               /\ s.state = store.state /\ s.thread = store.thread /\ s.exc = store.exc
               /\ s.frames = store.frames /\ s.sel = store.sel /\ s.locals = store.locals
               /\ job[p].at # "exceptionInfo" => s.info = store.info
               /\ job[p].at \notin Graphs => s.graph = store.graph
               /\ TInv'
  BY <1>1, <1>2, <1>3, FailedStep
<1>5. job'[p] = Idle /\ store' = s /\ Kept({p, Watches}) /\ Idle.at = "idle"
  BY <1>4 DEF Step, Idle
<1>6. ASSUME Settling' PROVE SettlingInv'
  <2>1. /\ Settling /\ halted /\ p # Handler /\ Now' = Now /\ stops'[Now'] = stops[Now]
        /\ Place' = Place
    <3>1. ~dead' /\ halted' /\ handled' = Now' /\ clean' /\ Connected'
      BY <1>6 DEF Settling
    <3>2. ~dead /\ p # Handler
      BY <1>1, <3>1
    <3> QED
      BY <1>1, <1>4, <1>5, <3>1, <3>2, NowSame, StopSame DEF Settling, Connected
  <2>2. /\ job[p].at \in {"scopes", "define", "call", "variables"}
        /\ job[p].at \in {"scopes", "define", "call"} => ~Serves(job[p].frame)
        /\ job[p].at = "variables" => job[p].of # Now
    BY <2>1 DEF Refused
  <2>3. ~Loads(p) /\ ~Lost(p)'
    BY <1>5, <2>2 DEF Loads, Lost, Graphs
  <2>4. Settling /\ job[Handler].at \notin {"threads", "stackTrace"} => ~Gets(p)
    <3> SUFFICES ASSUME job[Handler].at \notin {"threads", "stackTrace"}, Gets(p) PROVE FALSE
      OBVIOUS
    <3>1. SelInv
      BY <2>1 DEF SettlingInv
    <3>2. Serves(store.sel)
      BY <2>1, <3>1 DEF SelInv, Serves, Frames, Place
    <3> QED
      BY <2>2, <3>2 DEF Gets
  <2>5. ASSUME ExcInv, GraphInv PROVE ExcInv' /\ GraphInv'
    <3>1. CASE job[p].at \notin Graphs
      <4>1. \A n : p # Tasks(n)
        BY <2>2, <3>1, AtSays, Classes DEF Graphs
      <4>2. s.info = store.info /\ s.graph = store.graph
        BY <1>4, <2>2, <3>1
      <4> QED
        BY <1>1, <1>3, <1>5, <2>1, <2>3, <2>5, <4>1, <4>2, BothKept
    <3>2. CASE job[p].at \in Graphs
      <4>1. Lost(p)
        BY <2>2, <3>2 DEF Lost, Graphs
      <4>2. ExcInv'
        <5>1. Info(Now) \notin {p, Watches} /\ Info(Now) \in Jobs
          BY <1>3, <2>1, StopJobs
        <5>2. store'.info = store.info
          BY <1>4, <1>5, <2>2
        <5> QED
          BY <1>1, <1>5, <2>5, <5>1, <5>2, ExcKept
      <4>3. PICK t \in Jobs : t = Tasks(Now)
        BY <2>1, StopJobs
      <4>4. t # p /\ t # Watches
        BY <2>1, <2>5, <3>2, <4>1, <4>3, StopJobs DEF GraphInv, Graphs
      <4>5. job'[t] = job[t] /\ t = Tasks(Now')
        BY <1>5, <2>1, <4>3, <4>4 DEF Kept
      <4>6. \A q \in Jobs : Lost(q)' => Lost(q) /\ q \notin {p, Watches}
        BY <1>1, <1>5, <2>1, <2>3, WatchesQuiet DEF Kept, Lost, Serves
      <4>7. CASE job[t].at = "start"
        BY <4>2, <4>5, <4>7 DEF GraphInv
      <4>8. CASE /\ job[t].at \in Graphs /\ ~Lost(t)
                 /\ job[t].thread = stops[Now].thread
                 /\ \A q \in Jobs : Lost(q) => job[t].at = "define" /\ Ahead(wire, q, t)
        <5>1. /\ job'[t].at \in Graphs /\ ~Lost(t)'
              /\ job'[t].thread = stops'[Now'].thread
          BY <2>1, <4>5, <4>6, <4>8
        <5>2. \A q \in Jobs : Lost(q)' => job'[t].at = "define" /\ Ahead(wire', q, t)
          BY <1>5, <4>4, <4>5, <4>6, <4>8 DEF Kept
        <5> QED
          BY <4>2, <4>5, <5>1, <5>2 DEF GraphInv
      <4> QED
        BY <2>5, <4>1, <4>2, <4>3, <4>7, <4>8 DEF GraphInv
    <3> QED
      BY <3>1, <3>2
  <2>6. Idle.at # "stackTrace"
    BY <1>5
  <2> QED
    BY <1>1, <1>3, <1>4, <2>1, <2>3, <2>4, <2>5, <2>6, Background
<1> QED
  BY <1>4, <1>6 DEF SettlingInv

LEMMA TimesOutSettles ==
  ASSUME SInv, SInv', TInv, SettlingInv, NEW p \in Jobs, TimesOut(p)
  PROVE  TInv' /\ SettlingInv'
<1>1. /\ p \in Range(wire) /\ Failed(p) /\ clean' = FALSE
      /\ UNCHANGED <<stops, halted, events, handled, moved>>
  BY DEF TimesOut, Failed
<1>2. ~Settling'
  BY <1>1 DEF Settling
<1>3. CASE p # Watches
  BY <1>1, <1>2, <1>3, FailedStep DEF SettlingInv
<1>4. CASE p = Watches
  <2>1. job[Watches].at = "watch"
    BY <1>1, <1>4 DEF SInv, WatchesInv, TInv, WireOK, Idle, Free
  <2>2. Keep(Then(Watches, Idle), Gone(Watches))
    BY <1>1, <1>4, <2>1 DEF Failed
  <2> QED
    BY <1>1, <1>2, <2>1, <2>2, WatchesEnd
<1> QED
  BY <1>3, <1>4

(* A resume that goes on after the stop it led to was handled disturbs it. *)
LEMMA WokenSettles ==
  ASSUME SInv, SInv', TInv, SettlingInv, NEW p \in Jobs, Woken(p)
  PROVE  TInv' /\ SettlingInv'
<1>1. /\ job[p].at = "woken"
      /\ clean' = (clean /\ (job[p].was = "continue" => handled = job[p].seen))
      /\ UNCHANGED <<stops, halted, events, dead, handled, moved>>
  BY DEF Woken
<1>2. p # Watches /\ \A n : p \notin {Tasks(n), Info(n)}
  BY <1>1, AtSays, Classes
<1>3. Connected /\ Idle.at = "idle" /\ Idle.at \in Free /\ Idle.at \notin Busy \cup Graphs
      /\ job[p].at \in Free \ Busy
  BY <1>1, AtWork DEF Idle, Free, Busy, Graphs
<1>4. PICK s : /\ Step(p, Idle, s)
               /\ s = Running(store) \/ (s = store /\ job[p].was # "continue")
  <2>1. CASE job[p].was = "continue"
    <3>1. Update(Running(store), Then(p, Idle), wire)
      BY <1>1, <2>1 DEF Woken
    <3>2. Step(p, Idle, Running(store))
      BY <1>2, <1>3, <3>1, Single DEF SInv, TInv
    <3> QED
      BY <3>2
  <2>2. CASE job[p].was # "continue"
    <3>1. Keep(Then(p, Idle), wire)
      BY <1>1, <2>2 DEF Woken
    <3>2. Step(p, Idle, store)
      BY <1>2, <1>3, <3>1, Single DEF SInv, TInv
    <3> QED
      BY <2>2, <3>2
  <2> QED
    BY <2>1, <2>2
<1>5. job'[p] = Idle /\ store' = s
  BY <1>4 DEF Step
<1>6. StoreOK(s) /\ s.state # "DISCONNECTED"
  <2>1. StoreOK(Running(store)) /\ Running(store).state = "RUNNING"
    BY DEF StoreOK, Running, SInv, TInv, Honest, Fields
  <2>2. StoreOK(store) /\ store.state # "DISCONNECTED"
    BY <1>3 DEF TInv, Connected
  <2> QED
    BY <1>4, <2>1, <2>2
<1>7. TInv'
  <2>1. JobOK(p)'
    BY <1>5, IdleOK
  <2>2. \A n \in 1..MaxStop : p \notin {Tasks(n), Info(n)}
    BY <1>2
  <2> QED
    BY <1>1, <1>2, <1>3, <1>4, <1>6, <2>1, <2>2, TypesStay
<1>8. ASSUME Settling' PROVE SettlingInv'
  <2>1. clean' /\ halted /\ handled = Now /\ ~dead
    BY <1>1, <1>8, NowSame DEF Settling
  <2>2. clean /\ (job[p].was = "continue" => handled = job[p].seen)
    BY <1>1, <2>1
  <2>3. Settling
    BY <1>3, <2>1, <2>2 DEF Settling
  <2>4. job[p].seen < Now
    BY <1>1, <2>1 DEF TInv, JobOK
  <2>5. handled \in Nat
    BY DEF TInv, EventsInv
  <2>6. job[p].was # "continue"
    BY <2>1, <2>2, <2>4, <2>5
  <2>7. Step(p, Idle, store)
    <3>1. CASE s = store
      BY <1>4, <3>1
    <3>2. CASE s # store
      BY <1>1, <1>4, <2>6, <1>2, <1>3, Single DEF SInv, TInv, Woken
    <3> QED
      BY <3>1, <3>2
  <2>8. \A n \in 1..MaxStop : p \notin {Tasks(n), Info(n)}
    BY <1>2
  <2> QED
    BY <1>1, <1>3, <2>3, <2>7, <2>8, Bystander
<1> QED
  BY <1>7, <1>8 DEF SettlingInv

-----------------------------------------------------------------------------
(* The debuggee and its events *)

LEMMA HaltSettles ==
  ASSUME SInv, TInv, SettlingInv, Halt
  PROVE  TInv' /\ SettlingInv'
<1> DEFINE R == [thread : Threads, exc : BOOLEAN, user : BOOLEAN, place : Places]
           E == [says : {"stopped", "continued"}, n : 1..MaxStop]
           e == [says |-> "stopped", n |-> Now + 1]
<1>1. PICK k \in Kinds : stops' = Append(stops, k)
  BY DEF Halt
<1>2. /\ Connected /\ ~halted /\ Now < MaxStop /\ halted' = TRUE
      /\ events' = Append(events, e)
      /\ UNCHANGED <<wire, job, store, wkey, dead, handled, clean, moved>>
  BY DEF Halt, history
<1>3. k \in R
  <2>1. CASE k = [thread |-> 1, exc |-> TRUE, user |-> TRUE, place |-> 1]
    BY <2>1 DEF Threads, Places
  <2>2. CASE k = [thread |-> 2, exc |-> FALSE, user |-> FALSE, place |-> 2]
    BY <2>2 DEF Threads, Places
  <2> QED
    BY <2>1, <2>2 DEF Kinds
<1>4. stops \in Seq(R) /\ events \in Seq(E)
  BY DEF TInv, EventsInv, StopsOK
<1> HIDE DEF R
<1>5. /\ stops' \in Seq(R) /\ Now \in Nat /\ Now' = Now + 1
      /\ \A i \in 1..Now : stops'[i] = stops[i]
  BY <1>1, <1>3, <1>4 DEF Now
<1>6. e \in E /\ e.says = "stopped" /\ e.n = Now + 1
  BY <1>2, <1>5, StopRefreshAssumption
<1>7. handled \in 0..Now
  BY DEF TInv, EventsInv
<1> HIDE DEF E, e
<1>8. /\ events' \in Seq(E) /\ Len(events') = Len(events) + 1 /\ Len(events) \in Nat
      /\ events'[Len(events')] = e /\ events' # <<>>
  BY <1>2, <1>4, <1>6
<1>9. \A i \in DOMAIN events' : i = Len(events') \/ (i \in DOMAIN events /\ events'[i] = events[i])
  BY <1>2, <1>4, <1>6, <1>8
<1>10. EventsInv'
  <2>1. \A i \in DOMAIN events : events[i].says = "stopped" => events[i].n \in (handled + 1)..Now
    BY DEF TInv, EventsInv
  <2>2. \A i, l \in DOMAIN events :
          i < l /\ events[i].says = "stopped" /\ events[l].says = "stopped" =>
            events[i].n < events[l].n
    BY DEF TInv, EventsInv
  <2>3. \A i \in DOMAIN events' :
          events'[i].says = "stopped" => events'[i].n \in (handled' + 1)..Now'
    BY <1>2, <1>5, <1>6, <1>7, <1>8, <1>9, <2>1
  <2>4. ASSUME NEW i \in DOMAIN events', NEW l \in DOMAIN events', i < l,
               events'[i].says = "stopped", events'[l].says = "stopped"
        PROVE  events'[i].n < events'[l].n
    <3>1. i # Len(events')
      BY <1>8, <2>4
    <3>2. i \in DOMAIN events /\ events'[i] = events[i] /\ events[i].n \in (handled + 1)..Now
      BY <1>9, <2>1, <2>4, <3>1
    <3>3. CASE l = Len(events')
      BY <1>5, <1>6, <1>7, <1>8, <3>2, <3>3
    <3>4. CASE l # Len(events')
      BY <1>9, <2>2, <2>4, <3>2, <3>4
    <3> QED
      BY <3>3, <3>4
  <2>5. StopsOK' /\ events' \in Seq([says : {"stopped", "continued"}, n : 1..MaxStop])
    BY <1>5, <1>8 DEF StopsOK, R, E
  <2>6. events'[Len(events')] = [says |-> "stopped", n |-> Now']
    BY <1>5, <1>8 DEF e
  <2>7. handled' \in 0..Now' /\ Now' <= MaxStop /\ Now' > 0
    BY <1>2, <1>5, <1>7, StopRefreshAssumption
  <2> QED
    BY <1>8, <2>3, <2>4, <2>5, <2>6, <2>7 DEF EventsInv
<1>11. ASSUME NEW q \in Jobs PROVE JobOK(q)'
  <2>1. JobOK(q) /\ job'[q] = job[q] /\ handled' = handled
    BY <1>2 DEF TInv
  <2>2. job[q].at = "woken" => job[q].seen \in 0..handled /\ job[q].seen < Now'
    BY <1>5, <1>7, <2>1 DEF JobOK
  <2> QED
    BY <2>1, <2>2 DEF JobOK
<1>12. HandlerInv'
  <2>1. handled > 0 => stops'[handled] = stops[handled]
    BY <1>5, <1>7
  <2> QED
    BY <1>2, <2>1 DEF TInv, HandlerInv
<1>13. NewInv' /\ InfoInv' /\ WireOK(job, wire)' /\ OffInv'
  BY <1>2 DEF TInv, NewInv, InfoInv, OffInv, Connected
<1>14. StoreOK(store)'
  BY <1>2, <1>5 DEF TInv, StoreOK
<1>15. ~Settling'
  BY <1>2, <1>5, <1>7 DEF Settling
<1> QED
  BY <1>10, <1>11, <1>12, <1>13, <1>14, <1>15 DEF TInv, SettlingInv

(* The event at the head is taken; a stop that is taken is the later one.  *)
LEMMA TailEvents ==
  ASSUME TInv, Connected, events # <<>>, events' = Tail(events), UNCHANGED <<stops, halted>>,
         handled' = IF Head(events).says = "stopped" THEN Head(events).n ELSE handled
  PROVE  /\ EventsInv'
         /\ Head(events).says = "stopped" => handled' \in (handled + 1)..Now
         /\ Head(events).says # "stopped" /\ halted => handled # Now
<1> DEFINE E == [says : {"stopped", "continued"}, n : 1..MaxStop]
           h == Head(events)
           size == Len(events)
<1>1. events \in Seq(E)
  BY DEF TInv, EventsInv
<1>2. /\ \A i \in DOMAIN events : events[i].says = "stopped" => events[i].n \in (handled + 1)..Now
      /\ \A i, k \in DOMAIN events :
           i < k /\ events[i].says = "stopped" /\ events[k].says = "stopped" =>
             events[i].n < events[k].n
      /\ halted => events[size] = [says |-> "stopped", n |-> Now]
      /\ handled \in 0..Now /\ Now <= MaxStop /\ (halted => Now > 0) /\ StopsOK
  BY DEF TInv, EventsInv
<1>3. Now \in Nat /\ Now' = Now
  BY <1>2, NowSame DEF StopsOK, Now
<1> HIDE DEF E
<1>4. size \in Nat \ {0} /\ DOMAIN events = 1..size /\ h = events[1]
  BY <1>1
<1>5. /\ events' \in Seq(E) /\ Len(events') = size - 1 /\ DOMAIN events' = 1..(size - 1)
      /\ \A i \in 1..(size - 1) : events'[i] = events[i + 1]
  BY <1>1
<1> HIDE DEF h, size
<1>6. h.says = "stopped" => handled' = h.n /\ h.n \in (handled + 1)..Now
  BY <1>2, <1>4 DEF h
<1>7. h.says # "stopped" => handled' = handled
  BY DEF h
<1>8. ASSUME NEW i \in DOMAIN events', events'[i].says = "stopped"
      PROVE  events'[i].n \in (handled' + 1)..Now'
  <2>1. i + 1 \in DOMAIN events /\ events'[i] = events[i + 1] /\ 1 \in DOMAIN events /\ 1 < i + 1
    BY <1>4, <1>5
  <2>2. events[i + 1].n \in (handled + 1)..Now
    BY <1>2, <1>8, <2>1
  <2>3. CASE h.says = "stopped"
    <3>1. h.n < events[i + 1].n
      BY <1>2, <1>4, <1>8, <2>1, <2>3
    <3> QED
      BY <1>2, <1>3, <1>6, <2>1, <2>2, <2>3, <3>1
  <2>4. CASE h.says # "stopped"
    BY <1>3, <1>7, <2>1, <2>2, <2>4
  <2> QED
    BY <2>3, <2>4
<1>9. ASSUME NEW i \in DOMAIN events', NEW k \in DOMAIN events', i < k,
             events'[i].says = "stopped", events'[k].says = "stopped"
      PROVE  events'[i].n < events'[k].n
  <2>1. /\ i + 1 \in DOMAIN events /\ events'[i] = events[i + 1]
        /\ k + 1 \in DOMAIN events /\ events'[k] = events[k + 1]
        /\ i + 1 < k + 1
    BY <1>4, <1>5, <1>9
  <2> QED
    BY <1>2, <1>9, <2>1
<1>10. ASSUME halted, events' = <<>> PROVE h = [says |-> "stopped", n |-> Now]
  BY <1>2, <1>4, <1>5, <1>10
<1>11. ASSUME halted, events' # <<>> PROVE events'[Len(events')] = [says |-> "stopped", n |-> Now']
  <2>1. Len(events') \in 1..(size - 1) /\ Len(events') + 1 = size
    <3>1. Len(events') # 0
      BY <1>5, <1>11
    <3> QED
      BY <1>4, <1>5, <3>1
  <2>2. events'[Len(events')] = events[size]
    BY <1>5, <2>1
  <2> QED
    BY <1>2, <1>3, <1>11, <2>2
<1>12. handled' \in 0..Now'
  BY <1>2, <1>3, <1>6, <1>7
<1>13. EventsInv'
  <2>1. StopsOK' /\ events' \in Seq([says : {"stopped", "continued"}, n : 1..MaxStop])
    BY <1>2, <1>5 DEF StopsOK, E
  <2>2. halted' => IF events' = <<>> THEN handled' = Now'
                   ELSE events'[Len(events')] = [says |-> "stopped", n |-> Now']
    <3>1. CASE events' = <<>>
      BY <1>3, <1>6, <1>10, <3>1
    <3>2. CASE events' # <<>>
      BY <1>11, <3>2
    <3> QED
      BY <3>1, <3>2
  <2> QED
    BY <1>2, <1>3, <1>8, <1>9, <1>12, <2>1, <2>2 DEF EventsInv
<1>14. ASSUME halted, h.says # "stopped" PROVE handled # Now
  <2>1. size \in DOMAIN events /\ events[size].says = "stopped" /\ events[size].n = Now
    BY <1>2, <1>4, <1>14
  <2>2. Now \in (handled + 1)..Now
    BY <1>2, <2>1
  <2> QED
    BY <1>2, <1>3, <2>2
<1> QED
  BY <1>6, <1>13, <1>14 DEF h

LEMMA ContinuedSettles ==
  ASSUME SInv, SInv', TInv, SettlingInv, TakeEvent, Continued
  PROVE  TInv' /\ SettlingInv'
<1> DEFINE s == [Running(store) EXCEPT !.exc = FALSE, !.info = None, !.graph = None]
<1>1. /\ Connected /\ events # <<>> /\ job[Handler] = Idle /\ events' = Tail(events)
      /\ Head(events).says = "continued" /\ Update(s, job, wire)
      /\ UNCHANGED <<stops, halted, dead, handled, clean, moved>>
  BY DEF TakeEvent, Continued, history
<1>2. Head(events).says # "stopped"
  BY <1>1
<1>3. EventsInv' /\ (halted => handled # Now)
  BY <1>1, <1>2, TailEvents
<1>4. StoreOK(s) /\ s.state = "RUNNING"
  <2>1. Honest(Running(store)) /\ Running(store).state = "RUNNING"
    BY RunningHonest DEF SInv, Running, Honest, Fields
  <2>2. StoreOK(Running(store))
    BY DEF StoreOK, Running, SInv, TInv, Honest, Fields
  <2> QED
    BY <2>1, <2>2 DEF StoreOK, Honest, Fields
<1> HIDE DEF s
<1>5. Step(Handler, Idle, s)
  <2>1. job = [q \in Jobs |-> job[q]] /\ WireOK(job, wire)
    BY DEF SInv, JobsInv, TInv
  <2>2. /\ store' = s /\ WireOK(job', wire')
        /\ \A q \in Jobs : q # Watches => job'[q] = job[q]
        /\ \A q, r : q # Watches /\ r # Watches => (Ahead(wire', q, r) <=> Ahead(wire, q, r))
    BY <1>1, <2>1, UpdateView
  <2> QED
    BY <1>1, <2>2, Classes DEF Step, Kept
<1>6. job'[Handler] = Idle /\ store' = s
  BY <1>5 DEF Step
<1>7. TInv'
  <2>1. JobOK(Handler)'
    BY <1>6, IdleOK, Classes
  <2>2. OffInv'
    BY <1>4, <1>6 DEF OffInv, Connected
  <2>3. Idle.at \notin Busy /\ (halted' => halted)
    BY <1>1 DEF Idle, Busy
  <2> QED
    BY <1>1, <1>3, <1>4, <1>5, <2>1, <2>2, <2>3, TypesKept, Classes
<1>8. ~Settling'
  BY <1>1, <1>3, NowSame DEF Settling
<1> QED
  BY <1>7, <1>8 DEF SettlingInv

LEMMA StoppedSettles ==
  ASSUME SInv, SInv', TInv, SettlingInv, TakeEvent, Stopped
  PROVE  TInv' /\ SettlingInv'
<1>1. PICK n : n = Head(events).n
  OBVIOUS
<1> DEFINE t == stops[n].thread
           s == [store EXCEPT !.state = "PAUSED", !.thread = t, !.exc = stops[n].exc]
           j == [at |-> "threads", thread |-> t, n |-> n]
<1>2. /\ Connected /\ events # <<>> /\ job[Handler] = Idle /\ events' = Tail(events)
      /\ Head(events).says = "stopped" /\ handled' = n /\ moved' = FALSE
      /\ Update(s, Then(Handler, j), Sent(Handler))
      /\ UNCHANGED <<stops, halted, dead>>
  BY <1>1 DEF TakeEvent, Stopped
<1>3. EventsInv' /\ n \in (handled + 1)..Now
  BY <1>1, <1>2, TailEvents
<1>4. handled \in Nat /\ n \in 1..Now /\ n > handled /\ Now \in Nat /\ Now <= MaxStop
  BY <1>3 DEF TInv, EventsInv, StopsOK, Now
<1>5. t \in Threads
  <2> DEFINE R == [thread : Threads, exc : BOOLEAN, user : BOOLEAN, place : Places]
  <2>1. stops \in Seq(R)
    BY DEF TInv, EventsInv, StopsOK
  <2> HIDE DEF R
  <2>2. stops[n] \in R
    BY <1>4, <2>1 DEF Now
  <2> QED
    BY <2>2 DEF R
<1>6. /\ s.state = "PAUSED" /\ s.thread = t /\ s.exc = stops[n].exc
      /\ s.frames = store.frames /\ s.sel = store.sel
  BY DEF SInv, Honest, Fields
<1>7. StoreOK(s)
  BY <1>5, <1>6 DEF TInv, StoreOK
<1>8. j.at = "threads" /\ j.thread = t /\ j.n = n /\ j.at \notin Free /\ Idle.at \in Free
  BY DEF Idle, Free
<1>9. Step(Handler, j, s)
  <2> HIDE DEF j, s
  <2> QED
    BY <1>2, <1>8, Classes, Single DEF SInv, TInv
<1>10. job'[Handler] = j /\ store' = s /\ WireOK(job', wire') /\ Kept({Handler, Watches})
  BY <1>9 DEF Step
<1> HIDE DEF s
<1>11. Now' = Now
  BY <1>2, NowSame
<1>12. TInv'
  <2>1. ASSUME NEW q \in Jobs PROVE JobOK(q)'
    <3>1. CASE q = Handler
      <4>1. "threads" \in May(Handler)
        BY MayBe DEF Busy
      <4> QED
        BY <1>5, <1>10, <3>1, <4>1 DEF JobOK, Graphs
    <3>2. CASE q = Watches
      <4>1. job'[Watches] = Idle \/ job'[Watches] = [at |-> "watch", frame |-> wkey']
        BY DEF SInv, WatchesInv
      <4>2. /\ job'[Watches].at \in {"idle", "watch"}
            /\ job'[Watches].at = "idle" => job'[Watches] = Idle
        BY <4>1 DEF Idle
      <4>3. May(Watches) = {"idle", "watch"}
        BY Classes DEF May
      <4> QED
        BY <3>2, <4>2, <4>3 DEF JobOK, Graphs
    <3>3. CASE q \notin {Handler, Watches}
      <4>1. job'[q] = job[q] /\ JobOK(q)
        BY <1>10, <3>3 DEF Kept, TInv
      <4>2. job[q].at = "woken" =>
              job[q].seen \in 0..handled' /\ (halted' => job[q].seen < Now')
        BY <1>2, <1>4, <1>11, <4>1 DEF JobOK
      <4> QED
        BY <4>1, <4>2 DEF JobOK
    <3> QED
      BY <3>1, <3>2, <3>3
  <2>2. HandlerInv'
    BY <1>2, <1>4, <1>8, <1>10 DEF HandlerInv
  <2>3. NewInv'
    <3> SUFFICES ASSUME NEW m \in 1..MaxStop, m > handled' \/ m = handled'
                 PROVE  job'[Tasks(m)] = Idle /\ job'[Info(m)] = Idle
      BY DEF NewInv
    <3>1. m > handled
      BY <1>2, <1>4
    <3>2. job[Tasks(m)] = Idle /\ job[Info(m)] = Idle
      BY <3>1 DEF TInv, NewInv
    <3> QED
      BY <1>10, <3>2, Classes DEF Kept
  <2>4. InfoInv'
    <3> SUFFICES ASSUME NEW m \in 1..MaxStop, job'[Info(m)].at # "idle" PROVE job'[Info(m)].n = m
      BY DEF InfoInv
    <3>1. job'[Info(m)] = job[Info(m)]
      BY <1>10, Classes DEF Kept
    <3> QED
      BY <3>1 DEF TInv, InfoInv
  <2>5. StoreOK(store)' /\ OffInv'
    BY <1>6, <1>7, <1>10, <1>11 DEF StoreOK, OffInv, Connected
  <2> QED
    BY <1>3, <1>10, <2>1, <2>2, <2>3, <2>4, <2>5 DEF TInv
<1>13. ASSUME Settling' PROVE SettlingInv'
  <2>1. n = Now' /\ stops'[Now'] = stops[n]
    BY <1>2, <1>13 DEF Settling
  <2>2. /\ store'.state = "PAUSED" /\ store'.exc = stops'[Now'].exc
        /\ store'.thread = stops'[Now'].thread /\ job'[Handler].at = "threads"
    BY <1>6, <1>8, <1>10, <2>1
  <2> QED
    BY <1>2, <2>2 DEF SettlingInv, Busy
<1> QED
  BY <1>12, <1>13 DEF SettlingInv

LEMMA ResetSettles ==
  ASSUME SInv, SInv', TInv, SettlingInv, Reset
  PROVE  TInv' /\ SettlingInv'
<1> DEFINE jobs == [p \in Jobs |-> IF job[p].at = "start" THEN job[p] ELSE Idle]
           none == <<>>
<1>1. /\ Update(Blank, jobs, none) /\ events' = <<>>
      /\ UNCHANGED <<stops, halted, dead, handled, clean, moved>>
  BY DEF Reset, history
<1>2. \A q \in Jobs : /\ jobs[q] = Idle \/ (jobs[q] = job[q] /\ job[q].at = "start")
                      /\ jobs[q].at \in {"idle", "start"}
  BY DEF Idle
<1>3. jobs = [q \in Jobs |-> jobs[q]]
  OBVIOUS
<1> HIDE DEF jobs
<1>4. none \in Seq(Jobs) /\ IsInjective(none) /\ Range(none) = {}
  BY DEF IsInjective, Range
<1> HIDE DEF none
<1>5. WireOK(jobs, none)
  BY <1>2, <1>4 DEF WireOK, Free
<1>6. /\ store' = Blank /\ WireOK(job', wire')
      /\ \A q \in Jobs : q # Watches => job'[q] = jobs[q]
  BY <1>1, <1>3, <1>5, UpdateView
<1>7. job'[Watches].at \in {"idle", "start"}
  <2>1. EvalKey(Blank) = Off
    BY DEF EvalKey, Blank
  <2>2. job' = jobs \/ job' = [jobs EXCEPT ![Watches] = Idle]
    BY <1>1, <2>1 DEF Update
  <2> QED
    BY <1>2, <1>3, <2>2, Classes DEF Idle
<1>8. \A q \in Jobs : job'[q].at \in {"idle", "start"}
  BY <1>2, <1>6, <1>7
<1>9. ~Connected'
  BY <1>6 DEF Connected, Blank
<1>10. ASSUME NEW q \in Jobs PROVE JobOK(q)'
  <2>1. CASE q = Watches
    <3>1. job'[Watches] = Idle \/ job'[Watches] = [at |-> "watch", frame |-> wkey']
      BY DEF SInv, WatchesInv
    <3>2. job'[q] = Idle
      BY <1>7, <2>1, <3>1
    <3> QED
      BY <3>2, IdleOK
  <2>2. CASE q # Watches
    <3>1. CASE job'[q] = Idle
      BY <3>1, IdleOK
    <3>2. CASE job'[q] # Idle
      <4>1. job'[q] = job[q] /\ job[q].at = "start" /\ JobOK(q)
        BY <1>2, <1>6, <2>2, <3>2 DEF TInv
      <4> QED
        BY <4>1 DEF JobOK, Graphs
    <3> QED
      BY <3>1, <3>2
  <2> QED
    BY <2>1, <2>2
<1>11. HandlerInv' /\ OffInv'
  BY <1>1, <1>8, Classes DEF HandlerInv, OffInv, Busy
<1>12. \A q \in Jobs : q # Watches /\ job[q] = Idle => job'[q] = Idle
  BY <1>2, <1>6
<1>13. NewInv'
  <2> SUFFICES ASSUME NEW n \in 1..MaxStop, n > handled
               PROVE  job'[Tasks(n)] = Idle /\ job'[Info(n)] = Idle
    BY <1>1, <1>8, Classes DEF NewInv, Busy
  <2>1. job[Tasks(n)] = Idle /\ job[Info(n)] = Idle
    BY DEF TInv, NewInv
  <2> QED
    BY <1>12, <2>1, Classes
<1>14. InfoInv'
  <2> SUFFICES ASSUME NEW n \in 1..MaxStop, job'[Info(n)].at # "idle" PROVE FALSE
    BY DEF InfoInv
  <2>1. job[Info(n)].at = "start"
    BY <1>2, <1>6, Classes DEF Idle
  <2>2. job[Info(n)].at \in {"idle", "exceptionInfo"}
    <3>1. Info(n) \in Jobs
      BY Classes
    <3> QED
      BY <3>1, MayBe DEF TInv, JobOK
  <2> QED
    BY <2>1, <2>2
<1>15. StoreOK(store)'
  BY <1>6 DEF StoreOK, Blank
<1>16. EventsInv'
  <2>1. Now' = Now
    BY <1>1, NowSame
  <2>2. events' \in Seq([says : {"stopped", "continued"}, n : 1..MaxStop]) /\ DOMAIN events' = {}
    BY <1>1
  <2> QED
    BY <1>1, <1>9, <2>1, <2>2 DEF TInv, EventsInv, StopsOK
<1>17. ~Settling'
  BY <1>9 DEF Settling
<1> QED
  BY <1>6, <1>10, <1>11, <1>13, <1>14, <1>15, <1>16, <1>17 DEF TInv, SettlingInv

-----------------------------------------------------------------------------
QInv == SInv /\ TInv /\ SettlingInv

LEMMA QInit == Init => QInv
<1> SUFFICES ASSUME Init PROVE QInv
  OBVIOUS
<1>1. \A p \in Jobs : job[p] = Idle
  BY DEF Init
<1>2. WireOK(job, wire)
  <2>1. wire = <<>> /\ Idle.at \in Free
    BY DEF Init, Idle, Free
  <2> HIDE DEF Init
  <2>2. wire \in Seq(Jobs) /\ IsInjective(wire) /\ Range(wire) = {}
    BY <2>1 DEF IsInjective, Range
  <2> QED
    BY <1>1, <2>1, <2>2 DEF WireOK
<1>3. ASSUME NEW p \in Jobs PROVE JobOK(p)
  <2>1. "idle" \in May(p)
    BY DEF May
  <2> QED
    BY <1>1, <2>1 DEF JobOK, Idle, Graphs
<1>4. HandlerInv /\ NewInv /\ InfoInv
  BY <1>1, Classes DEF HandlerInv, NewInv, InfoInv, Idle, Busy
<1>5. store.state = "RUNNING" /\ store.thread = 1 /\ store.sel = None /\ store.frames = None
  BY DEF Init, Blank
<1>6. StoreOK(store) /\ OffInv
  BY <1>5 DEF StoreOK, OffInv, Connected, Threads
<1>7. EventsInv /\ ~halted
  <2>1. stops = <<>> /\ events = <<>> /\ handled = 0 /\ halted = FALSE
    BY DEF Init
  <2>2. Now = 0
    BY <2>1 DEF Now
  <2>3. /\ StopsOK /\ events \in Seq([says : {"stopped", "continued"}, n : 1..MaxStop])
        /\ DOMAIN events = {}
    BY <2>1 DEF StopsOK
  <2> QED
    BY <2>1, <2>2, <2>3, StopRefreshAssumption DEF EventsInv
<1> QED
  BY <1>2, <1>3, <1>4, <1>6, <1>7, SInit DEF QInv, TInv, SettlingInv, Settling

LEMMA QStep == QInv /\ [Next]_vars => QInv'
<1> SUFFICES ASSUME SInv, TInv, SettlingInv, [Next]_vars PROVE QInv'
  BY DEF QInv
<1>1. SInv'
  BY SStep
<1>2. CASE UNCHANGED vars
  <2>1. /\ store' = store /\ job' = job /\ wire' = wire
        /\ UNCHANGED <<stops, halted, events, dead, handled, clean, moved>>
    BY <1>2 DEF vars, history
  <2>2. Now' = Now /\ Place' = Place
    BY <2>1, StopSame
  <2>3. TInv'
    <3>1. \A p \in Jobs : JobOK(p)'
      BY <2>1, <2>2 DEF TInv, JobOK
    <3>2. EventsInv'
      BY <2>1, EventsSame DEF Connected
    <3> QED
      BY <2>1, <2>2, <3>1, <3>2 DEF TInv, HandlerInv, NewInv, InfoInv, StoreOK, OffInv, Connected
  <2>4. SettlingInv'
    <3> DEFINE P == {Watches}
    <3>1. Kept(P)
      BY <2>1 DEF Kept
    <3>2. \A q \in P : ~Loads(q) /\ ~Loads(q)' /\ ~Gets(q)
      BY <1>1, WatchesQuiet
    <3>3. Handler \in Jobs /\ Handler \notin P
      BY Classes
    <3>4. Settling' => Settling
      BY <2>1, <2>2 DEF Settling, Connected
    <3>5. ASSUME Settling, ExcInv, GraphInv PROVE ExcInv' /\ GraphInv'
      <4>1. Info(Now) \notin P /\ Info(Now) \in Jobs /\ Tasks(Now) \notin P /\ Tasks(Now) \in Jobs
        BY <3>5, StopJobs DEF Settling
      <4>2. \A q \in P : ~Lost(q)'
        BY <1>1, WatchesQuiet
      <4> HIDE DEF P
      <4>3. ExcInv'
        BY <2>1, <3>1, <3>5, <4>1, ExcKept
      <4>4. GraphInv'
        BY <2>1, <3>1, <3>5, <4>1, <4>2, GraphKept
      <4> QED
        BY <4>3, <4>4
    <3> HIDE DEF P
    <3> QED
      BY <2>1, <3>1, <3>2, <3>3, <3>4, <3>5, Quietly
  <2> QED
    BY <1>1, <2>3, <2>4 DEF QInv
<1>3. CASE Halt
  BY <1>1, <1>3, HaltSettles DEF QInv
<1>4. CASE TakeEvent
  <2>1. Continued \/ Stopped
    BY <1>4 DEF TakeEvent
  <2> QED
    BY <1>1, <1>4, <2>1, ContinuedSettles, StoppedSettles DEF QInv
<1>5. CASE Reset
  BY <1>1, <1>5, ResetSettles DEF QInv
<1>6. ASSUME NEW u \in Users, Go(u) \/ SelectFrame(u) \/ SelectThread(u) \/ RefreshTasks(u)
      PROVE  QInv'
  BY <1>1, <1>6, GoSettles, SelectFrameSettles, SelectThreadSettles, RefreshTasksSettles DEF QInv
<1>7. ASSUME NEW p \in Jobs, Answer(p) PROVE QInv'
  BY <1>1, <1>7, MovesSettles, ThreadsSettle, FramesSettle, ScopesSettle, VariablesSettle,
     TasksAnsweredSettles, InfoSettles, RefusedSettles, TimesOutSettles, WatchSettles
     DEF QInv, Answer
<1>8. ASSUME NEW p \in Jobs, Runs(p) PROVE QInv'
  BY <1>1, <1>8, WokenSettles, TasksStartedSettles DEF QInv, Runs
<1> QED
  BY <1>2, <1>3, <1>4, <1>5, <1>6, <1>7, <1>8 DEF Next

LEMMA QInvariance == Spec => []QInv
BY QInit, QStep, PTL DEF Spec

(* The adapter has one request of each job that waits for an answer, and   *)
(* the variables have their types, for any number of commands and stops.   *)
THEOREM StopRefreshTypeCorrect == Spec => []TypeOK
<1>1. QInv => TypeOK
  <2> SUFFICES ASSUME QInv PROVE TypeOK
    OBVIOUS
  <2>1. wire \in Seq(Jobs) /\ IsInjective(wire)
        /\ \A p \in Jobs : p \in Range(wire) <=> job[p].at \notin {"idle", "start", "woken"}
    BY DEF QInv, TInv, WireOK, Free
  <2>2. StopsOK /\ events \in Seq([says : {"stopped", "continued"}, n : 1..MaxStop])
        /\ handled \in 0..Now
    BY DEF QInv, TInv, EventsInv
  <2>3. /\ store.state \in {"DISCONNECTED", "RUNNING", "PAUSED"}
        /\ store.thread \in Threads \cup {None}
        /\ store.sel \in Frame \cup {None}
    BY DEF QInv, TInv, StoreOK
  <2> QED
    BY <2>1, <2>2, <2>3 DEF TypeOK, StopsOK, Now
<1> QED
  BY <1>1, QInvariance, PTL

(* Once nothing is on its way, the session shows the stop the debuggee is  *)
(* at, whatever answers, events and commands of earlier stops came in      *)
(* between: its thread, its frames, the locals of the frame selected, its  *)
(* exception and its tasks.                                                *)
THEOREM QuietStopIsShown == Spec => []QuietStopShown
<1>1. QInv => QuietStopShown
  <2> SUFFICES ASSUME SInv, TInv, SettlingInv, Quiet PROVE QuietStopShown
    BY DEF QInv, QuietStopShown
  <2>1. Settling /\ \A p \in Jobs : job[p].at = "idle"
    BY DEF Quiet, Settling, Idle
  <2>2. job[Handler].at = "idle"
    BY <2>1, Classes
  <2>3. \A p \in Jobs : ~Loads(p) /\ ~Gets(p)
    BY <2>1 DEF Loads, Gets
  <2>4. /\ store.state = "PAUSED" /\ FramesInv /\ LocalsInv /\ SelInv
        /\ ~moved => ExcInv /\ GraphInv
    BY <2>1, <2>2 DEF SettlingInv, Busy
  <2>5. /\ store.frames = [n |-> Now, top |-> Top(store.thread, Place)]
        /\ store.locals = [n |-> Now, frame |-> store.sel]
    BY <2>3, <2>4 DEF FramesInv, LocalsInv
  <2>6. store.frames.n = Now /\ store.frames.top = Top(store.thread, Place)
        /\ store.frames.top[1] = store.thread
    BY <2>5 DEF Top
  <2>7. store.frames # None /\ store.sel \in Frames(store.thread, stops[Now].place)
    BY <2>4, <2>6 DEF SelInv, Place
  <2>8. ~moved => store.info = IF stops[Now].exc THEN Now ELSE None
    <3>1. Info(Now) \in Jobs
      BY <2>1, StopJobs DEF Settling
    <3> QED
      BY <2>1, <2>4, <3>1 DEF ExcInv
  <2>9. ~moved => store.graph = Now
    <3>1. Tasks(Now) \in Jobs
      BY <2>1, StopJobs DEF Settling
    <3> QED
      BY <2>1, <2>4, <3>1 DEF GraphInv, Graphs
  <2> QED
    BY <2>4, <2>5, <2>6, <2>7, <2>8, <2>9 DEF QuietStopShown
<1> QED
  BY <1>1, QInvariance, PTL

LEMMA Invariance == Spec => []SInv
BY SInit, SStep, PTL DEF Spec

(* However answers, events and commands interleave, locals are shown only  *)
(* of a debuggee that is paused.                                           *)
THEOREM LocalsOnlyPaused == Spec => []NoLocalsUnlessPaused
<1>1. SInv => NoLocalsUnlessPaused
  BY DEF SInv, Honest, NoLocalsUnlessPaused
<1> QED
  BY <1>1, Invariance, PTL

(* The watches that are shown were evaluated in the frame that is          *)
(* selected, however often it changed while they were evaluated.           *)
THEOREM WatchesOfFrame == Spec => []WatchesFollowFrame
<1>1. SInv => WatchesFollowFrame
  BY DEF SInv, WatchesInv
<1> QED
  BY <1>1, Invariance, PTL
=============================================================================
