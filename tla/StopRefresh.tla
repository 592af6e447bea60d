----------------------------- MODULE StopRefresh -----------------------------
(***************************************************************************)
(* Execution control and what is fetched after a stop                      *)
(* (plugins/debugpy.py), with the panels that show it and call it (stack,  *)
(* threads, tasks, watches).                                               *)
(*                                                                         *)
(* A job is an asyncio task that awaits an answer: the event handler, a    *)
(* command of a user, the background tasks started at a stop, and the      *)
(* evaluation of the watches.  An action is the code from one answer to    *)
(* the next request.                                                       *)
(*                                                                         *)
(* The debuggee and its adapter are external: requests to one thread are   *)
(* answered in order, a frame or a reference is served while its stop      *)
(* lasts, a frame keeps its id when the next stop is in the same place.    *)
(* The end of a connection is told in Session; here it is one step.        *)
(* What the selection of a scope adds to _refresh_locals is in Inspector.  *)
(*                                                                         *)
(* A definition whose comment begins "Mutant" belongs to no behaviour.     *)
(***************************************************************************)
EXTENDS Naturals, Sequences, SequencesExt

CONSTANTS None,      \* nothing: no frame, no stop
          Off,       \* no evaluation of the watches
          Error,     \* a graph or a watch that could not be had
          Unavailable, \* TaskCaptureStatus.UNAVAILABLE
          Users,     \* commands that may be on their way at once
          MaxStop,   \* bound: stops of the debuggee
          MaxActs    \* bound: commands of the users and requests that time out

VARIABLES
  stops,    \* the stops so far: [thread, exc, user, place]
  halted,   \* the debuggee is stopped
  events,   \* _event_queue: what each event says, and of which stop
  wire,     \* jobs whose request is with the adapter, in the order sent
  job,      \* what each job awaits
  store,    \* the fields of the snapshot this is about
  wkey,     \* WatchesPanel._eval_key, or Off
  watch,    \* the frame the watches were evaluated in, Error, or Off
  auto,     \* _auto_resume_pending
  dead,     \* the event task has ended by an exception
  handled,  \* history: the stop whose event was handled last, 0 before
  clean,    \* history: nothing disturbed the handling of the last stop
  moved,    \* history: a thread was chosen since the last stop was handled
  acts      \* commands and time-outs so far

history == <<handled, clean, moved>>
vars == <<stops, halted, events, wire, job, store, wkey, watch, auto, dead, history, acts>>

Threads == 1..2
Places  == 1..2
Depths  == 1..2
Frame   == Threads \X Places \X Depths

ASSUME StopRefreshAssumption ==
  /\ MaxStop \in Nat /\ MaxActs \in Nat
  /\ None \notin [n : 1..MaxStop, top : Frame]

Handler  == <<"handler", 0>>
Watches  == <<"watches", 0>>
Tasks(n) == <<"tasks", n>>
Info(n)  == <<"info", n>>
User(u)  == <<"user", u>>
Commands == {User(u) : u \in Users}
Jobs == {Handler, Watches} \cup Commands
          \cup {Tasks(n) : n \in 1..MaxStop} \cup {Info(n) : n \in 1..MaxStop}

Idle == [at |-> "idle"]

(* Who answers a request: a thread of the debuggee that is stopped, or the *)
(* debug server beside it.  Each answers in order.                         *)
Kind(at) == IF at \in {"variables", "exceptionInfo", "define", "call", "watch"}
            THEN "thread" ELSE "server"

Frames(t, place) == {<<t, place, d>> : d \in Depths}
Top(t, place) == <<t, place, 1>>

(* The stop that lasts, and whether it serves frame f. *)
Now == Len(stops)
Serves(f) == halted /\ (f # None => f[2] = stops[Now].place)

-----------------------------------------------------------------------------
(* The store, and the watches panel that is told of every change *)

Blank == [state |-> "DISCONNECTED", thread |-> None, frames |-> None, sel |-> None,
          locals |-> None, exc |-> FALSE, info |-> None, graph |-> None]

(* _compute_eval_key: Off unless the session is paused; a frame stands for *)
(* its id, path and line.                                                  *)
EvalKey(s) == IF s.state # "PAUSED" THEN Off
              ELSE IF s.sel # None THEN s.sel
              ELSE IF s.frames # None THEN s.frames.top ELSE None

(* Mutant: a change of frame while an evaluation runs does not restart it. *)
RestartsWhenIdle(key, jobs) == key # wkey /\ (key = Off \/ jobs[Watches] = Idle)

(* WatchesPanel._on_snapshot starts over when the key has changed. *)
Restarts(key, jobs) == key # wkey

(* The requests but that of p; a job has one at most. *)
Without(sent, p) ==
  IF p \in Range(sent) THEN RemoveAt(sent, CHOOSE i \in DOMAIN sent : sent[i] = p) ELSE sent

(* store.update, with the jobs and requests the step leaves behind *)
Update(s, jobs, sent) ==
  /\ store' = s
  /\ LET key == EvalKey(s)
         rest == Without(sent, Watches) IN
     /\ wkey' = key
     /\ IF Restarts(key, jobs)
        THEN /\ job' = [jobs EXCEPT ![Watches] =
                          IF key = Off THEN Idle ELSE [at |-> "watch", frame |-> key]]
             /\ wire' = IF key = Off THEN rest ELSE Append(rest, Watches)
        ELSE job' = jobs /\ wire' = sent

(* The step changes nothing in the store. *)
Keep(jobs, sent) ==
  job' = jobs /\ wire' = sent /\ UNCHANGED <<store, wkey>>

Sent(p) == Append(wire, p)
Gone(p) == Without(wire, p)
Then(p, j) == [job EXCEPT ![p] = j]

-----------------------------------------------------------------------------
Init ==
  /\ stops = <<>> /\ halted = FALSE
  /\ events = <<>> /\ wire = <<>>
  /\ job = [p \in Jobs |-> Idle]
  /\ store = [Blank EXCEPT !.state = "RUNNING", !.thread = 1]
  /\ wkey = Off /\ watch = Off
  /\ auto = TRUE
  /\ dead = FALSE
  /\ handled = 0 /\ clean = TRUE /\ moved = FALSE
  /\ acts = 0

Connected == store.state # "DISCONNECTED"

-----------------------------------------------------------------------------
(* The debuggee *)

(* Stops that differ in what the code looks at *)
Kinds == {[thread |-> 1, exc |-> TRUE, user |-> TRUE, place |-> 1],
          [thread |-> 2, exc |-> FALSE, user |-> FALSE, place |-> 2]}

Halt ==
  /\ Connected /\ ~halted /\ Now < MaxStop
  /\ \E s \in Kinds : stops' = Append(stops, s)
  /\ halted' = TRUE
  /\ events' = Append(events, [says |-> "stopped", n |-> Now + 1])
  /\ UNCHANGED <<wire, job, store, wkey, watch, auto, dead, history, acts>>

(* The request of p is the first of its kind. *)
First(p) ==
  /\ p \in Range(wire)
  /\ LET i == CHOOSE k \in DOMAIN wire : wire[k] = p IN
     \A k \in 1..(i - 1) : Kind(job[wire[k]].at) # Kind(job[p].at)

(* continue, next, stepIn or stepOut: the debuggee runs on.  An event that *)
(* says so is sent or not.  The caller is woken.                           *)
Moves(p) ==
  /\ First(p) /\ job[p].at \in {"continue", "next"}
  /\ Keep(Then(p, [at |-> "woken", was |-> job[p].at, seen |-> handled]), Gone(p))
  /\ halted' = FALSE
  /\ \/ halted /\ events' = Append(events, [says |-> "continued", n |-> Now])
     \/ UNCHANGED events
  /\ UNCHANGED <<stops, watch, auto, dead, history, acts>>

-----------------------------------------------------------------------------
(* Commands *)

(* A command is given while no other of the same user is on its way. *)
Command(u) ==
  /\ Connected /\ acts < MaxActs /\ job[User(u)] = Idle
  /\ acts' = acts + 1
  /\ UNCHANGED <<stops, halted, events, watch, auto, dead, handled>>

(* resume, step_over, step_in, step_out *)
Go(u) ==
  /\ Command(u)
  /\ \E at \in {"continue", "next"} : Keep(Then(User(u), [at |-> at]), Sent(User(u)))
  /\ UNCHANGED <<clean, moved>>

(* What continued and resume() clear *)
Running(s) == [s EXCEPT !.state = "RUNNING", !.frames = None, !.locals = None, !.sel = None]

(* resume() or a step after its answer.  The event task may have run       *)
(* before and have handled the next stop.                                  *)
Woken(p) ==
  /\ job[p].at = "woken"
  /\ IF job[p].was = "continue"
     THEN Update(Running(store), Then(p, Idle), wire)
     ELSE Keep(Then(p, Idle), wire)
  /\ clean' = (clean /\ (job[p].was = "continue" => handled = job[p].seen))
  /\ UNCHANGED <<stops, halted, events, watch, auto, dead, handled, moved, acts>>

(* select_frame: a row of the stack *)
SelectFrame(u) ==
  /\ Command(u)
  /\ store.frames # None
  /\ \E f \in Frames(store.frames.top[1], store.frames.top[2]) :
       Update([store EXCEPT !.sel = f],
              Then(User(u), [at |-> "scopes", frame |-> f]), Sent(User(u)))
  /\ UNCHANGED <<clean, moved>>

(* select_thread: a row of the threads; it is refused unless paused. *)
SelectThread(u) ==
  /\ Command(u)
  /\ store.state = "PAUSED"
  /\ \E t \in Threads :
       Update([store EXCEPT !.thread = t],
              Then(User(u), [at |-> "stackTrace", thread |-> t]), Sent(User(u)))
  /\ clean' = (clean /\ job[Handler].at # "threads") /\ moved' = TRUE

(* The tasks panel asks for the graph again. *)
RefreshTasks(u) ==
  /\ Command(u)
  /\ Keep(Then(User(u), [at |-> "start"]), wire)
  /\ UNCHANGED <<clean, moved>>

-----------------------------------------------------------------------------
(* Events *)

Continued ==
  /\ Head(events).says = "continued"
  /\ Update([Running(store) EXCEPT !.exc = FALSE, !.info = None, !.graph = None], job, wire)
  /\ UNCHANGED history

(* A stopped event up to the request for the threads *)
Stopped ==
  /\ Head(events).says = "stopped"
  /\ handled' = Head(events).n /\ clean' = TRUE /\ moved' = FALSE
  /\ LET n == Head(events).n
         s == stops[n] IN
     Update([store EXCEPT !.state = "PAUSED", !.thread = s.thread, !.exc = s.exc],
            Then(Handler, [at |-> "threads", thread |-> s.thread, n |-> n]),
            Sent(Handler))

TakeEvent ==
  /\ Connected /\ ~dead
  /\ events # <<>> /\ job[Handler] = Idle
  /\ events' = Tail(events)
  /\ Continued \/ Stopped
  /\ UNCHANGED <<stops, halted, watch, auto, dead, acts>>

(* Mutant: the threads are asked for again. *)
ThreadsLoadedAgain(p) ==
  /\ First(p) /\ job[p].at = "threads"
  /\ Keep(Then(p, [job[p] EXCEPT !.at = "stackTrace"]), Append(wire, p))
  /\ UNCHANGED <<stops, halted, events, watch, auto, dead, history, acts>>

(* _refresh_threads; the frames are asked for. *)
ThreadsLoaded(p) ==
  /\ First(p) /\ job[p].at = "threads"
  /\ Keep(Then(p, [job[p] EXCEPT !.at = "stackTrace"]), Append(Gone(p), p))
  /\ UNCHANGED <<stops, halted, events, watch, auto, dead, history, acts>>

(* Mutant: the exception of a stop is forgotten, never asked for. *)
StopEndedForgetting(s, n, jobs) == <<[s EXCEPT !.info = None], jobs>>

(* The stopped handler after the frames: the exception is asked for or     *)
(* forgotten.                                                              *)
StopEnded(s, n, jobs) ==
  IF stops[n].exc
  THEN <<s, [jobs EXCEPT ![Info(n)] = [at |-> "exceptionInfo", n |-> n]]>>
  ELSE <<[s EXCEPT !.info = None], jobs>>

(* The first stop of a launch is left if no frame shown is the user's. *)
AutoResumes(s) == auto /\ (s.frames # None => ~stops[s.frames.n].user)

(* A refresh of locals, of a user or of the handler, is over with store s. *)
(* The handler starts what goes on in the background and may resume.       *)
RefreshOver(p, s, sent) ==
  IF p # Handler
  THEN Update(s, Then(p, Idle), sent) /\ UNCHANGED auto
  ELSE LET n == job[p].n
           jobs == [job EXCEPT ![Tasks(n)] = [at |-> "start"]]
           end == StopEnded(s, n, jobs)
           asked == IF end[2][Info(n)] = Idle THEN sent ELSE Append(sent, Info(n)) IN
       /\ auto' = FALSE
       /\ IF AutoResumes(s)
          THEN Update(end[1], [end[2] EXCEPT ![p] = [at |-> "continue", n |-> n]],
                      Append(asked, p))
          ELSE Update(end[1], [end[2] EXCEPT ![p] = Idle], asked)

(* _refresh_frames: a thread that runs may have no frames.  The scopes of  *)
(* the frame selected are asked for.                                       *)
FramesLoaded(p) ==
  /\ First(p) /\ job[p].at = "stackTrace"
  /\ \/ /\ halted
        /\ LET f == Top(job[p].thread, stops[Now].place) IN
           Update([store EXCEPT !.frames = [n |-> Now, top |-> f], !.sel = f],
                  Then(p, IF p = Handler THEN [at |-> "scopes", frame |-> f, n |-> job[p].n]
                          ELSE [at |-> "scopes", frame |-> f]),
                  Append(Gone(p), p))
        /\ UNCHANGED auto
     \/ /\ ~halted
        /\ RefreshOver(p, [store EXCEPT !.frames = None, !.sel = None], Gone(p))
  /\ UNCHANGED <<stops, halted, events, watch, dead, history, acts>>

(* Mutant: the state is not looked at. *)
IsCurrentFrame(p) == store.sel = job[p].frame

(* _is_current_variables_refresh *)
IsCurrent(p) == store.state = "PAUSED" /\ store.sel = job[p].frame

(* _refresh_locals after the scopes: the variables are asked for. *)
ScopesLoaded(p) ==
  /\ First(p) /\ job[p].at = "scopes" /\ Serves(job[p].frame)
  /\ IF IsCurrent(p)
     THEN /\ Keep(Then(p, IF p = Handler
                          THEN [at |-> "variables", frame |-> job[p].frame, of |-> Now,
                                n |-> job[p].n]
                          ELSE [at |-> "variables", frame |-> job[p].frame, of |-> Now]),
                  Append(Gone(p), p))
          /\ UNCHANGED auto
     ELSE RefreshOver(p, store, Gone(p))
  /\ UNCHANGED <<stops, halted, events, watch, dead, history, acts>>

(* _refresh_locals after the variables *)
VariablesLoaded(p) ==
  /\ First(p) /\ job[p].at = "variables" /\ halted /\ job[p].of = Now
  /\ RefreshOver(p, IF IsCurrent(p)
                    THEN [store EXCEPT !.locals = [n |-> Now, frame |-> job[p].frame]]
                    ELSE store, Gone(p))
  /\ UNCHANGED <<stops, halted, events, watch, dead, history, acts>>

-----------------------------------------------------------------------------
(* In the background *)

(* refresh_tasks, when its task first runs *)
TasksStarted(p) ==
  /\ job[p].at = "start"
  /\ IF store.state # "PAUSED"
     THEN Update([store EXCEPT !.graph = Unavailable], Then(p, Idle), wire)
     ELSE Keep(Then(p, [at |-> "define", thread |-> store.thread, frame |-> store.sel]), Sent(p))
  /\ UNCHANGED <<stops, halted, events, watch, auto, dead, history, acts>>

(* _stop_identity_matches; the client is the same while the job lasts. *)
SameStop(p) == store.state = "PAUSED" /\ store.thread = job[p].thread

(* refresh_tasks: the collector is defined, then called. *)
TasksAnswered(p) ==
  /\ First(p) /\ job[p].at \in {"define", "call"} /\ Serves(job[p].frame)
  /\ IF job[p].at = "define"
     THEN Keep(Then(p, [job[p] EXCEPT !.at = "call"]), Append(Gone(p), p))
     ELSE Update(IF SameStop(p) THEN [store EXCEPT !.graph = Now] ELSE store,
                 Then(p, Idle), Gone(p))
  /\ UNCHANGED <<stops, halted, events, watch, auto, dead, history, acts>>

(* _fetch_exception_info: its guard *)
InfoWanted(p) ==
  store.state = "PAUSED" /\ store.exc /\ store.thread = stops[job[p].n].thread

(* _fetch_exception_info after the answer; without one there is no info. *)
InfoAnswered(p) ==
  /\ First(p) /\ job[p].at = "exceptionInfo"
  /\ LET got == IF halted /\ stops[Now].exc THEN Now ELSE None IN
     Update(IF InfoWanted(p) THEN [store EXCEPT !.info = got] ELSE store,
            Then(p, Idle), Gone(p))
  /\ UNCHANGED <<stops, halted, events, watch, auto, dead, history, acts>>

(* _eval_watches *)
WatchAnswered ==
  /\ First(Watches) /\ job[Watches].at = "watch"
  /\ watch' = IF Serves(job[Watches].frame) THEN job[Watches].frame ELSE Error
  /\ Keep(Then(Watches, Idle), Gone(Watches))
  /\ UNCHANGED <<stops, halted, events, auto, dead, history, acts>>

-----------------------------------------------------------------------------
(* Failures *)

(* What a request that is refused or times out leaves.  An exception in    *)
(* the handler ends the event task; resume() of a launch is in a try.      *)
Failed(p) ==
  /\ LET at == job[p].at IN
     IF at \in {"define", "call"}
     THEN Update(IF SameStop(p) THEN [store EXCEPT !.graph = Error] ELSE store,
                 Then(p, Idle), Gone(p)) /\ UNCHANGED watch
     ELSE IF at = "exceptionInfo"
     THEN Update(IF InfoWanted(p) THEN [store EXCEPT !.info = None] ELSE store,
                 Then(p, Idle), Gone(p)) /\ UNCHANGED watch
     ELSE /\ Keep(Then(p, Idle), Gone(p))
          /\ watch' = IF at = "watch" THEN Error ELSE watch
  /\ dead' = (dead \/ (p = Handler /\ job[p].at # "continue"))
  /\ UNCHANGED <<stops, halted, events, auto, handled, moved>>

(* The debuggee runs, or the frame or reference is of another stop. *)
Refused(p) ==
  /\ First(p)
  /\ \/ job[p].at = "stackTrace" /\ ~halted
     \/ job[p].at \in {"scopes", "define", "call"} /\ ~Serves(job[p].frame)
     \/ job[p].at = "variables" /\ ~(halted /\ job[p].of = Now)
  /\ Failed(p)
  /\ UNCHANGED <<clean, acts>>

TimesOut(p) ==
  /\ p \in Range(wire) /\ acts < MaxActs
  /\ Failed(p)
  /\ clean' = FALSE /\ acts' = acts + 1

(* _hard_disconnect: who waits for an answer is cancelled. *)
Reset ==
  /\ Connected
  /\ Update(Blank, [p \in Jobs |-> IF job[p].at = "start" THEN job[p] ELSE Idle], <<>>)
  /\ events' = <<>> /\ auto' = FALSE
  /\ watch' = Off
  /\ UNCHANGED <<stops, halted, dead, history, acts>>

-----------------------------------------------------------------------------
(* An answer, or the lack of one, for job p *)
Answer(p) ==
  \/ Moves(p) \/ ThreadsLoaded(p) \/ FramesLoaded(p) \/ ScopesLoaded(p) \/ VariablesLoaded(p)
  \/ TasksAnswered(p) \/ InfoAnswered(p) \/ Refused(p) \/ TimesOut(p)
  \/ p = Watches /\ WatchAnswered

Runs(p) == Woken(p) \/ TasksStarted(p)

Next ==
  \/ Halt \/ TakeEvent \/ Reset
  \/ \E u \in Users : Go(u) \/ SelectFrame(u) \/ SelectThread(u) \/ RefreshTasks(u)
  \/ \E p \in Jobs : Answer(p) \/ Runs(p)

Spec == Init /\ [][Next]_vars

-----------------------------------------------------------------------------
(* Properties *)

(* The types of the variables. *)
TypeOK ==
  /\ stops \in Seq([thread : Threads, exc : BOOLEAN, user : BOOLEAN, place : Places])
  /\ events \in Seq([says : {"stopped", "continued"}, n : 1..MaxStop])
  /\ wire \in Seq(Jobs) /\ IsInjective(wire)
  /\ \A p \in Jobs : p \in Range(wire) <=> job[p].at \notin {"idle", "start", "woken"}
  /\ store.state \in {"DISCONNECTED", "RUNNING", "PAUSED"}
  /\ store.thread \in Threads \cup {None}
  /\ store.sel \in Frame \cup {None}
  /\ handled \in 0..Len(stops)

(* Locals are shown only while the session is paused: no answer of an      *)
(* earlier stop brings them back after resume(), a continued event or the  *)
(* end of the connection.                                                  *)
NoLocalsUnlessPaused == store.locals # None => store.state = "PAUSED"

(* Nothing is on its way and the last stop was handled undisturbed. *)
Quiet == /\ Connected /\ halted /\ ~dead /\ clean
         /\ events = <<>> /\ handled = Now
         /\ \A p \in Jobs : job[p] = Idle

(* When all is quiet, the session shows the stop it is at: its thread, its *)
(* frames, the locals of the frame selected, its exception and its tasks,  *)
(* whatever was on its way from stops before.  Disturbed is a stop one of  *)
(* whose requests timed out, during whose handling another thread was      *)
(* chosen before the list of threads arrived, or that was handled before   *)
(* the resume() that led to it went on.                                    *)
QuietStopShown ==
  Quiet =>
    /\ store.state = "PAUSED"
    /\ store.frames # None /\ store.frames.n = Now /\ store.frames.top[1] = store.thread
    /\ store.sel \in Frames(store.thread, stops[Now].place)
    /\ store.locals = [n |-> Now, frame |-> store.sel]
    /\ ~moved => /\ store.info = IF stops[Now].exc THEN Now ELSE None
                 /\ store.graph = Now

(* A watch that is shown without an error was evaluated for the frame that *)
(* is selected, once no evaluation runs.                                   *)
WatchesFollowFrame ==
  (wkey # Off /\ job[Watches] = Idle) => watch \in {wkey, Error}
=============================================================================
