------------------------------- MODULE Session -------------------------------
(***************************************************************************)
(* The session manager (plugins/debugpy.py): how connect, attach,          *)
(* safe_attach, launch, disconnect, terminate and shutdown build up and    *)
(* tear down the one session, its DapClient and the launched process,      *)
(* while the connection can end and events arrive.                         *)
(*                                                                         *)
(* The actors are asyncio tasks: the user's commands, and for every client *)
(* its listen task and its event task, which both run code of the manager. *)
(* An action is the code between two awaits.  A client is as DapClient     *)
(* models it; here a request is answered, fails (refused, timed out, or    *)
(* its connection lost) or is cancelled by close().                        *)
(***************************************************************************)
EXTENDS Naturals, FiniteSets

CONSTANTS Users,       \* asyncio tasks that run commands of the user
          Commands,    \* the commands the user gives
          MaxClients,  \* bound: connections opened
          MaxProcs,    \* bound: processes launched
          MayBreak     \* a transport may break while it is being closed

AllCommands == {"connect", "attach", "safe_attach", "launch", "disconnect", "terminate",
                "shutdown"}

ASSUME BoundsAssumption == /\ MaxClients \in Nat
                           /\ MaxProcs \in Nat
                           /\ Commands \subseteq AllCommands
                           /\ MayBreak \in BOOLEAN

Clients == 1..MaxClients
Procs   == 1..MaxProcs

Listener(c) == <<"listen", c>>
Handler(c)  == <<"event", c>>
Tasks == Users \cup {Listener(c) : c \in Clients} \cup {Handler(c) : c \in Clients}

ASSUME TasksAssumption == \A c \in Clients : Listener(c) \notin Users /\ Handler(c) \notin Users

VARIABLES
  at,           \* at[t]: where task t is
  on,           \* on[t]: the client (or, at "reap", the process) it awaits, or 0
  cmd,          \* cmd[u]: the command of user task u; "failed" once it cleans up
  dap,          \* _dap, 0 for None
  client,       \* client[c]: the life of client c
  initialized,  \* the flag of the asyncio.Event _initialized
  state,        \* SessionSnapshot.state
  launched,     \* _launched, 0 for None
  alive,        \* launched processes that have not ended
  spawned,      \* how many processes were launched
  prompt        \* history: no connection was opened before the teardown of
                \* the one before it was over

vars == <<at, on, cmd, dap, client, initialized, state, launched, alive, spawned, prompt>>

(* "closing": close() waits for the transport; "closed": it ran to its     *)
(* end; "aborted": it was cut short; "lost": _handle_disconnect ran.       *)
Life == {"none", "open", "closing", "closed", "aborted", "lost"}

Awaits == {"bye", "initialize", "sync", "configure", "threads", "pause"}
Places == Awaits \cup {"idle", "prepare", "open", "initialized", "orphaned", "woken", "close",
                       "reap", "spawn", "read", "flush", "done", "get", "refresh", "dead"}

Init ==
  /\ at = [t \in Tasks |-> IF t \in Users THEN "idle" ELSE "dead"]
  /\ on = [t \in Tasks |-> 0]
  /\ cmd = [u \in Users |-> "disconnect"]
  /\ dap = 0
  /\ client = [c \in Clients |-> "none"]
  /\ initialized = FALSE
  /\ state = "DISCONNECTED"
  /\ launched = 0
  /\ alive = {}
  /\ spawned = 0
  /\ prompt = TRUE

procVars == <<launched, alive, spawned>>

BeingClosed(t) == at[t] \in {"close", "flush"}

Goes(t, place) == at' = [at EXCEPT ![t] = place]
Stops(t, place) == Goes(t, place) /\ on' = [on EXCEPT ![t] = 0]
Usable == dap # 0 /\ client[dap] = "open"

-----------------------------------------------------------------------------
(* _hard_disconnect                                                        *)

(* Mutant: only launch() calls _terminate_launched. *)
ReapsOnLaunch(t) == t \in Users /\ cmd'[t] = "launch"

Reaps(t) == t \in Users /\ cmd'[t] \in {"launch", "terminate", "shutdown"}

(* Where a task goes on once the session is reset. *)
AfterReset(t) ==
  IF t \in Users
  THEN CASE cmd'[t] \in {"connect", "attach"} -> "open"
         [] cmd'[t] = "safe_attach"           -> "prepare"
         [] Reaps(t)                          -> "reap"
         [] OTHER                             -> "idle"
  ELSE IF t \in {Listener(c) : c \in Clients} THEN "done" ELSE "get"

(* The part after close(): the manager and the store forget the session.   *)
(* _initialized is replaced, so who waits for the old one waits in vain.   *)
(* A command that goes on to _terminate_launched has taken the process.    *)
Reset(t) ==
  /\ dap' = 0
  /\ initialized' = FALSE
  /\ state' = "DISCONNECTED"
  /\ at' = [x \in Tasks |-> IF x = t THEN AfterReset(t)
                             ELSE IF at[x] = "initialized" THEN "orphaned" ELSE at[x]]
  /\ on' = [on EXCEPT ![t] = IF Reaps(t) THEN launched ELSE 0]
  /\ launched' = IF Reaps(t) THEN 0 ELSE launched
  /\ UNCHANGED <<alive, spawned>>

(* A cancelled event task takes a close() of another client with it. *)
CutShort(c) == IF at[Handler(c)] = "close" THEN {on[Handler(c)]} ELSE {}

(* close() up to wait_closed().  Called from the client's own event task   *)
(* it cancels its caller and is cut short.                                 *)
CloseBegins(t, c) ==
  /\ client' = [d \in Clients |->
                  IF d = c THEN IF t = Handler(c) THEN "aborted" ELSE "closing"
                  ELSE IF d \in CutShort(c) THEN "aborted" ELSE client[d]]
  /\ at' = [x \in Tasks |-> IF x \in {Listener(c), Handler(c)} THEN "dead"
                             ELSE IF x = t THEN "close" ELSE at[x]]
  /\ on' = [x \in Tasks |-> IF x = Handler(c) THEN 0 ELSE IF x = t THEN c ELSE on[x]]
  /\ UNCHANGED <<dap, initialized, state, procVars>>

(* Mutant: the client is dropped and not closed. *)
HardDisconnectForgets(t) == Reset(t) /\ UNCHANGED client

HardDisconnect(t) ==
  \/ Usable /\ CloseBegins(t, dap)
  \/ ~Usable /\ Reset(t) /\ UNCHANGED client

(* wait_closed() returned; cmd and the waiting requests come after. *)
CloseEnds(t) ==
  /\ at[t] = "close"
  /\ client' = [client EXCEPT ![on[t]] = "closed"]
  /\ UNCHANGED cmd
  /\ Reset(t)

(* wait_closed() raised what broke the transport: nothing is reset. *)
CloseRaises(t) ==
  /\ MayBreak
  /\ at[t] = "close"
  /\ client' = [client EXCEPT ![on[t]] = "aborted"]
  /\ Stops(t, IF t \in Users THEN "idle" ELSE "dead")
  /\ UNCHANGED <<cmd, dap, initialized, state, procVars>>

(* disconnect(): a request whose failure is ignored, then the above. *)
Disconnect(t) ==
  \/ /\ Usable
     /\ Goes(t, "bye")
     /\ on' = [on EXCEPT ![t] = dap]
     /\ UNCHANGED <<dap, client, initialized, state, procVars>>
  \/ ~Usable /\ HardDisconnect(t)

-----------------------------------------------------------------------------
(* Commands *)

Command(u, k) ==
  /\ at[u] = "idle"
  /\ cmd' = [cmd EXCEPT ![u] = k]
  /\ UNCHANGED prompt
  /\ IF k = "attach"
     THEN Goes(u, "prepare") /\ UNCHANGED <<on, dap, client, initialized, state, procVars>>
     ELSE Disconnect(u)

(* attach: debugpy was injected; safe_attach: the remote script listens. *)
Prepared(u) ==
  /\ at[u] = "prepare"
  /\ UNCHANGED cmd
  /\ \/ cmd[u] = "attach" /\ Disconnect(u)
     \/ /\ cmd[u] = "safe_attach"
        /\ Goes(u, "open")
        /\ UNCHANGED <<on, dap, client, initialized, state, procVars>>

(* Injection, remote script, process creation or connecting failed. *)
NotPrepared(u) ==
  /\ at[u] \in {"prepare", "spawn", "open"}
  /\ Stops(u, "idle")
  /\ UNCHANGED <<cmd, dap, client, initialized, state, procVars>>

(* Mutant: a process that does not end in 1.2 seconds is left alone. *)
ReapedWithoutKill(u) ==
  /\ at[u] = "reap"
  /\ Stops(u, IF cmd[u] = "launch" THEN "spawn" ELSE "idle")
  /\ UNCHANGED <<cmd, dap, client, initialized, state, procVars>>

(* _terminate_launched: the process ends by itself, is terminated, or is   *)
(* killed after 1.2 seconds.                                               *)
Reaped(u) ==
  /\ at[u] = "reap"
  /\ alive' = alive \ {on[u]}
  /\ on' = [on EXCEPT ![u] = 0]
  /\ Goes(u, IF cmd[u] = "launch" THEN "spawn" ELSE "idle")
  /\ UNCHANGED <<cmd, dap, client, initialized, state, launched, spawned>>

(* Mutant: a process is not counted. *)
SpawnedUncounted(u) ==
  /\ at[u] = "spawn"
  /\ launched' = spawned + 1
  /\ alive' = alive \cup {spawned + 1}
  /\ Goes(u, "open")
  /\ UNCHANGED <<on, cmd, dap, client, initialized, state, spawned>>

Spawned(u) ==
  /\ at[u] = "spawn"
  /\ spawned < MaxProcs
  /\ spawned' = spawned + 1
  /\ launched' = spawned + 1
  /\ alive' = alive \cup {spawned + 1}
  /\ Goes(u, "open")
  /\ UNCHANGED <<on, cmd, dap, client, initialized, state>>

(* _connect_with_timeout up to the first request. *)
Opened(u) ==
  /\ at[u] = "open"
  /\ \E c \in Clients :
       /\ client[c] = "none"
       /\ \A d \in Clients : client[d] = "none" => c <= d
       /\ client' = [client EXCEPT ![c] = "open"]
       /\ dap' = c
       /\ on' = [on EXCEPT ![u] = c]
       /\ at' = [at EXCEPT ![u] = "initialize", ![Listener(c)] = "read", ![Handler(c)] = "get"]
  /\ prompt' = (prompt /\ \A t \in Tasks : ~BeingClosed(t))
  /\ UNCHANGED <<cmd, initialized, state, procVars>>

(* The next request goes to whatever client _dap is by now; with none, or  *)
(* a closed one, an exception ends the command that nothing cleans up.     *)
Ask(u, place) ==
  /\ Goes(u, IF Usable THEN place ELSE "idle")
  /\ on' = [on EXCEPT ![u] = IF Usable THEN dap ELSE 0]

(* A request is answered.  The event loop is first in, first out: a task   *)
(* that an answer wakes runs before the listen task learns of a loss, and  *)
(* before a close() that begins meanwhile comes to its end.                *)
Answered(u) ==
  /\ at[u] \in Awaits
  /\ client[on[u]] \in {"open", "closing"}
  /\ UNCHANGED cmd
  /\ \/ at[u] = "bye" /\ HardDisconnect(u)
     \/ /\ at[u] # "bye"
        /\ CASE at[u] = "initialize" ->
                  /\ Goes(u, IF dap = 0 THEN "idle"
                             ELSE IF initialized THEN "woken" ELSE "initialized")
                  /\ UNCHANGED on
             [] at[u] = "sync"       -> Ask(u, "configure")
             [] at[u] = "configure"  -> Ask(u, "threads")
             [] at[u] = "threads" /\ cmd[u] \in {"attach", "safe_attach"} -> Ask(u, "pause")
             [] OTHER                -> Goes(u, "idle") /\ on' = [on EXCEPT ![u] = 0]
        /\ state' = IF at[u] = "configure" /\ state # "PAUSED" THEN "RUNNING" ELSE state
        /\ UNCHANGED <<dap, client, initialized, procVars>>

Synchronise(u) ==
  /\ at[u] = "woken"
  /\ Ask(u, "sync")
  /\ UNCHANGED <<cmd, dap, client, initialized, state, procVars>>

(* Mutant: the wait for "initialized" has no deadline. *)
RequestDeadlines == {"initialize", "sync", "configure"}
(* What can fail or run out of time while connecting. *)
Deadlines == {"initialize", "initialized", "orphaned", "sync", "configure"}

(* An error response, a timeout or a lost connection; "initialized" has a  *)
(* deadline of its own.  While connecting, the command tears down the      *)
(* session that _dap is by now.                                            *)
Failed(u) ==
  \/ /\ at[u] = "bye"
     /\ UNCHANGED cmd
     /\ HardDisconnect(u)
  \/ /\ at[u] \in Deadlines
     /\ cmd' = [cmd EXCEPT ![u] = "failed"]
     /\ HardDisconnect(u)
  \/ /\ at[u] \in {"threads", "pause"}
     /\ Stops(u, "idle")
     /\ UNCHANGED <<cmd, dap, client, initialized, state, procVars>>

(* close() cancelled the request and CancelledError ends the command. *)
Cancelled(u) ==
  /\ at[u] \in Awaits
  /\ client[on[u]] = "closed"
  /\ Stops(u, "idle")
  /\ UNCHANGED <<cmd, dap, client, initialized, state, procVars>>

-----------------------------------------------------------------------------
(* The listen task and the event task of a client *)

(* The connection ends: _handle_disconnect up to its first await. *)
Lost(c) ==
  /\ at[Listener(c)] = "read"
  /\ client' = [d \in Clients |-> IF d = c THEN "lost"
                                   ELSE IF d \in CutShort(c) THEN "aborted" ELSE client[d]]
  /\ at' = [at EXCEPT ![Listener(c)] = "flush", ![Handler(c)] = "dead"]
  /\ on' = [on EXCEPT ![Handler(c)] = 0]
  /\ UNCHANGED <<cmd, dap, initialized, state, procVars>>

(* Mutant: the manager forgets the client, and the store is not told. *)
ReportDropsClient(c) ==
  /\ at[Listener(c)] = "flush"
  /\ dap' = 0
  /\ Goes(Listener(c), "done")
  /\ UNCHANGED <<on, cmd, client, initialized, state, procVars>>

(* Mutant: a loss is not reported. *)
ReportNothing(c) ==
  /\ at[Listener(c)] = "flush"
  /\ Goes(Listener(c), "done")
  /\ UNCHANGED <<on, cmd, dap, client, initialized, state, procVars>>

(* _on_disconnect, whichever client _dap is. *)
Report(c) ==
  /\ at[Listener(c)] = "flush"
  /\ UNCHANGED cmd
  /\ HardDisconnect(Listener(c))

EventInitialized(c) ==
  /\ at[Handler(c)] = "get"
  /\ initialized' = TRUE
  /\ at' = [x \in Tasks |-> IF at[x] = "initialized" THEN "woken" ELSE at[x]]
  /\ UNCHANGED <<on, cmd, dap, client, state, procVars>>

(* "stopped": the state, then requests for threads and frames. *)
EventStopped(c) ==
  /\ at[Handler(c)] = "get"
  /\ state' = "PAUSED"
  /\ Goes(Handler(c), IF Usable THEN "refresh" ELSE "dead")
  /\ on' = [on EXCEPT ![Handler(c)] = IF Usable THEN dap ELSE 0]
  /\ UNCHANGED <<cmd, dap, client, initialized, procVars>>

EventContinued(c) ==
  /\ at[Handler(c)] = "get"
  /\ state' = "RUNNING"
  /\ UNCHANGED <<at, on, cmd, dap, client, initialized, procVars>>

(* "terminated" or "exited": the event task calls disconnect(). *)
EventEnded(c) ==
  /\ at[Handler(c)] = "get"
  /\ UNCHANGED cmd
  /\ Disconnect(Handler(c))

(* The request of a handler is over; a failed refresh ends the event task. *)
HandlerResumes(c) ==
  /\ UNCHANGED cmd
  /\ \/ at[Handler(c)] = "bye" /\ HardDisconnect(Handler(c))
     \/ /\ at[Handler(c)] = "refresh"
        /\ \E place \in {"get", "dead"} : Goes(Handler(c), place)
        /\ on' = [on EXCEPT ![Handler(c)] = 0]
        /\ UNCHANGED <<dap, client, initialized, state, procVars>>

Exits(p) ==
  /\ p \in alive
  /\ alive' = alive \ {p}
  /\ UNCHANGED <<at, on, cmd, dap, client, initialized, state, launched, spawned>>

-----------------------------------------------------------------------------
Await(u) == (Answered(u) \/ Failed(u) \/ Cancelled(u)) /\ UNCHANGED prompt
Setup(u) == \/ (Prepared(u) \/ NotPrepared(u) \/ Reaped(u) \/ Spawned(u) \/ Synchronise(u))
               /\ UNCHANGED prompt
            \/ Opened(u)
Close(t) == (CloseEnds(t) \/ CloseRaises(t)) /\ UNCHANGED prompt
Serve(c) == (Report(c) \/ HandlerResumes(c)) /\ UNCHANGED prompt
World(c) == /\ \/ Lost(c) \/ EventInitialized(c) \/ EventStopped(c)
               \/ EventContinued(c) \/ EventEnded(c)
            /\ UNCHANGED prompt

Next ==
  \/ \E u \in Users : (\E k \in Commands : Command(u, k)) \/ Setup(u) \/ Await(u)
  \/ \E t \in Tasks : Close(t)
  \/ \E c \in Clients : Serve(c) \/ World(c)
  \/ \E p \in Procs : Exits(p) /\ UNCHANGED prompt

(* Timeouts bound every request, the preparation and the reaping of a      *)
(* process, and asyncio runs every task that can run.                      *)
Fairness ==
  /\ \A u \in Users : WF_vars(Setup(u) \/ Await(u) \/ Close(u))
  /\ \A c \in Clients : /\ WF_vars((Report(c) /\ UNCHANGED prompt) \/ Close(Listener(c)))
                         /\ WF_vars((HandlerResumes(c) /\ UNCHANGED prompt) \/ Close(Handler(c)))

Spec     == Init /\ [][Next]_vars
FairSpec == Spec /\ Fairness
-----------------------------------------------------------------------------
(* Properties *)

TypeOK ==
  /\ at \in [Tasks -> Places]
  /\ on \in [Tasks -> Nat]
  /\ cmd \in [Users -> AllCommands \cup {"failed"}]
  /\ dap \in 0..MaxClients
  /\ client \in [Clients -> Life]
  /\ initialized \in BOOLEAN
  /\ state \in {"DISCONNECTED", "RUNNING", "PAUSED"}
  /\ launched \in 0..MaxProcs
  /\ alive \subseteq 1..spawned
  /\ spawned \in 0..MaxProcs

(* "yathaavat maintains one active debug session at a time"                *)
(* (docs/DESIGN_v2.md, section 4.1): a connection that is open is that of  *)
(* the session.                                                            *)
OneActiveSession == \A c \in Clients : client[c] = "open" => dap = c

(* The same, for a user who waits for each command and as long as a        *)
(* connection is only opened once the one before it is torn down: no       *)
(* failed, cancelled or superseded command leaks a connection.             *)
OneSessionIfPrompt == prompt => OneActiveSession

(* Under the same conditions the state shown is that of a session: nothing *)
(* that runs late (an answer, an event, a report) makes a reset session    *)
(* look alive.                                                             *)
StateIsHonest == prompt /\ state # "DISCONNECTED" => dap # 0

(* A launched process that lives is the one _terminate_launched will find, *)
(* or is being terminated (debugpy.py: launch, _terminate_launched).       *)
NoOrphanProcess ==
  \A p \in alive : p = launched \/ \E u \in Users : at[u] = "reap" /\ on[u] = p

(* An exception ends a command whose close() breaks. *)
EndsByException(u) == at[u] = "close" /\ client'[on[u]] = "aborted"
ShutdownEnds(u) ==
  /\ cmd[u] \in {"terminate", "shutdown"} /\ at[u] # "idle" /\ at'[u] = "idle"
  /\ prompt /\ ~EndsByException(u)
EndsClean ==
  \A u \in Users : ShutdownEnds(u) => alive' = {} /\ \A c \in Clients : client'[c] # "open"

(* terminate() and shutdown() that end without an exception leave neither  *)
(* a launched process nor an open connection behind, even when the         *)
(* connection is lost or the process exits meanwhile.                      *)
ShutdownIsClean == [][EndsClean]_vars

(* Every command comes to an end, also when another task tears down the    *)
(* client it waits for, replaces the event it waits for, or closes the     *)
(* session it is setting up.                                               *)
CommandsEnd == \A u \in Users : at[u] # "idle" ~> at[u] = "idle"

(* The manager lets go of a client whose connection was lost.              *)
LossResets == \A c \in Clients : client[c] = "lost" /\ dap = c ~> dap # c

(* A session that the adapter has ended is reset: "visible state must be   *)
(* driven by events" (docs/research/06_dap_debugpy_notes.md).              *)
EndedSessionResets ==
  \A c \in Clients : at[Handler(c)] = "bye" /\ dap = c ~> dap # c
=============================================================================
