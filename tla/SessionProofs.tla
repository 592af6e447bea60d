---------------------------- MODULE SessionProofs ----------------------------
(***************************************************************************)
(* Proofs about Session: types for any number of users, the invariants of  *)
(* a single user for any number of connections and processes.              *)
(***************************************************************************)
EXTENDS Session, TLAPS

(* A task that waits for an answer or closes a client knows which. *)
OnInv == \A t \in Tasks : at[t] \in Awaits \cup {"close"} => on[t] \in Clients

(* Where a command is that does not connect. *)
CmdInv ==
  \A u \in Users : cmd[u] \in {"disconnect", "terminate", "shutdown"}
                   => at[u] \in {"idle", "bye", "close", "reap"}

TInv == TypeOK /\ OnInv /\ CmdInv

AnyCommand == AllCommands \cup {"failed"}

LEMMA TaskNames ==
  /\ \A c \in Clients : /\ Listener(c) \in Tasks /\ Handler(c) \in Tasks
                        /\ Listener(c) \notin Users /\ Handler(c) \notin Users
  /\ \A c, d : /\ Listener(c) = Listener(d) => c = d
               /\ Handler(c) = Handler(d) => c = d
               /\ Listener(c) # Handler(d)
  /\ Users \subseteq Tasks
  /\ \A t \in Tasks : t \in Users \/ \E c \in Clients : t \in {Listener(c), Handler(c)}
<1>1. \A c, d : /\ Listener(c) = Listener(d) => c = d
                /\ Handler(c) = Handler(d) => c = d
                /\ Listener(c) # Handler(d)
  BY DEF Listener, Handler
<1>. QED
  BY <1>1, TasksAssumption, Zenon DEF Tasks

-----------------------------------------------------------------------------
(* Types *)

LEMMA AfterResetPlace ==
  ASSUME NEW t \in Tasks
  PROVE  /\ AfterReset(t) \in Places \ (Awaits \cup {"close", "initialized"})
         /\ t \in Users /\ cmd'[t] \in {"disconnect", "terminate", "shutdown"}
              => AfterReset(t) \in {"idle", "reap"}
<1>1. CASE t \in Users
  BY <1>1 DEF AfterReset, Reaps, Places, Awaits
<1>2. CASE t \notin Users
  BY <1>2 DEF AfterReset, Places, Awaits
<1>. QED
  BY <1>1, <1>2

LEMMA ResetTyped ==
  ASSUME TInv, NEW t \in Tasks, cmd' \in [Users -> AnyCommand],
         \A u \in Users \ {t} : cmd'[u] = cmd[u], client' \in [Clients -> Life], Reset(t)
  PROVE  TInv'
<1>. DEFINE p == AfterReset(t)
<1>1. /\ p \in Places \ (Awaits \cup {"close", "initialized"})
      /\ t \in Users /\ cmd'[t] \in {"disconnect", "terminate", "shutdown"}
           => p \in {"idle", "reap"}
  BY AfterResetPlace
<1>2. at' = [x \in Tasks |-> IF x = t THEN p
                             ELSE IF at[x] = "initialized" THEN "orphaned" ELSE at[x]]
  BY DEF Reset
<1>. HIDE DEF p
<1>3. at' \in [Tasks -> Places]
  BY <1>1, <1>2 DEF TInv, TypeOK, Places
<1>4. on' \in [Tasks -> Nat] /\ \A x \in Tasks \ {t} : on'[x] = on[x]
  <2>1. launched \in Nat
    BY BoundsAssumption DEF TInv, TypeOK
  <2>. QED BY <2>1 DEF Reset, TInv, TypeOK
<1>5. OnInv'
  BY <1>1, <1>2, <1>3, <1>4 DEF TInv, OnInv, Awaits
<1>6. CmdInv'
  BY <1>1, <1>2, <1>3, TaskNames DEF TInv, CmdInv
<1>7. initialized' \in BOOLEAN
  BY Zenon DEF Reset
<1>8. dap' \in 0..MaxClients /\ launched' \in 0..MaxProcs /\ alive' = alive /\ spawned' = spawned
      /\ state' \in {"DISCONNECTED", "RUNNING", "PAUSED"}
  BY BoundsAssumption DEF Reset, TInv, TypeOK
<1>. QED
  BY <1>3, <1>4, <1>5, <1>6, <1>7, <1>8 DEF TInv, TypeOK, AnyCommand

LEMMA CloseBeginsTyped ==
  ASSUME TInv, NEW t \in Tasks, NEW c \in Clients, cmd' \in [Users -> AnyCommand],
         \A u \in Users \ {t} : cmd'[u] = cmd[u], CloseBegins(t, c)
  PROVE  TInv'
<1>1. at' = [x \in Tasks |-> IF x \in {Listener(c), Handler(c)} THEN "dead"
                             ELSE IF x = t THEN "close" ELSE at[x]]
  BY DEF CloseBegins
<1>2. on' = [x \in Tasks |-> IF x = Handler(c) THEN 0 ELSE IF x = t THEN c ELSE on[x]]
  BY DEF CloseBegins
<1>3. at' \in [Tasks -> Places]
  BY <1>1 DEF TInv, TypeOK, Places
<1>4. on' \in [Tasks -> Nat]
  BY <1>2, BoundsAssumption DEF TInv, TypeOK, Clients
<1>5. OnInv'
  BY <1>1, <1>2 DEF TInv, OnInv, Awaits
<1>6. CmdInv'
  BY <1>1, TaskNames DEF TInv, CmdInv
<1>7. client' \in [Clients -> Life]
  <2>1. client' = [d \in Clients |->
                     IF d = c THEN IF t = Handler(c) THEN "aborted" ELSE "closing"
                     ELSE IF d \in CutShort(c) THEN "aborted" ELSE client[d]]
    BY DEF CloseBegins
  <2>. QED BY <2>1 DEF TInv, TypeOK, Life
<1>8. UNCHANGED <<dap, initialized, state, launched, alive, spawned>>
  BY DEF CloseBegins, procVars
<1>. QED
  BY <1>3, <1>4, <1>5, <1>6, <1>7, <1>8 DEF TInv, TypeOK, AnyCommand

LEMMA HardDisconnectTyped ==
  ASSUME TInv, NEW t \in Tasks, cmd' \in [Users -> AnyCommand],
         \A u \in Users \ {t} : cmd'[u] = cmd[u], HardDisconnect(t)
  PROVE  TInv'
<1>1. CASE Usable /\ CloseBegins(t, dap)
  <2>1. dap \in Clients
    BY <1>1, BoundsAssumption DEF Usable, TInv, TypeOK, Clients
  <2>. QED BY <1>1, <2>1, CloseBeginsTyped
<1>2. CASE Reset(t) /\ UNCHANGED client
  <2>1. client' \in [Clients -> Life]
    BY <1>2 DEF TInv, TypeOK
  <2>. QED BY <1>2, <2>1, ResetTyped
<1>. QED
  BY <1>1, <1>2 DEF HardDisconnect

(* One task goes on to a place and maybe to another client. *)
LEMMA GoesTyped ==
  ASSUME TInv, NEW t \in Tasks, NEW p \in Places, Goes(t, p),
         NEW d \in Nat, on' = [on EXCEPT ![t] = d],
         p \in Awaits \cup {"close"} => d \in Clients,
         cmd' \in [Users -> AnyCommand], \A u \in Users \ {t} : cmd'[u] = cmd[u],
         t \in Users /\ cmd'[t] \in {"disconnect", "terminate", "shutdown"}
           => p \in {"idle", "bye", "close", "reap"}
  PROVE  at' \in [Tasks -> Places] /\ on' \in [Tasks -> Nat] /\ OnInv' /\ CmdInv'
<1>1. at' = [at EXCEPT ![t] = p] /\ at' \in [Tasks -> Places] /\ on' \in [Tasks -> Nat]
  BY DEF Goes, TInv, TypeOK
<1>2. OnInv'
  BY <1>1 DEF TInv, OnInv, TypeOK
<1>3. CmdInv'
  BY <1>1, TaskNames DEF TInv, CmdInv, TypeOK
<1>. QED
  BY <1>1, <1>2, <1>3

LEMMA DisconnectTyped ==
  ASSUME TInv, NEW t \in Tasks, cmd' \in [Users -> AnyCommand],
         \A u \in Users \ {t} : cmd'[u] = cmd[u], Disconnect(t)
  PROVE  TInv'
<1>1. CASE HardDisconnect(t)
  BY <1>1, HardDisconnectTyped
<1>2. CASE /\ Usable /\ Goes(t, "bye") /\ on' = [on EXCEPT ![t] = dap]
           /\ UNCHANGED <<dap, client, initialized, state, procVars>>
  <2>1. dap \in Clients /\ dap \in Nat
    BY <1>2, BoundsAssumption DEF Usable, TInv, TypeOK, Clients
  <2>2. at' \in [Tasks -> Places] /\ on' \in [Tasks -> Nat] /\ OnInv' /\ CmdInv'
    BY <1>2, <2>1, GoesTyped DEF Places, Awaits
  <2>. QED BY <1>2, <2>2 DEF TInv, TypeOK, procVars, AnyCommand
<1>. QED
  BY <1>1, <1>2 DEF Disconnect

(* The manager's next request *)
LEMMA AskTyped ==
  ASSUME TInv, NEW u \in Users, NEW p \in Awaits, Ask(u, p), UNCHANGED cmd,
         at[u] \notin {"idle", "bye", "close", "reap"}
  PROVE  at' \in [Tasks -> Places] /\ on' \in [Tasks -> Nat] /\ OnInv' /\ CmdInv'
<1>1. u \in Tasks /\ cmd' \in [Users -> AnyCommand]
      /\ cmd'[u] \notin {"disconnect", "terminate", "shutdown"}
  BY TaskNames DEF TInv, TypeOK, CmdInv, AnyCommand
<1>2. CASE Usable
  <2>1. dap \in Clients /\ dap \in Nat
    BY <1>2, BoundsAssumption DEF Usable, TInv, TypeOK, Clients
  <2>2. p \in Places /\ Goes(u, p) /\ on' = [on EXCEPT ![u] = dap]
    BY <1>2 DEF Ask, Places
  <2>. QED BY <1>1, <2>1, <2>2, GoesTyped
<1>3. CASE ~Usable
  <2>1. "idle" \in Places /\ "idle" \notin Awaits \cup {"close"}
        /\ Goes(u, "idle") /\ on' = [on EXCEPT ![u] = 0]
    BY <1>3 DEF Ask, Places, Awaits
  <2>. QED BY <1>1, <2>1, GoesTyped
<1>. QED
  BY <1>2, <1>3

(* What a step keeps that changes neither the client nor the process. *)
SameSession == UNCHANGED <<cmd, dap, client, initialized, state, launched, alive, spawned>>

LEMMA StopsTyped ==
  ASSUME TInv, NEW t \in Tasks, NEW p \in Places \ (Awaits \cup {"close"}), Stops(t, p),
         t \in Users => p = "idle", SameSession
  PROVE  TInv'
<1>1. cmd' \in [Users -> AnyCommand] /\ UNCHANGED cmd
  BY DEF SameSession, TInv, TypeOK, AnyCommand
<1>2. at' \in [Tasks -> Places] /\ on' \in [Tasks -> Nat] /\ OnInv' /\ CmdInv'
  BY <1>1, GoesTyped DEF Stops
<1>. QED
  BY <1>2 DEF SameSession, TInv, TypeOK

LEMMA CommandTyped ==
  ASSUME TInv, NEW u \in Users, NEW k \in Commands, Command(u, k)
  PROVE  TInv'
<1>1. /\ k \in AnyCommand /\ u \in Tasks /\ cmd' = [cmd EXCEPT ![u] = k]
      /\ cmd' \in [Users -> AnyCommand] /\ \A v \in Users \ {u} : cmd'[v] = cmd[v]
      /\ cmd'[u] = k
  BY BoundsAssumption, TaskNames DEF Command, TInv, TypeOK, AnyCommand
<1>2. CASE k = "attach"
  <2>1. Goes(u, "prepare") /\ UNCHANGED <<on, dap, client, initialized, state, procVars>>
    BY <1>2 DEF Command
  <2>2. on' = [on EXCEPT ![u] = on[u]] /\ on[u] \in Nat
    BY <1>1, <2>1 DEF TInv, TypeOK
  <2>3. at' \in [Tasks -> Places] /\ on' \in [Tasks -> Nat] /\ OnInv' /\ CmdInv'
    <3>1. "prepare" \in Places /\ "prepare" \notin Awaits \cup {"close"}
      BY DEF Places, Awaits
    <3>2. cmd'[u] \notin {"disconnect", "terminate", "shutdown"}
      BY <1>1, <1>2
    <3>. QED BY <1>1, <2>1, <2>2, <3>1, <3>2, GoesTyped
  <2>. QED BY <1>1, <2>1, <2>3 DEF TInv, TypeOK, procVars, AnyCommand
<1>3. CASE k # "attach"
  BY <1>1, <1>3, DisconnectTyped DEF Command
<1>. QED
  BY <1>2, <1>3

LEMMA SetupTyped ==
  ASSUME TInv, NEW u \in Users, Setup(u)
  PROVE  TInv'
<1>1. u \in Tasks /\ cmd \in [Users -> AnyCommand] /\ on[u] \in Nat /\ on = [on EXCEPT ![u] = on[u]]
  BY TaskNames DEF TInv, TypeOK, AnyCommand
<1>2. CASE Prepared(u)
  <2>1. UNCHANGED cmd
    BY <1>2 DEF Prepared
  <2>2. CASE Disconnect(u)
    BY <1>1, <2>1, <2>2, DisconnectTyped
  <2>3. CASE /\ at[u] = "prepare" /\ Goes(u, "open")
             /\ UNCHANGED <<on, dap, client, initialized, state, procVars>>
    <3>1. cmd[u] \notin {"disconnect", "terminate", "shutdown"}
      BY <2>3 DEF TInv, CmdInv
    <3>2. at' \in [Tasks -> Places] /\ on' \in [Tasks -> Nat] /\ OnInv' /\ CmdInv'
      BY <1>1, <2>1, <2>3, <3>1, GoesTyped DEF Places, Awaits
    <3>. QED BY <1>1, <2>1, <2>3, <3>2 DEF TInv, TypeOK, procVars
  <2>. QED BY <1>2, <2>2, <2>3 DEF Prepared
<1>3. CASE NotPrepared(u)
  BY <1>1, <1>3, StopsTyped DEF NotPrepared, SameSession, procVars, Places, Awaits
<1>4. CASE Reaped(u)
  <2>. DEFINE p == IF cmd[u] = "launch" THEN "spawn" ELSE "idle"
  <2>1. /\ p \in Places \ (Awaits \cup {"close"}) /\ Goes(u, p)
        /\ on' = [on EXCEPT ![u] = 0] /\ UNCHANGED cmd
        /\ cmd[u] \in {"disconnect", "terminate", "shutdown"} => p = "idle"
    BY <1>4 DEF Reaped, Places, Awaits
  <2>. HIDE DEF p
  <2>2. at' \in [Tasks -> Places] /\ on' \in [Tasks -> Nat] /\ OnInv' /\ CmdInv'
    BY <1>1, <2>1, GoesTyped
  <2>. QED BY <1>1, <1>4, <2>2 DEF Reaped, TInv, TypeOK
<1>5. CASE Spawned(u)
  <2>1. cmd[u] \notin {"disconnect", "terminate", "shutdown"}
    BY <1>5 DEF Spawned, TInv, CmdInv
  <2>2. at' \in [Tasks -> Places] /\ on' \in [Tasks -> Nat] /\ OnInv' /\ CmdInv'
    BY <1>1, <1>5, <2>1, GoesTyped DEF Spawned, Places, Awaits
  <2>3. launched' \in 0..MaxProcs /\ spawned' \in 0..MaxProcs /\ alive' \subseteq 1..spawned'
    BY <1>5, BoundsAssumption DEF Spawned, TInv, TypeOK
  <2>. QED BY <1>1, <1>5, <2>2, <2>3 DEF Spawned, TInv, TypeOK
<1>6. CASE Synchronise(u)
  <2>1. Ask(u, "sync") /\ at[u] = "woken" /\ UNCHANGED <<cmd, dap, client, initialized, state, procVars>>
    BY <1>6 DEF Synchronise
  <2>2. at' \in [Tasks -> Places] /\ on' \in [Tasks -> Nat] /\ OnInv' /\ CmdInv'
    BY <2>1, AskTyped DEF Awaits
  <2>. QED BY <1>1, <2>1, <2>2 DEF TInv, TypeOK, procVars
<1>7. CASE Opened(u)
  <2>1. PICK c \in Clients :
          /\ client' = [client EXCEPT ![c] = "open"] /\ dap' = c /\ on' = [on EXCEPT ![u] = c]
          /\ at' = [at EXCEPT ![u] = "initialize", ![Listener(c)] = "read", ![Handler(c)] = "get"]
    BY <1>7 DEF Opened
  <2>2. c \in Nat /\ c \in 0..MaxClients
    BY BoundsAssumption DEF Clients
  <2>3. cmd[u] \notin {"disconnect", "terminate", "shutdown"} /\ UNCHANGED <<cmd, initialized, state, procVars>>
    BY <1>7 DEF Opened, TInv, CmdInv
  <2>4. at' \in [Tasks -> Places] /\ on' \in [Tasks -> Nat] /\ client' \in [Clients -> Life]
    BY <2>1, <2>2 DEF TInv, TypeOK, Places, Awaits, Life
  <2>5. OnInv'
    BY <1>1, <2>1, TaskNames DEF TInv, TypeOK, OnInv, Awaits
  <2>6. CmdInv'
    BY <1>1, <2>1, <2>3, TaskNames DEF TInv, TypeOK, CmdInv
  <2>. QED BY <1>1, <2>1, <2>2, <2>3, <2>4, <2>5, <2>6 DEF TInv, TypeOK, procVars
<1>. QED
  BY <1>2, <1>3, <1>4, <1>5, <1>6, <1>7 DEF Setup

LEMMA AwaitTyped ==
  ASSUME TInv, NEW u \in Users, Await(u)
  PROVE  TInv'
<1>1. u \in Tasks /\ cmd \in [Users -> AnyCommand] /\ on[u] \in Nat /\ on = [on EXCEPT ![u] = on[u]]
  BY TaskNames DEF TInv, TypeOK, AnyCommand
<1>2. CASE at[u] \in Deadlines /\ cmd' = [cmd EXCEPT ![u] = "failed"] /\ HardDisconnect(u)
  <2>1. cmd' \in [Users -> AnyCommand] /\ \A v \in Users \ {u} : cmd'[v] = cmd[v]
    BY <1>1, <1>2 DEF AnyCommand
  <2>. QED BY <1>1, <1>2, <2>1, HardDisconnectTyped
<1>3. CASE UNCHANGED cmd /\ HardDisconnect(u)
  BY <1>1, <1>3, HardDisconnectTyped
<1>4. CASE Stops(u, "idle") /\ UNCHANGED <<cmd, dap, client, initialized, state, procVars>>
  BY <1>1, <1>4, StopsTyped DEF SameSession, procVars, Places, Awaits
<1>5. CASE Answered(u) /\ at[u] # "bye"
  <2>1. /\ at[u] \notin {"idle", "bye", "close", "reap"}
        /\ UNCHANGED <<cmd, dap, client, initialized, procVars>>
        /\ state' \in {state, "RUNNING"}
    BY <1>5 DEF Answered, Awaits
  <2>2. cmd[u] \notin {"disconnect", "terminate", "shutdown"}
    BY <2>1 DEF TInv, CmdInv
  <2>3. at' \in [Tasks -> Places] /\ on' \in [Tasks -> Nat] /\ OnInv' /\ CmdInv'
    <3>1. CASE at[u] = "initialize"
      <4>1. on' = on /\ \E p \in {"idle", "woken", "initialized"} : Goes(u, p)
        BY <1>5, <3>1 DEF Answered
      <4>2. PICK p \in {"idle", "woken", "initialized"} : Goes(u, p)
        BY <4>1
      <4>3. p \in Places /\ p \notin Awaits \cup {"close"}
        BY DEF Places, Awaits
      <4>. QED BY <1>1, <2>1, <2>2, <4>1, <4>2, <4>3, GoesTyped
    <3>2. CASE at[u] # "initialize" /\ \E p \in {"configure", "threads", "pause"} : Ask(u, p)
      <4>1. PICK p \in {"configure", "threads", "pause"} : Ask(u, p)
        BY <3>2
      <4>2. p \in Awaits
        BY DEF Awaits
      <4>. QED BY <2>1, <4>1, <4>2, AskTyped
    <3>3. CASE Goes(u, "idle") /\ on' = [on EXCEPT ![u] = 0]
      <4>1. "idle" \in Places /\ "idle" \notin Awaits \cup {"close"}
        BY DEF Places, Awaits
      <4>. QED BY <1>1, <2>1, <2>2, <3>3, <4>1, GoesTyped
    <3>. QED BY <1>5, <3>1, <3>2, <3>3 DEF Answered
  <2>. QED BY <1>1, <2>1, <2>3 DEF TInv, TypeOK, procVars
<1>. QED
  BY <1>2, <1>3, <1>4, <1>5 DEF Await, Answered, Failed, Cancelled

LEMMA CloseTyped ==
  ASSUME TInv, NEW t \in Tasks, Close(t)
  PROVE  TInv'
<1>1. cmd' \in [Users -> AnyCommand] /\ UNCHANGED cmd
  BY DEF Close, CloseEnds, CloseRaises, TInv, TypeOK, AnyCommand
<1>2. CASE CloseEnds(t)
  <2>1. client' \in [Clients -> Life]
    BY <1>2 DEF CloseEnds, TInv, TypeOK, Life
  <2>. QED BY <1>1, <1>2, <2>1, ResetTyped DEF CloseEnds
<1>3. CASE CloseRaises(t)
  <2>1. client' \in [Clients -> Life]
    BY <1>3 DEF CloseRaises, TInv, TypeOK, Life
  <2>2. PICK p \in {"idle", "dead"} : Stops(t, p) /\ (t \in Users => p = "idle")
    BY <1>3 DEF CloseRaises
  <2>3. p \in Places \ (Awaits \cup {"close"})
    BY DEF Places, Awaits
  <2>4. at' \in [Tasks -> Places] /\ on' \in [Tasks -> Nat] /\ OnInv' /\ CmdInv'
    BY <1>1, <2>2, <2>3, GoesTyped DEF Stops
  <2>. QED BY <1>1, <1>3, <2>1, <2>4 DEF CloseRaises, TInv, TypeOK, procVars
<1>. QED
  BY <1>2, <1>3 DEF Close

(* The tasks of a client *)
LEMMA TaskOfClientTyped ==
  ASSUME TInv, NEW c \in Clients, Serve(c) \/ World(c)
  PROVE  TInv'
<1>1. /\ cmd' \in [Users -> AnyCommand] /\ UNCHANGED cmd
      /\ Listener(c) \in Tasks /\ Handler(c) \in Tasks
      /\ Listener(c) \notin Users /\ Handler(c) \notin Users
  <2>1. UNCHANGED cmd
    BY DEF Serve, World, Report, HandlerResumes, Lost, EventInitialized, EventStopped,
           EventContinued, EventEnded
  <2>. QED BY <2>1, TaskNames DEF TInv, TypeOK, AnyCommand
<1>2. CASE Report(c) \/ EventEnded(c) \/ (at[Handler(c)] = "bye" /\ HardDisconnect(Handler(c)))
  BY <1>1, <1>2, HardDisconnectTyped, DisconnectTyped DEF Report, EventEnded
<1>3. CASE /\ \E p \in {"get", "dead"} : Goes(Handler(c), p)
           /\ on' = [on EXCEPT ![Handler(c)] = 0]
           /\ UNCHANGED <<dap, client, initialized, state, procVars>>
  <2>1. PICK p \in {"get", "dead"} : Goes(Handler(c), p)
    BY <1>3
  <2>2. p \in Places \ (Awaits \cup {"close"})
    BY DEF Places, Awaits
  <2>. QED BY <1>1, <1>3, <2>1, <2>2, StopsTyped DEF Stops, SameSession, procVars
<1>4. CASE Lost(c)
  <2>1. /\ client' = [d \in Clients |-> IF d = c THEN "lost"
                                        ELSE IF d \in CutShort(c) THEN "aborted" ELSE client[d]]
        /\ at' = [at EXCEPT ![Listener(c)] = "flush", ![Handler(c)] = "dead"]
        /\ on' = [on EXCEPT ![Handler(c)] = 0]
        /\ UNCHANGED <<dap, initialized, state, procVars>>
    BY <1>4 DEF Lost
  <2>2. client' \in [Clients -> Life] /\ at' \in [Tasks -> Places] /\ on' \in [Tasks -> Nat]
    BY <2>1 DEF TInv, TypeOK, Life, Places
  <2>3. OnInv' /\ CmdInv'
    BY <1>1, <2>1, TaskNames DEF TInv, TypeOK, OnInv, CmdInv, Awaits
  <2>. QED BY <1>1, <2>1, <2>2, <2>3 DEF TInv, TypeOK, procVars
<1>5. CASE EventInitialized(c)
  <2>1. /\ at' = [x \in Tasks |-> IF at[x] = "initialized" THEN "woken" ELSE at[x]]
        /\ UNCHANGED <<on, cmd, dap, client, state, procVars>>
    BY <1>5 DEF EventInitialized
  <2>2. at' \in [Tasks -> Places]
    BY <2>1 DEF TInv, TypeOK, Places
  <2>3. OnInv' /\ CmdInv'
    BY <2>1, TaskNames DEF TInv, TypeOK, OnInv, CmdInv, Awaits
  <2>4. initialized' \in BOOLEAN
    BY <1>5, Zenon DEF EventInitialized
  <2>. QED BY <2>1, <2>2, <2>3, <2>4 DEF TInv, TypeOK, procVars
<1>6. CASE EventStopped(c)
  <2>1. /\ state' \in {"PAUSED"} /\ UNCHANGED <<cmd, dap, client, initialized, procVars>>
        /\ Goes(Handler(c), IF Usable THEN "refresh" ELSE "dead")
        /\ on' = [on EXCEPT ![Handler(c)] = IF Usable THEN dap ELSE 0]
    BY <1>6 DEF EventStopped
  <2>2. PICK p \in {"refresh", "dead"} : Goes(Handler(c), p)
    BY <2>1
  <2>3. PICK d \in Nat : on' = [on EXCEPT ![Handler(c)] = d]
    <3>1. dap \in Nat
      BY BoundsAssumption DEF TInv, TypeOK
    <3>2. CASE Usable
      BY <2>1, <3>1, <3>2
    <3>3. CASE ~Usable
      BY <2>1, <3>3
    <3>. QED BY <3>2, <3>3
  <2>4. p \in Places /\ p \notin Awaits \cup {"close"}
    BY DEF Places, Awaits
  <2>5. at' \in [Tasks -> Places] /\ on' \in [Tasks -> Nat] /\ OnInv' /\ CmdInv'
    BY <1>1, <2>2, <2>3, <2>4, GoesTyped
  <2>. QED BY <2>1, <2>5 DEF TInv, TypeOK, procVars
<1>7. CASE EventContinued(c)
  BY <1>7 DEF EventContinued, TInv, TypeOK, OnInv, CmdInv, procVars
<1>. QED
  BY <1>2, <1>3, <1>4, <1>5, <1>6, <1>7 DEF Serve, World, HandlerResumes

LEMMA TInit == Init => TInv
<1>. SUFFICES ASSUME Init PROVE TInv
  OBVIOUS
<1>1. at \in [Tasks -> Places] /\ \A t \in Tasks : at[t] \in {"idle", "dead"}
  BY DEF Init, Places
<1>2. OnInv /\ CmdInv
  BY <1>1, TaskNames DEF OnInv, CmdInv, Init, Awaits
<1>3. initialized \in BOOLEAN
  BY Zenon DEF Init
<1>. QED
  BY <1>1, <1>2, <1>3, BoundsAssumption DEF Init, TInv, TypeOK, AllCommands, Life

LEMMA TStep == TInv /\ [Next]_vars => TInv'
<1>. SUFFICES ASSUME TInv, [Next]_vars PROVE TInv'
  OBVIOUS
<1>1. CASE \E p \in Procs : Exits(p)
  BY <1>1 DEF Exits, TInv, TypeOK, OnInv, CmdInv
<1>2. CASE UNCHANGED vars
  BY <1>2 DEF vars, TInv, TypeOK, OnInv, CmdInv
<1>. QED
  BY <1>1, <1>2, CommandTyped, SetupTyped, AwaitTyped, CloseTyped, TaskOfClientTyped DEF Next

LEMMA TInvariance == Spec => []TInv
  BY TInit, TStep, PTL DEF Spec

(* Every variable keeps its type: in particular no task gets to a place    *)
(* that the code does not have, and no process or client is invented.      *)
THEOREM SessionTypeCorrect == Spec => []TypeOK
<1>1. TInv => TypeOK
  BY DEF TInv
<1>. QED
  BY <1>1, TInvariance, PTL

-----------------------------------------------------------------------------
(* Processes, for one user *)

(* A process that lives is in _launched, or the user has taken it from     *)
(* there to end it; while he does, and until a new one is there, _launched *)
(* is empty.                                                               *)
ProcInv(u) ==
  /\ at[u] \in {"reap", "spawn"} => launched = 0
  /\ \A p \in alive : p = launched \/ (at[u] = "reap" /\ on[u] = p)

LEMMA ProcReset ==
  ASSUME NEW u, Users = {u}, TInv, ProcInv(u), NEW t \in Tasks, Reset(t),
         t = u => at[u] # "reap"
  PROVE  ProcInv(u)'
<1>1. u \in Tasks
  BY TaskNames
<1>2. CASE t = u
  <2>1. at'[u] = AfterReset(u) /\ alive' = alive /\ \A p \in alive : p = launched
    BY <1>1, <1>2 DEF Reset, ProcInv
  <2>2. CASE Reaps(u)
    <3>1. on'[u] = launched /\ launched' = 0
      BY <1>1, <1>2, <2>2 DEF Reset, TInv, TypeOK
    <3>2. AfterReset(u) = "reap"
      BY <1>2, <2>2 DEF AfterReset, Reaps
    <3>. QED BY <2>1, <3>1, <3>2 DEF ProcInv
  <2>3. CASE ~Reaps(u)
    <3>1. launched' = launched
      BY <1>2, <2>3 DEF Reset
    <3>2. AfterReset(u) \notin {"reap", "spawn"}
      BY <1>2, <2>3 DEF AfterReset
    <3>. QED BY <2>1, <3>1, <3>2 DEF ProcInv
  <2>. QED BY <2>2, <2>3
<1>3. CASE t # u
  <2>1. ~Reaps(t)
    BY <1>3 DEF Reaps
  <2>2. launched' = launched /\ alive' = alive /\ on'[u] = on[u]
    BY <1>1, <1>3, <2>1 DEF Reset, TInv, TypeOK
  <2>3. at'[u] = IF at[u] = "initialized" THEN "orphaned" ELSE at[u]
    BY <1>1, <1>3 DEF Reset
  <2>. QED BY <2>2, <2>3 DEF ProcInv
<1>. QED
  BY <1>2, <1>3

LEMMA ProcCloseBegins ==
  ASSUME NEW u, Users = {u}, TInv, ProcInv(u), NEW t \in Tasks, NEW c \in Clients,
         CloseBegins(t, c), t = u => at[u] # "reap"
  PROVE  ProcInv(u)'
<1>1. u \in Tasks /\ u # Listener(c) /\ u # Handler(c)
  BY TaskNames
<1>2. launched' = launched /\ alive' = alive
  BY DEF CloseBegins, procVars
<1>3. at'[u] = IF u = t THEN "close" ELSE at[u]
  BY <1>1 DEF CloseBegins
<1>4. u # t => on'[u] = on[u]
  BY <1>1 DEF CloseBegins
<1>. QED
  BY <1>2, <1>3, <1>4 DEF ProcInv

LEMMA ProcHardDisconnect ==
  ASSUME NEW u, Users = {u}, TInv, ProcInv(u), NEW t \in Tasks, HardDisconnect(t),
         t = u => at[u] # "reap"
  PROVE  ProcInv(u)'
<1>1. Usable => dap \in Clients
  BY BoundsAssumption DEF Usable, TInv, TypeOK, Clients
<1>. QED
  BY <1>1, ProcReset, ProcCloseBegins DEF HardDisconnect

(* A task goes on and leaves the processes alone. *)
LEMMA ProcGoes ==
  ASSUME NEW u, Users = {u}, TInv, ProcInv(u), NEW t \in Tasks, NEW p, Goes(t, p),
         t = u => at[u] # "reap" /\ p \notin {"reap", "spawn"},
         t # u => on'[u] = on[u], UNCHANGED procVars
  PROVE  ProcInv(u)'
<1>1. u \in Tasks
  BY TaskNames
<1>2. at'[u] = IF t = u THEN p ELSE at[u]
  BY <1>1 DEF Goes, TInv, TypeOK
<1>. QED
  BY <1>2 DEF ProcInv, procVars

LEMMA ProcDisconnect ==
  ASSUME NEW u, Users = {u}, TInv, ProcInv(u), NEW t \in Tasks, Disconnect(t),
         t = u => at[u] # "reap"
  PROVE  ProcInv(u)'
<1>1. CASE HardDisconnect(t)
  BY <1>1, ProcHardDisconnect
<1>2. CASE Goes(t, "bye") /\ on' = [on EXCEPT ![t] = dap] /\ UNCHANGED procVars
  <2>1. t # u => on'[u] = on[u]
    BY <1>2, TaskNames DEF TInv, TypeOK
  <2>. QED BY <1>2, <2>1, ProcGoes
<1>. QED
  BY <1>1, <1>2 DEF Disconnect

LEMMA ProcCommandStep ==
  ASSUME NEW u, Users = {u}, TInv, ProcInv(u),
         (\E k \in Commands : Command(u, k)) \/ Setup(u) \/ Await(u)
  PROVE  ProcInv(u)'
<1>1. u \in Tasks
  BY TaskNames
<1>2. CASE Disconnect(u) /\ at[u] # "reap"
  BY <1>1, <1>2, ProcDisconnect
<1>3. CASE HardDisconnect(u) /\ at[u] # "reap"
  BY <1>1, <1>3, ProcHardDisconnect
<1>4. CASE /\ \E p \in Places \ {"reap", "spawn"} : Goes(u, p)
           /\ at[u] # "reap" /\ UNCHANGED procVars
  BY <1>1, <1>4, ProcGoes
<1>5. CASE Reaped(u)
  <2>1. at'[u] \in {"spawn", "idle"} /\ launched' = launched /\ alive' = alive \ {on[u]}
    BY <1>1, <1>5 DEF Reaped, Goes, TInv, TypeOK
  <2>2. at[u] = "reap"
    BY <1>5 DEF Reaped
  <2>. QED BY <2>1, <2>2 DEF ProcInv
<1>6. CASE Spawned(u)
  <2>1. at[u] = "spawn" /\ at'[u] = "open" /\ launched' = spawned + 1
        /\ alive' = alive \cup {spawned + 1}
    BY <1>1, <1>6 DEF Spawned, Goes, TInv, TypeOK
  <2>2. \A p \in alive : p = 0
    BY <2>1 DEF ProcInv
  <2>3. alive = {}
    <3>1. \A p \in alive : p \in 1..spawned
      BY DEF TInv, TypeOK
    <3>2. spawned \in Nat
      BY BoundsAssumption DEF TInv, TypeOK
    <3>. QED BY <2>2, <3>1, <3>2
  <2>. QED BY <2>1, <2>3 DEF ProcInv
<1>7. CASE Opened(u)
  <2>1. PICK c \in Clients :
          at' = [at EXCEPT ![u] = "initialize", ![Listener(c)] = "read", ![Handler(c)] = "get"]
    BY <1>7 DEF Opened
  <2>2. at'[u] = "initialize" /\ at[u] = "open" /\ UNCHANGED procVars
    BY <1>1, <1>7, <2>1, TaskNames DEF Opened, TInv, TypeOK
  <2>. QED BY <2>2 DEF ProcInv, procVars
<1>8. CASE \E k \in Commands : Command(u, k)
  BY <1>2, <1>4, <1>8 DEF Command, Places, Awaits
<1>9. CASE Prepared(u) \/ NotPrepared(u)
  BY <1>2, <1>4, <1>9 DEF Prepared, NotPrepared, Stops, Places, Awaits
<1>10. CASE Synchronise(u)
  <2>1. \E p \in {"sync", "idle"} : Goes(u, p)
    BY <1>10 DEF Synchronise, Ask
  <2>. QED BY <1>4, <1>10, <2>1 DEF Synchronise, Places, Awaits
<1>11. CASE Answered(u) /\ at[u] # "bye"
  <2>1. \E p \in {"idle", "woken", "initialized", "configure", "threads", "pause"} : Goes(u, p)
    BY <1>11 DEF Answered, Ask
  <2>. QED BY <1>4, <1>11, <2>1 DEF Answered, Places, Awaits
<1>12. CASE Await(u) /\ ~(Answered(u) /\ at[u] # "bye")
  BY <1>3, <1>4, <1>12 DEF Await, Answered, Failed, Cancelled, Deadlines, Stops, Places, Awaits
<1>. QED
  BY <1>5, <1>6, <1>7, <1>8, <1>9, <1>10, <1>11, <1>12 DEF Setup, Await

LEMMA ProcTaskOfClient ==
  ASSUME NEW u, Users = {u}, TInv, ProcInv(u), NEW c \in Clients, Serve(c) \/ World(c)
  PROVE  ProcInv(u)'
<1>1. /\ u \in Tasks /\ Listener(c) \in Tasks /\ Handler(c) \in Tasks
      /\ Listener(c) # u /\ Handler(c) # u
  BY TaskNames
<1>2. CASE \E t \in {Listener(c), Handler(c)} : HardDisconnect(t) \/ Disconnect(t)
  BY <1>1, <1>2, ProcHardDisconnect, ProcDisconnect
<1>3. CASE /\ \E p \in Places : Goes(Handler(c), p)
           /\ \E d \in Nat : on' = [on EXCEPT ![Handler(c)] = d]
           /\ UNCHANGED procVars
  <2>1. on'[u] = on[u]
    BY <1>1, <1>3 DEF TInv, TypeOK
  <2>. QED BY <1>1, <1>3, <2>1, ProcGoes
<1>4. CASE Lost(c) \/ EventInitialized(c) \/ EventContinued(c)
  <2>1. at'[u] = at[u] \/ (at[u] = "initialized" /\ at'[u] = "woken")
    BY <1>1, <1>4 DEF Lost, EventInitialized, EventContinued, TInv, TypeOK
  <2>2. on'[u] = on[u] /\ UNCHANGED procVars
    BY <1>1, <1>4 DEF Lost, EventInitialized, EventContinued, TInv, TypeOK
  <2>. QED BY <2>1, <2>2 DEF ProcInv, procVars
<1>5. CASE EventStopped(c)
  <2>1. /\ Goes(Handler(c), IF Usable THEN "refresh" ELSE "dead")
        /\ on' = [on EXCEPT ![Handler(c)] = IF Usable THEN dap ELSE 0] /\ UNCHANGED procVars
    BY <1>5 DEF EventStopped
  <2>2. \E p \in Places : Goes(Handler(c), p)
    BY <2>1 DEF Places
  <2>3. on'[u] = on[u]
    BY <1>1, <2>1 DEF TInv, TypeOK
  <2>. QED BY <1>1, <2>1, <2>2, <2>3, ProcGoes
<1>6. CASE HandlerResumes(c) /\ at[Handler(c)] # "bye"
  <2>1. /\ \E p \in {"get", "dead"} : Goes(Handler(c), p)
        /\ on' = [on EXCEPT ![Handler(c)] = 0] /\ UNCHANGED procVars
    BY <1>6 DEF HandlerResumes
  <2>. QED BY <1>3, <2>1 DEF Places, Awaits
<1>. QED
  BY <1>2, <1>4, <1>5, <1>6 DEF Serve, World, Report, HandlerResumes, EventEnded

LEMMA ProcStep ==
  ASSUME NEW u, Users = {u}
  PROVE  TInv /\ ProcInv(u) /\ [Next]_vars => ProcInv(u)'
<1>. SUFFICES ASSUME TInv, ProcInv(u), [Next]_vars PROVE ProcInv(u)'
  OBVIOUS
<1>1. CASE \E t \in Tasks : Close(t)
  <2>1. PICK t \in Tasks : Close(t)
    BY <1>1
  <2>2. CASE CloseEnds(t)
    BY <2>2, ProcReset DEF CloseEnds
  <2>3. CASE CloseRaises(t)
    <3>1. PICK p \in {"idle", "dead"} : Stops(t, p)
      BY <2>3 DEF CloseRaises
    <3>2. t # u => on'[u] = on[u]
      BY <3>1, TaskNames DEF Stops, TInv, TypeOK
    <3>. QED BY <2>3, <3>1, <3>2, ProcGoes DEF CloseRaises, Stops
  <2>. QED BY <2>1, <2>2, <2>3 DEF Close
<1>2. CASE \E p \in Procs : Exits(p)
  BY <1>2 DEF Exits, ProcInv
<1>3. CASE UNCHANGED vars
  BY <1>3 DEF vars, ProcInv
<1>. QED
  BY <1>1, <1>2, <1>3, ProcCommandStep, ProcTaskOfClient DEF Next

(* With one user a launched process that lives is always found again: it   *)
(* is in _launched, or a command that took it from there is ending it.     *)
THEOREM NoProcessIsLost ==
  ASSUME NEW u, Users = {u}
  PROVE  Spec => []NoOrphanProcess
<1>1. Init => ProcInv(u)
  BY DEF Init, ProcInv
<1>2. TInv /\ ProcInv(u) /\ [Next]_vars => ProcInv(u)'
  BY ProcStep
<1>3. ProcInv(u) => NoOrphanProcess
  BY DEF ProcInv, NoOrphanProcess
<1>. QED
  BY <1>1, <1>2, <1>3, TInvariance, PTL DEF Spec

-----------------------------------------------------------------------------
(* The session, for one user *)

(* The tasks of a client work only while it is open, and only the client   *)
(* of the session is open.                                                 *)
OpenInv ==
  \A c \in Clients :
    /\ at[Listener(c)] = "read" => client[c] = "open"
    /\ at[Handler(c)] # "dead" => client[c] = "open"
    /\ client[c] = "open" => dap = c

NoneOpen == \A c \in Clients : client[c] # "open"

(* Only the user closes clients, and what he closes is the session's. *)
ClosingInv(u) ==
  /\ \A t \in Tasks : at[t] = "close" => t = u
  /\ at[u] = "close" => client[on[u]] = "closing" /\ dap = on[u]
  /\ \A c \in Clients : client[c] = "closing" => at[u] = "close" /\ on[u] = c
  /\ at[u] \in Awaits => client[on[u]] # "closed"

(* Where no connection is open: while a loss is being reported, and on the *)
(* way from the reset to a new connection.                                 *)
OnItsWay(u) == \/ at[u] \in {"open", "spawn", "reap"}
               \/ at[u] = "prepare" /\ cmd[u] = "safe_attach"
DownInv(u) ==
  /\ OnItsWay(u) => NoneOpen
  /\ \A c \in Clients : at[Listener(c)] = "flush" => NoneOpen /\ at[u] # "close"

Good(u) == /\ OpenInv /\ ClosingInv(u) /\ DownInv(u)
           /\ state # "DISCONNECTED" => dap # 0

SessionInv(u) == prompt => Good(u)

LEMMA GoodReset ==
  ASSUME NEW u, Users = {u}, TInv, Good(u), NEW t \in Tasks, Reset(t), NoneOpen,
         \A c \in Clients : t # Handler(c) /\ client'[c] \notin {"open", "closing"},
         \A x \in Tasks \ {t} : at[x] # "close",
         t # u => client' = client
  PROVE  Good(u)'
<1>. DEFINE p == AfterReset(t)
<1>1. p \notin Awaits \cup {"close", "initialized"}
  BY AfterResetPlace
<1>2. p \notin {"read", "flush"}
  BY DEF AfterReset
<1>3. at' = [x \in Tasks |-> IF x = t THEN p
                             ELSE IF at[x] = "initialized" THEN "orphaned" ELSE at[x]]
  BY DEF Reset
<1>. HIDE DEF p
<1>4. NoneOpen'
  BY DEF NoneOpen
<1>5. OpenInv'
  BY <1>2, <1>3, TaskNames DEF Good, OpenInv, NoneOpen
<1>6. \A x \in Tasks : at'[x] # "close"
  BY <1>1, <1>3
<1>7. ClosingInv(u)'
  <2>1. ASSUME at'[u] \in Awaits PROVE client'[on'[u]] # "closed"
    <3>1. u # t /\ at'[u] = at[u]
      BY <1>1, <1>3, <2>1, TaskNames DEF Awaits
    <3>2. on'[u] = on[u]
      BY <3>1, TaskNames DEF Reset, TInv, TypeOK
    <3>. QED BY <2>1, <3>1, <3>2 DEF Good, ClosingInv
  <2>. QED BY <1>6, <2>1, TaskNames DEF ClosingInv
<1>8. DownInv(u)'
  BY <1>4, <1>6, TaskNames DEF DownInv
<1>. QED
  BY <1>5, <1>7, <1>8 DEF Good, Reset

LEMMA GoodCloseBegins ==
  ASSUME NEW u, Users = {u}, TInv, Good(u), NEW t \in Tasks, Usable, CloseBegins(t, dap),
         t \in {u, Handler(dap)}
  PROVE  Good(u)'
<1>1. dap \in Clients /\ client[dap] = "open" /\ at[u] # "close"
  BY BoundsAssumption DEF Usable, TInv, TypeOK, Clients, Good, ClosingInv
<1>2. \A x \in Tasks : at[x] # "close"
  BY <1>1 DEF Good, ClosingInv
<1>3. client' = [client EXCEPT ![dap] = IF t = Handler(dap) THEN "aborted" ELSE "closing"]
  <2>1. CutShort(dap) = {}
    BY <1>1, <1>2, TaskNames DEF CutShort
  <2>. QED BY <2>1 DEF CloseBegins, TInv, TypeOK
<1>4. at' = [x \in Tasks |-> IF x \in {Listener(dap), Handler(dap)} THEN "dead"
                             ELSE IF x = t THEN "close" ELSE at[x]]
  BY DEF CloseBegins
<1>5. on' = [x \in Tasks |-> IF x = Handler(dap) THEN 0 ELSE IF x = t THEN dap ELSE on[x]]
  BY DEF CloseBegins
<1>6. \A c \in Clients : client[c] = "open" => c = dap
  BY DEF Good, OpenInv
<1>7. NoneOpen'
  BY <1>1, <1>3, <1>6 DEF NoneOpen, TInv, TypeOK
<1>8. u \in Tasks /\ u # Listener(dap) /\ u # Handler(dap)
  BY <1>1, TaskNames
<1>9. \A c \in Clients : at'[Listener(c)] # "read" /\ at'[Handler(c)] = "dead"
  BY <1>1, <1>4, <1>6, <1>8, TaskNames DEF Good, OpenInv
<1>10. OpenInv'
  BY <1>7, <1>9 DEF OpenInv, NoneOpen
<1>11. dap' = dap /\ state' = state
  BY DEF CloseBegins
<1>12. ClosingInv(u)'
  <2>1. \A x \in Tasks : at'[x] = "close" => x = u
    BY <1>2, <1>4
  <2>2. at'[u] = "close" => client'[on'[u]] = "closing" /\ dap' = on'[u]
    BY <1>1, <1>2, <1>3, <1>4, <1>5, <1>8, <1>11 DEF TInv, TypeOK
  <2>3. \A c \in Clients : client'[c] = "closing" => at'[u] = "close" /\ on'[u] = c
    BY <1>1, <1>3, <1>4, <1>5, <1>8 DEF Good, ClosingInv, TInv, TypeOK
  <2>4. at'[u] \in Awaits => client'[on'[u]] # "closed"
    <3>1. at'[u] \in Awaits => at'[u] = at[u] /\ on'[u] = on[u]
      BY <1>4, <1>5, <1>8 DEF Awaits
    <3>2. at[u] \in Awaits => client[on[u]] # "closed" /\ on[u] \in Clients
      BY <1>8 DEF Good, ClosingInv, TInv, OnInv
    <3>. QED BY <1>1, <1>3, <3>1, <3>2 DEF TInv, TypeOK
  <2>. QED BY <2>1, <2>2, <2>3, <2>4 DEF ClosingInv
<1>13. DownInv(u)'
  <2>1. \A c \in Clients : at'[Listener(c)] # "flush"
    BY <1>1, <1>4, <1>8, TaskNames DEF Good, DownInv, NoneOpen
  <2>. QED BY <1>7, <2>1 DEF DownInv
<1>. QED
  BY <1>10, <1>11, <1>12, <1>13 DEF Good

LEMMA GoodHardDisconnect ==
  ASSUME NEW u, Users = {u}, TInv, Good(u), NEW t \in Tasks, HardDisconnect(t),
         \/ t = u /\ at[u] # "close"
         \/ \E c \in Clients : \/ t = Listener(c) /\ at[t] = "flush"
                               \/ t = Handler(c) /\ at[t] # "dead"
  PROVE  Good(u)'
<1>1. CASE Usable /\ CloseBegins(t, dap)
  <2>1. dap \in Clients /\ client[dap] = "open"
    BY <1>1, BoundsAssumption DEF Usable, TInv, TypeOK, Clients
  <2>2. t \in {u, Handler(dap)}
    BY <2>1 DEF Good, DownInv, NoneOpen, OpenInv
  <2>. QED BY <1>1, <2>2, GoodCloseBegins
<1>2. CASE ~Usable /\ Reset(t) /\ UNCHANGED client
  <2>1. NoneOpen
    <3>1. \A c \in Clients : c # 0
      BY DEF Clients
    <3>. QED BY <1>2, <3>1 DEF Usable, NoneOpen, Good, OpenInv
  <2>2. \A c \in Clients : t # Handler(c)
    BY <2>1, TaskNames DEF Good, OpenInv, NoneOpen
  <2>3. at[u] # "close"
    BY <2>2 DEF Good, DownInv
  <2>4. \A x \in Tasks : at[x] # "close"
    BY <2>3 DEF Good, ClosingInv
  <2>5. \A c \in Clients : client'[c] \notin {"open", "closing"}
    BY <1>2, <2>1, <2>3 DEF NoneOpen, Good, ClosingInv
  <2>. QED BY <1>2, <2>1, <2>2, <2>4, <2>5, GoodReset
<1>. QED
  BY <1>1, <1>2 DEF HardDisconnect

(* A task goes on and leaves the clients alone. *)
LEMMA GoodGoes ==
  ASSUME NEW u, Users = {u}, TInv, Good(u), NEW t \in Tasks, NEW p, Goes(t, p),
         NEW d, on' = [on EXCEPT ![t] = d], UNCHANGED <<dap, client>>,
         state' # "DISCONNECTED" => dap # 0,
         \/ /\ t = u /\ at[u] # "close" /\ p # "close" /\ (OnItsWay(u)' => NoneOpen)
            /\ p \in Awaits => client[d] # "closed"
         \/ /\ cmd'[u] = cmd[u] /\ p \in {"bye", "refresh", "get", "dead"}
            /\ \E c \in Clients : t = Handler(c) /\ at[t] # "dead"
  PROVE  Good(u)'
<1>1. /\ u \in Tasks /\ at'[t] = p /\ on'[t] = d
      /\ \A x \in Tasks \ {t} : at'[x] = at[x] /\ on'[x] = on[x]
  BY TaskNames DEF Goes, TInv, TypeOK
<1>2. OpenInv'
  BY <1>1, TaskNames DEF Good, OpenInv
<1>3. ClosingInv(u)'
  BY <1>1, TaskNames DEF Good, ClosingInv
<1>4. DownInv(u)'
  <2>1. OnItsWay(u)' => NoneOpen
    BY <1>1, TaskNames DEF Good, DownInv, OnItsWay
  <2>2. NoneOpen' <=> NoneOpen
    BY DEF NoneOpen
  <2>3. ASSUME NEW c \in Clients, at'[Listener(c)] = "flush"
        PROVE  NoneOpen /\ at'[u] # "close"
    <3>1. at[Listener(c)] = "flush"
      BY <1>1, <2>3, TaskNames
    <3>. QED BY <1>1, <3>1 DEF Good, DownInv
  <2>. QED BY <2>1, <2>2, <2>3 DEF DownInv
<1>. QED
  BY <1>2, <1>3, <1>4 DEF Good

LEMMA GoodDisconnect ==
  ASSUME NEW u, Users = {u}, TInv, Good(u), NEW t \in Tasks, Disconnect(t),
         \/ t = u /\ at[u] # "close"
         \/ cmd'[u] = cmd[u] /\ \E c \in Clients : t = Handler(c) /\ at[t] # "dead"
  PROVE  Good(u)'
<1>1. CASE HardDisconnect(t)
  BY <1>1, GoodHardDisconnect
<1>2. CASE /\ Usable /\ Goes(t, "bye") /\ on' = [on EXCEPT ![t] = dap]
           /\ UNCHANGED <<dap, client, initialized, state, procVars>>
  <2>1. t = u => ~OnItsWay(u)'
    BY <1>2 DEF OnItsWay, Goes, TInv, TypeOK
  <2>2. state' # "DISCONNECTED" => dap # 0
    BY <1>2 DEF Good
  <2>3. client[dap] # "closed" /\ "bye" # "close"
    BY <1>2 DEF Usable
  <2>. QED BY <1>2, <2>1, <2>2, <2>3, GoodGoes
<1>. QED
  BY <1>1, <1>2 DEF Disconnect

(* A command asks the client of the session. *)
LEMMA GoodAsk ==
  ASSUME NEW u, Users = {u}, TInv, Good(u), NEW p \in Awaits, Ask(u, p), at[u] # "close",
         state' # "DISCONNECTED" => dap # 0, UNCHANGED <<dap, client>>
  PROVE  Good(u)'
<1>1. u \in Tasks /\ p \in Places /\ p # "close"
      /\ p \notin {"open", "spawn", "reap", "prepare"}
  BY TaskNames DEF Awaits, Places
<1>2. CASE Usable
  <2>1. Goes(u, p) /\ on' = [on EXCEPT ![u] = dap] /\ client[dap] # "closed"
    BY <1>2 DEF Ask, Usable
  <2>2. ~OnItsWay(u)'
    BY <1>1, <2>1 DEF OnItsWay, Goes, TInv, TypeOK
  <2>. QED BY <1>1, <2>1, <2>2, GoodGoes
<1>3. CASE ~Usable
  <2>1. Goes(u, "idle") /\ on' = [on EXCEPT ![u] = 0] /\ "idle" \notin Awaits /\ "idle" # "close"
    BY <1>3 DEF Ask, Awaits
  <2>2. ~OnItsWay(u)'
    BY <1>1, <2>1 DEF OnItsWay, Goes, TInv, TypeOK
  <2>. QED BY <1>1, <2>1, <2>2, GoodGoes
<1>. QED
  BY <1>2, <1>3

(* A command goes on while no connection is open, or to a place that does  *)
(* not need that.                                                          *)
LEMMA GoodWalks ==
  ASSUME NEW u, Users = {u}, TInv, Good(u),
         NEW p \in {"idle", "prepare", "open", "spawn", "initialized", "woken"}, Goes(u, p),
         NEW d, on' = [on EXCEPT ![u] = d], UNCHANGED <<dap, client>>,
         state' # "DISCONNECTED" => dap # 0, at[u] # "close",
         \/ p \in {"idle", "initialized", "woken"}
         \/ p = "prepare" /\ cmd'[u] = "attach"
         \/ OnItsWay(u)
  PROVE  Good(u)'
<1>1. u \in Tasks /\ at'[u] = p
  BY TaskNames DEF Goes, TInv, TypeOK
<1>2. OnItsWay(u)' => NoneOpen
  BY <1>1 DEF OnItsWay, Good, DownInv
<1>3. p \notin Awaits /\ p # "close"
  BY DEF Awaits
<1>. QED
  BY <1>1, <1>2, <1>3, GoodGoes

LEMMA GoodOpened ==
  ASSUME NEW u, Users = {u}, TInv, Good(u), Opened(u), prompt'
  PROVE  Good(u)'
<1>1. PICK c \in Clients :
        /\ client' = [client EXCEPT ![c] = "open"] /\ dap' = c /\ on' = [on EXCEPT ![u] = c]
        /\ at' = [at EXCEPT ![u] = "initialize", ![Listener(c)] = "read", ![Handler(c)] = "get"]
  BY DEF Opened
<1>2. at[u] = "open" /\ NoneOpen
  BY DEF Opened, Good, DownInv, OnItsWay
<1>3. \A t \in Tasks : at[t] \notin {"close", "flush"}
  BY DEF Opened, BeingClosed
<1>4. /\ u \in Tasks /\ at'[u] = "initialize" /\ on'[u] = c
      /\ at'[Listener(c)] = "read" /\ at'[Handler(c)] = "get"
      /\ \A x \in Tasks \ {u, Listener(c), Handler(c)} : at'[x] = at[x]
  BY <1>1, TaskNames DEF TInv, TypeOK
<1>5. client'[c] = "open" /\ \A d \in Clients \ {c} : client'[d] = client[d]
  BY <1>1 DEF TInv, TypeOK
<1>6. OpenInv'
  <2>1. ASSUME NEW d \in Clients, d # c
        PROVE  at'[Listener(d)] # "read" /\ at'[Handler(d)] = "dead" /\ client'[d] # "open"
    <3>1. at'[Listener(d)] = at[Listener(d)] /\ at'[Handler(d)] = at[Handler(d)]
      BY <1>4, <2>1, TaskNames
    <3>. QED BY <1>2, <1>5, <2>1, <3>1 DEF OpenInv, NoneOpen, Good
  <2>. QED BY <1>1, <1>5, <2>1 DEF OpenInv
<1>7. \A x \in Tasks : at'[x] \notin {"close", "flush"}
  BY <1>3, <1>4, TaskNames
<1>8. ClosingInv(u)'
  BY <1>2, <1>4, <1>5, <1>7 DEF ClosingInv, Good
<1>9. DownInv(u)'
  BY <1>4, <1>7, TaskNames DEF DownInv, OnItsWay
<1>10. dap' # 0
  BY <1>1 DEF Clients
<1>. QED
  BY <1>6, <1>8, <1>9, <1>10 DEF Good

LEMMA GoodCommandStep ==
  ASSUME NEW u, Users = {u}, TInv, Good(u), prompt',
         (\E k \in Commands : Command(u, k)) \/ Setup(u) \/ Await(u)
  PROVE  Good(u)'
<1>1. u \in Tasks /\ (state # "DISCONNECTED" => dap # 0)
  BY TaskNames DEF Good
<1>2. CASE at[u] # "close" /\ (Disconnect(u) \/ HardDisconnect(u))
  BY <1>1, <1>2, GoodDisconnect, GoodHardDisconnect
<1>3. CASE \E k \in Commands : Command(u, k)
  <2>1. PICK k \in Commands : Command(u, k)
    BY <1>3
  <2>2. CASE k = "attach"
    <3>1. /\ Goes(u, "prepare") /\ on' = [on EXCEPT ![u] = on[u]]
          /\ UNCHANGED <<dap, client, state>> /\ cmd'[u] = "attach"
      BY <1>1, <2>1, <2>2 DEF Command, TInv, TypeOK
    <3>. QED BY <1>1, <2>1, <3>1, GoodWalks DEF Command
  <2>3. CASE k # "attach"
    BY <1>2, <2>1, <2>3 DEF Command
  <2>. QED BY <2>2, <2>3
<1>4. CASE Prepared(u)
  <2>1. CASE /\ cmd[u] = "safe_attach" /\ at[u] = "prepare" /\ Goes(u, "open")
             /\ UNCHANGED <<on, dap, client, initialized, state, procVars>>
    <3>1. on' = [on EXCEPT ![u] = on[u]]
      BY <2>1 DEF TInv, TypeOK
    <3>. QED BY <1>1, <2>1, <3>1, GoodWalks DEF OnItsWay
  <2>. QED BY <1>2, <1>4, <2>1 DEF Prepared
<1>5. CASE NotPrepared(u) \/ Cancelled(u) \/ (Stops(u, "idle") /\ Failed(u) /\ UNCHANGED <<dap, client, state>>)
  <2>1. at[u] # "close" /\ Stops(u, "idle") /\ UNCHANGED <<dap, client, state>>
    BY <1>5 DEF NotPrepared, Cancelled, Failed, Awaits, Deadlines
  <2>. QED BY <1>1, <2>1, GoodWalks DEF Stops
<1>6. CASE Reaped(u)
  <2>1. /\ at[u] = "reap" /\ \E p \in {"spawn", "idle"} : Goes(u, p)
        /\ on' = [on EXCEPT ![u] = 0] /\ UNCHANGED <<dap, client, state>>
    BY <1>6 DEF Reaped
  <2>. QED BY <1>1, <2>1, GoodWalks DEF OnItsWay
<1>7. CASE Spawned(u)
  <2>1. at[u] = "spawn" /\ Goes(u, "open") /\ UNCHANGED <<on, dap, client, state>>
        /\ on' = [on EXCEPT ![u] = on[u]]
    BY <1>7 DEF Spawned, TInv, TypeOK
  <2>. QED BY <1>1, <2>1, GoodWalks DEF OnItsWay
<1>8. CASE Synchronise(u)
  BY <1>1, <1>8, GoodAsk DEF Synchronise, Awaits
<1>9. CASE Answered(u) /\ at[u] # "bye"
  <2>1. at[u] \in Awaits /\ on[u] \in Clients /\ at[u] # "close"
    BY <1>1, <1>9 DEF Answered, Awaits, TInv, OnInv
  <2>2. dap # 0
    <3>1. client[on[u]] = "open"
      BY <1>9, <2>1 DEF Answered, Good, ClosingInv
    <3>. QED BY <2>1, <3>1 DEF Good, OpenInv, Clients
  <2>3. UNCHANGED <<dap, client>>
    BY <1>9 DEF Answered
  <2>4. CASE at[u] = "initialize"
    <3>1. /\ \E p \in {"idle", "woken", "initialized"} : Goes(u, p)
          /\ on' = [on EXCEPT ![u] = on[u]]
      BY <1>9, <2>4 DEF Answered, TInv, TypeOK
    <3>. QED BY <2>1, <2>2, <2>3, <3>1, GoodWalks
  <2>5. CASE \E p \in {"configure", "threads", "pause"} : Ask(u, p)
    <3>1. {"configure", "threads", "pause"} \subseteq Awaits
      BY DEF Awaits
    <3>. QED BY <2>1, <2>2, <2>3, <2>5, <3>1, GoodAsk
  <2>6. CASE Goes(u, "idle") /\ on' = [on EXCEPT ![u] = 0]
    BY <2>1, <2>2, <2>3, <2>6, GoodWalks
  <2>. QED BY <1>9, <2>4, <2>5, <2>6 DEF Answered
<1>10. CASE Opened(u)
  BY <1>10, GoodOpened
<1>11. CASE Await(u) /\ ~Cancelled(u) /\ ~(Answered(u) /\ at[u] # "bye")
  <2>1. CASE Stops(u, "idle") /\ Failed(u) /\ UNCHANGED <<dap, client, state>>
    BY <1>5, <2>1
  <2>. QED BY <1>2, <1>11, <2>1 DEF Await, Answered, Failed, Awaits, Deadlines
<1>. QED
  BY <1>3, <1>4, <1>5, <1>6, <1>7, <1>8, <1>9, <1>10, <1>11 DEF Setup, Await

LEMMA GoodCloseStep ==
  ASSUME NEW u, Users = {u}, TInv, Good(u), NEW t \in Tasks, Close(t)
  PROVE  Good(u)'
<1>1. /\ t = u /\ at[u] = "close" /\ on[u] \in Clients /\ dap = on[u]
      /\ client[on[u]] = "closing"
  BY DEF Close, CloseEnds, CloseRaises, Good, ClosingInv, TInv, OnInv
<1>2. NoneOpen
  BY <1>1 DEF NoneOpen, Good, OpenInv
<1>3. CASE CloseEnds(t)
  <2>1. \A c \in Clients : client'[c] \notin {"open", "closing"}
    BY <1>1, <1>2, <1>3 DEF CloseEnds, NoneOpen, Good, ClosingInv, TInv, TypeOK
  <2>2. \A x \in Tasks \ {t} : at[x] # "close"
    BY <1>1 DEF Good, ClosingInv
  <2>3. \A c \in Clients : t # Handler(c)
    BY <1>1, TaskNames
  <2>. QED BY <1>1, <1>2, <1>3, <2>1, <2>2, <2>3, GoodReset DEF CloseEnds
<1>4. CASE CloseRaises(t)
  <2>1. /\ client' = [client EXCEPT ![on[u]] = "aborted"]
        /\ at' = [at EXCEPT ![u] = "idle"] /\ UNCHANGED <<dap, state>>
    BY <1>1, <1>4 DEF CloseRaises, Stops, Goes
  <2>2. u \in Tasks /\ at'[u] = "idle" /\ \A x \in Tasks \ {u} : at'[x] = at[x]
    BY <2>1, TaskNames DEF TInv, TypeOK
  <2>3. /\ client'[on[u]] = "aborted"
        /\ \A c \in Clients \ {on[u]} : client'[c] = client[c]
    BY <1>1, <2>1 DEF TInv, TypeOK
  <2>4. NoneOpen' /\ \A c \in Clients : client'[c] # "closing"
    BY <1>2, <2>3 DEF NoneOpen, Good, ClosingInv
  <2>5. OpenInv'
    BY <1>2, <2>2, <2>4, TaskNames DEF OpenInv, NoneOpen, Good
  <2>6. ClosingInv(u)'
    BY <2>2, <2>4 DEF ClosingInv, Good, Awaits
  <2>7. DownInv(u)'
    BY <2>2, <2>4 DEF DownInv
  <2>. QED BY <2>1, <2>5, <2>6, <2>7 DEF Good
<1>. QED
  BY <1>3, <1>4 DEF Close

LEMMA GoodLost ==
  ASSUME NEW u, Users = {u}, TInv, Good(u), NEW c \in Clients, Lost(c)
  PROVE  Good(u)'
<1>1. client[c] = "open" /\ dap = c /\ at[u] # "close"
  BY DEF Lost, Good, OpenInv, ClosingInv
<1>2. \A x \in Tasks : at[x] # "close"
  BY <1>1 DEF Good, ClosingInv
<1>3. client' = [client EXCEPT ![c] = "lost"]
  <2>1. CutShort(c) = {}
    BY <1>2, TaskNames DEF CutShort
  <2>. QED BY <2>1 DEF Lost, TInv, TypeOK
<1>4. /\ at'[Listener(c)] = "flush" /\ at'[Handler(c)] = "dead"
      /\ \A x \in Tasks \ {Listener(c), Handler(c)} : at'[x] = at[x]
      /\ u \in Tasks /\ at'[u] = at[u] /\ on'[u] = on[u]
  BY TaskNames DEF Lost, TInv, TypeOK
<1>5. client'[c] = "lost" /\ \A d \in Clients \ {c} : client'[d] = client[d]
  BY <1>3 DEF TInv, TypeOK
<1>6. NoneOpen'
  BY <1>1, <1>5 DEF NoneOpen, Good, OpenInv
<1>7. OpenInv'
  BY <1>1, <1>4, <1>6, TaskNames DEF OpenInv, NoneOpen, Good
<1>8. \A x \in Tasks : at'[x] # "close"
  BY <1>2, <1>4, TaskNames
<1>9. ClosingInv(u)'
  <2>1. at[u] \in Awaits => on[u] \in Clients
    BY <1>4 DEF TInv, OnInv
  <2>. QED BY <1>2, <1>4, <1>5, <1>8, <2>1 DEF ClosingInv, Good
<1>10. DownInv(u)'
  BY <1>4, <1>6, <1>8 DEF DownInv
<1>. QED
  BY <1>7, <1>9, <1>10 DEF Lost, Good

LEMMA GoodTaskOfClient ==
  ASSUME NEW u, Users = {u}, TInv, Good(u), NEW c \in Clients, Serve(c) \/ World(c)
  PROVE  Good(u)'
<1>1. /\ u \in Tasks /\ Listener(c) \in Tasks /\ Handler(c) \in Tasks
      /\ Listener(c) # u /\ Handler(c) # u
      /\ state # "DISCONNECTED" => dap # 0
  BY TaskNames DEF Good
<1>2. CASE Report(c)
  BY <1>1, <1>2, GoodHardDisconnect DEF Report
<1>3. CASE EventEnded(c) \/ (at[Handler(c)] = "bye" /\ HardDisconnect(Handler(c)))
  BY <1>1, <1>3, GoodHardDisconnect, GoodDisconnect DEF EventEnded
<1>4. CASE Lost(c)
  BY <1>4, GoodLost
<1>5. at[Handler(c)] # "dead" => dap # 0
  BY DEF Good, OpenInv, Clients
<1>6. CASE EventStopped(c) \/ (HandlerResumes(c) /\ at[Handler(c)] = "refresh")
  <2>1. /\ \E p \in {"refresh", "get", "dead"} : Goes(Handler(c), p)
        /\ \E d : on' = [on EXCEPT ![Handler(c)] = d]
        /\ UNCHANGED <<cmd, dap, client>> /\ at[Handler(c)] # "dead"
    BY <1>6 DEF EventStopped, HandlerResumes
  <2>. QED BY <1>1, <1>5, <2>1, GoodGoes
<1>7. CASE EventInitialized(c)
  <2>1. /\ \A x \in Tasks : at'[x] = IF at[x] = "initialized" THEN "woken" ELSE at[x]
        /\ UNCHANGED <<on, cmd, dap, client, state>>
    BY <1>7 DEF EventInitialized
  <2>2. OpenInv'
    BY <2>1, TaskNames DEF OpenInv, Good
  <2>3. ClosingInv(u)'
    BY <1>1, <2>1 DEF ClosingInv, Good, Awaits
  <2>4. DownInv(u)'
    BY <1>1, <2>1, TaskNames DEF DownInv, OnItsWay, NoneOpen, Good
  <2>. QED BY <2>1, <2>2, <2>3, <2>4 DEF Good
<1>8. CASE EventContinued(c)
  <2>1. UNCHANGED <<at, on, cmd, dap, client>> /\ dap # 0
    BY <1>5, <1>8 DEF EventContinued
  <2>. QED BY <2>1 DEF Good, OpenInv, ClosingInv, DownInv, NoneOpen, OnItsWay
<1>. QED
  BY <1>2, <1>3, <1>4, <1>6, <1>7, <1>8 DEF Serve, World, HandlerResumes

LEMMA SessionStep ==
  ASSUME NEW u, Users = {u}
  PROVE  TInv /\ SessionInv(u) /\ [Next]_vars => SessionInv(u)'
<1>. SUFFICES ASSUME TInv, SessionInv(u), [Next]_vars, prompt' PROVE Good(u)'
  BY DEF SessionInv
<1>1. prompt
  BY DEF Next, Command, Setup, Await, Opened, Close, Serve, World, vars
<1>2. Good(u)
  BY <1>1 DEF SessionInv
<1>3. CASE (\E p \in Procs : Exits(p)) \/ UNCHANGED vars
  <2>1. UNCHANGED <<at, on, cmd, dap, client, state>>
    BY <1>3 DEF Exits, vars
  <2>. QED BY <1>2, <2>1 DEF Good, OpenInv, ClosingInv, DownInv, NoneOpen, OnItsWay
<1>. QED
  BY <1>2, <1>3, GoodCommandStep, GoodCloseStep, GoodTaskOfClient DEF Next

LEMMA SessionInitially ==
  ASSUME NEW u, Users = {u}, Init
  PROVE  SessionInv(u)
<1>1. \A t \in Tasks : at[t] \in {"idle", "dead"}
  BY DEF Init
<1>2. u \in Tasks /\ at[u] = "idle"
  BY TaskNames DEF Init
<1>3. OpenInv /\ ClosingInv(u) /\ DownInv(u)
  BY <1>1, <1>2, TaskNames DEF Init, OpenInv, ClosingInv, DownInv, OnItsWay, Awaits
<1>. QED
  BY <1>3 DEF Init, SessionInv, Good

(* With one user, and as long as a connection is only opened once the one  *)
(* before it is torn down, whatever is open is the session's: no command   *)
(* that fails, is cancelled or is superseded leaks its connection.         *)
THEOREM NoConnectionLeaks ==
  ASSUME NEW u, Users = {u}
  PROVE  Spec => []OneSessionIfPrompt
<1>1. Init => SessionInv(u)
  BY SessionInitially
<1>2. TInv /\ SessionInv(u) /\ [Next]_vars => SessionInv(u)'
  BY SessionStep
<1>3. SessionInv(u) => OneSessionIfPrompt
  BY DEF SessionInv, Good, OpenInv, OneSessionIfPrompt, OneActiveSession
<1>. QED
  BY <1>1, <1>2, <1>3, TInvariance, PTL DEF Spec

(* Under the same conditions the store shows a state only while there is a *)
(* session: no late answer, event or report revives one that was reset.    *)
THEOREM ShownStateIsReal ==
  ASSUME NEW u, Users = {u}
  PROVE  Spec => []StateIsHonest
<1>1. Init => SessionInv(u)
  BY SessionInitially
<1>2. TInv /\ SessionInv(u) /\ [Next]_vars => SessionInv(u)'
  BY SessionStep
<1>3. SessionInv(u) => StateIsHonest
  BY DEF SessionInv, Good, StateIsHonest
<1>. QED
  BY <1>1, <1>2, <1>3, TInvariance, PTL DEF Spec

-----------------------------------------------------------------------------
(* How terminate() and shutdown() end, for one user *)

(* The reset of such a command leads it on to the process. *)
LEMMA ResetGoesOn ==
  ASSUME NEW u, Users = {u}, TInv, NEW t \in Tasks, HardDisconnect(t) \/ CloseEnds(t),
         UNCHANGED cmd, cmd[u] \in {"terminate", "shutdown"}, at[u] # "idle"
  PROVE  at'[u] # "idle"
<1>1. u \in Tasks /\ cmd'[u] \in {"terminate", "shutdown"}
  BY TaskNames
<1>2. CASE Reset(t)
  <2>1. t = u => AfterReset(t) = "reap"
    BY <1>1 DEF AfterReset, Reaps
  <2>. QED BY <1>1, <1>2, <2>1 DEF Reset
<1>3. CASE CloseBegins(t, dap)
  BY <1>1, <1>3 DEF CloseBegins
<1>. QED
  BY <1>2, <1>3 DEF HardDisconnect, CloseEnds

LEMMA ShutdownStep ==
  ASSUME NEW u, Users = {u}, TInv, ProcInv(u), SessionInv(u), [Next]_vars, ShutdownEnds(u)
  PROVE  alive' = {} /\ \A c \in Clients : client'[c] # "open"
<1>1. /\ u \in Tasks /\ at[u] \in {"bye", "close", "reap"} /\ Good(u)
      /\ cmd[u] \in {"terminate", "shutdown"} /\ at[u] # "idle" /\ at'[u] = "idle"
  BY TaskNames DEF ShutdownEnds, TInv, CmdInv, SessionInv
<1>2. CASE Reaped(u)
  <2>1. at[u] = "reap" /\ alive' = alive \ {on[u]} /\ client' = client
    BY <1>2 DEF Reaped
  <2>2. \A p \in alive : p = 0 \/ p = on[u]
    BY <2>1 DEF ProcInv
  <2>3. 0 \notin alive
    <3>1. alive \subseteq 1..spawned /\ spawned \in Nat
      BY BoundsAssumption DEF TInv, TypeOK
    <3>. QED BY <3>1
  <2>4. NoneOpen
    BY <1>1, <2>1 DEF Good, DownInv, OnItsWay
  <2>. QED BY <2>1, <2>2, <2>3, <2>4 DEF NoneOpen
<1>3. CASE \E k \in Commands : Command(u, k)
  BY <1>1, <1>3 DEF Command
<1>4. CASE Setup(u)
  BY <1>1, <1>2, <1>4 DEF Setup, Prepared, NotPrepared, Spawned, Synchronise, Opened
<1>5. CASE Await(u)
  <2>1. at[u] = "bye" /\ HardDisconnect(u) /\ UNCHANGED cmd
    BY <1>1, <1>5 DEF Await, Answered, Failed, Cancelled, Awaits, Deadlines, Good, ClosingInv
  <2>. QED BY <1>1, <2>1, ResetGoesOn
<1>6. CASE \E t \in Tasks : Close(t)
  <2>1. PICK t \in Tasks : Close(t)
    BY <1>6
  <2>2. t = u /\ at[u] = "close" /\ on[u] \in Clients
    BY <1>1, <2>1 DEF Close, CloseEnds, CloseRaises, Good, ClosingInv, TInv, OnInv
  <2>3. CASE CloseEnds(t)
    BY <1>1, <2>3, ResetGoesOn DEF CloseEnds
  <2>4. CASE CloseRaises(t)
    BY <2>2, <2>4 DEF CloseRaises, ShutdownEnds, EndsByException, TInv, TypeOK
  <2>. QED BY <2>1, <2>3, <2>4 DEF Close
<1>7. CASE \E c \in Clients : Serve(c) \/ World(c)
  <2>1. PICK c \in Clients : Serve(c) \/ World(c)
    BY <1>7
  <2>2. /\ Listener(c) \in Tasks /\ Handler(c) \in Tasks
        /\ u # Listener(c) /\ u # Handler(c)
    BY TaskNames
  <2>3. CASE \E t \in {Listener(c), Handler(c)} : HardDisconnect(t) /\ UNCHANGED cmd
    BY <1>1, <2>2, <2>3, ResetGoesOn
  <2>4. CASE \E p : Goes(Handler(c), p)
    BY <1>1, <2>2, <2>4 DEF Goes, TInv, TypeOK
  <2>5. CASE Lost(c) \/ EventInitialized(c) \/ EventContinued(c)
    BY <1>1, <2>2, <2>5 DEF Lost, EventInitialized, EventContinued, TInv, TypeOK
  <2>. QED
    BY <2>1, <2>3, <2>4, <2>5
    DEF Serve, World, Report, HandlerResumes, EventStopped, EventEnded, Disconnect
<1>8. CASE (\E p \in Procs : Exits(p)) \/ UNCHANGED vars
  BY <1>1, <1>8 DEF Exits, vars
<1>. QED
  BY <1>3, <1>4, <1>5, <1>6, <1>7, <1>8 DEF Next

(* With one user, terminate() and shutdown() that end without an exception *)
(* leave neither a launched process nor an open connection behind,         *)
(* whatever fails, is lost or exits meanwhile.                             *)
THEOREM ShutdownLeavesNothing ==
  ASSUME NEW u, Users = {u}
  PROVE  Spec => ShutdownIsClean
<1>1. Init => ProcInv(u) /\ SessionInv(u)
  BY SessionInitially DEF Init, ProcInv
<1>2. TInv /\ ProcInv(u) /\ SessionInv(u) /\ [Next]_vars => ProcInv(u)' /\ SessionInv(u)'
  BY ProcStep, SessionStep
<1>3. TInv /\ ProcInv(u) /\ SessionInv(u) /\ [Next]_vars => [EndsClean]_vars
  BY ShutdownStep DEF EndsClean
<1>. QED
  BY <1>1, <1>2, <1>3, TInvariance, PTL DEF Spec, ShutdownIsClean
=============================================================================
