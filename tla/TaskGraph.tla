------------------------------ MODULE TaskGraph ------------------------------
(***************************************************************************)
(* The asyncio task graph: the collector that runs in the paused debuggee  *)
(* and the graph built from its payload (core/asyncio_tasks.py), and the   *)
(* panel that lists it, flat and as a tree (app/tasks.py).                 *)
(*                                                                         *)
(* The debuggee is external: a task awaits at most one thing, a task or a  *)
(* future that is no task (a gather), and a gather awaits many.  asyncio   *)
(* keeps, for each, who awaits it; capture_call_graph() may fail for any   *)
(* task and is missing before Python 3.14.  A payload may also come with   *)
(* an entry that does not parse, or without the awaited_by lists.          *)
(*                                                                         *)
(* Tasks are numbers in the order of their names.  The order of the edges  *)
(* of one task is left out.                                                *)
(*                                                                         *)
(* A definition whose comment begins "Mutant" belongs to no behaviour.     *)
(***************************************************************************)
EXTENDS Naturals, Sequences, FiniteSets, Functions

CONSTANTS None,     \* nothing awaited, no graph, no task, no payload
          Running,  \* the debuggee has not stopped yet
          Count,    \* tasks of the debuggee
          Gather    \* the future that is no task

TaskGraphAssumption == Count \in Nat \ {0} /\ Gather \notin 1..Count

VARIABLES
  awaits,    \* what each task awaits
  gathered,  \* tasks the gather awaits
  done,      \* tasks that are over
  fault,     \* what is wrong with the capture
  raw,       \* the payload on its way
  graph,     \* store: task_graph
  selected,  \* store: selected_task_id
  row,       \* task under the cursor of the panel
  detail     \* task that the detail pane describes

world == <<awaits, gathered, done, fault>>
vars == <<world, raw, graph, selected, row, detail>>

Tasks  == 1..Count
Faults == [kind : {"none", "bare", "old"}, task : {None}] \cup
          [kind : {"blind", "bad"}, task : Tasks]

-----------------------------------------------------------------------------
(* The collector *)

(* Who awaits x: asyncio's awaited_by. *)
AwaitedBy(x) == {t \in Tasks : awaits[t] = x}
                \cup (IF x \in gathered THEN {Gather} ELSE {})

(* The edges read from the call graph of t: its awaited_by entries, and    *)
(* for an entry that is no task the entries of that.  So the children of a *)
(* task in the tree are those that wait for it, not those it waits for.    *)
GraphEdges(t) ==
  IF fault.kind = "old" \/ fault = [kind |-> "blind", task |-> t] THEN {}
  ELSE ((AwaitedBy(t) \ {Gather})
        \cup (IF Gather \in AwaitedBy(t) THEN AwaitedBy(Gather) ELSE {})) \ {t}

(* _collect: an entry for each task, with the edges and their reverse. *)
Collect ==
  [t \in Tasks |->
     [id         |-> IF fault = [kind |-> "bad", task |-> t] THEN None ELSE t,
      done       |-> t \in done,
      awaiting   |-> GraphEdges(t),
      awaited_by |-> IF fault.kind = "bare" THEN {} ELSE {u \in Tasks : t \in GraphEdges(u)}]]

-----------------------------------------------------------------------------
(* The graph *)

(* _parse_task_entry, over all entries: those without an id are dropped. *)
Parsed(payload) == {e \in Range(payload) : e.id # None}

(* The tasks of S in the order of their names *)
ByName(S) ==
  CHOOSE s \in [1..Cardinality(S) -> S] : \A i, j \in DOMAIN s : i < j => s[i] < s[j]

(* _order_tasks: pending tasks first, then by name *)
OrderTasks(entries) ==
  LET Named(d) == ByName({e.id : e \in {f \in entries : f.done = d}})
  IN Named(FALSE) \o Named(TRUE)

(* Mutant: edges to tasks that are not listed are kept. *)
KnownAll(S, ids) == S

Known(S, ids) == S \cap ids

(* awaited_by: as it was collected, or else from the other direction *)
GivenOr(given, derived) == IF given = {} THEN derived ELSE given

(* _reconcile_await_edges: both directions over the tasks that are listed, *)
(* and the awaited_by list from the other one where it is missing.         *)
Reconcile(entries) ==
  LET ids == {e.id : e \in entries}
      Entry(t) == CHOOSE e \in entries : e.id = t
      derived == [t \in ids |-> {u \in ids : t \in Entry(u).awaiting}]
  IN [awaiting   |-> [t \in ids |-> Known(Entry(t).awaiting, ids)],
      awaited_by |-> [t \in ids |-> GivenOr(Known(Entry(t).awaited_by, ids), derived[t])]]

(* visited: the tasks that those of S lead to, themselves included *)
Reach(awaiting, S) ==
  LET reach[n \in 0..Count] ==
        IF n = 0 THEN S ELSE reach[n - 1] \cup UNION {awaiting[u] : u \in reach[n - 1]}
  IN reach[Count]

(* Roots when every task is awaited: the first task, and the first one     *)
(* that is not reached from those before, until all are.                   *)
Entries(order, awaiting) ==
  LET pick[i \in 0..Len(order)] ==
        IF i = 0 THEN {}
        ELSE IF order[i] \in Reach(awaiting, pick[i - 1]) THEN pick[i - 1]
        ELSE pick[i - 1] \cup {order[i]}
  IN pick[Len(order)]

(* _build_tree: the roots *)
Roots(order, edges) ==
  LET free == {t \in DOMAIN edges.awaited_by : edges.awaited_by[t] = {}}
  IN IF free # {} THEN free ELSE IF order = <<>> THEN {} ELSE Entries(order, edges.awaiting)

(* A node of the tree is the path to it; one that repeats a task of its    *)
(* path marks a cycle.                                                     *)
Closes(path) == \E i \in 1..(Len(path) - 1) : path[i] = path[Len(path)]

(* expand: the nodes below the roots, a cycle not entered twice *)
Nodes(roots, awaiting) ==
  LET level[n \in 1..(Count + 1)] ==
        IF n = 1 THEN {<<t>> : t \in roots}
        ELSE UNION {{Append(p, c) : c \in awaiting[p[n - 1]]} :
                     p \in {q \in level[n - 1] : ~Closes(q)}}
  IN UNION {level[n] : n \in 1..(Count + 1)}

(* The tasks of the cycle that a path closes: from the first occurrence.   *)
CycleKey(path) ==
  LET i == CHOOSE k \in 1..(Len(path) - 1) : path[k] = path[Len(path)]
  IN Range(SubSeq(path, i, Len(path)))

(* build_task_graph *)
BuildGraph(payload) ==
  LET entries == Parsed(payload)
      order   == OrderTasks(entries)
      edges   == Reconcile(entries)
      roots   == Roots(order, edges)
      nodes   == Nodes(roots, edges.awaiting)
  IN [tasks |-> order, awaiting |-> edges.awaiting, awaited_by |-> edges.awaited_by,
      roots |-> roots, nodes |-> nodes,
      cycles |-> {CycleKey(p) : p \in {q \in nodes : Closes(q)}},
      status |-> IF entries = {} THEN "empty"
                 ELSE IF Cardinality(entries) < Len(payload) THEN "partial" ELSE "ok"]

-----------------------------------------------------------------------------
(* _render_snapshot, for a graph with tasks: the cursor goes to the        *)
(* selected task where it is listed, the detail to it or to the first.     *)
Render(g, task) ==
  IF g = None \/ g.tasks = <<>> THEN row' = None /\ detail' = None
  ELSE LET shown == IF task \in Range(g.tasks) THEN task ELSE Head(g.tasks)
       IN row' = shown /\ detail' = shown

Init ==
  /\ awaits = [t \in Tasks |-> None] /\ gathered = {} /\ done = {}
  /\ fault = [kind |-> "none", task |-> None]
  /\ raw = Running /\ graph = None /\ selected = None /\ row = None /\ detail = None

(* The debuggee stops, once: a capture keeps nothing of the one before. *)
Stop ==
  /\ raw = Running
  /\ awaits' \in [Tasks -> Tasks \cup {Gather, None}]
  /\ \A t \in Tasks : awaits'[t] # t
  /\ gathered' \in SUBSET Tasks
  /\ (gathered' = {}) <=> (\A t \in Tasks : awaits'[t] # Gather)
  /\ done' = {t \in Tasks : t = Count /\ awaits'[t] = None}
  /\ fault' \in Faults
  /\ raw' = None
  /\ UNCHANGED <<graph, selected, row, detail>>

(* refresh_tasks: the collector is evaluated. *)
Capture ==
  /\ raw = None
  /\ raw' = Collect
  /\ UNCHANGED <<world, graph, selected, row, detail>>

(* Its answer arrives: the graph is built, stored and rendered. *)
Captured ==
  /\ raw \notin {None, Running}
  /\ raw' = None
  /\ graph' = BuildGraph(raw)
  /\ Render(BuildGraph(raw), selected)
  /\ UNCHANGED <<world, selected>>

(* The user moves the cursor of the table or of the tree. *)
MoveCursor(t) ==
  /\ graph # None /\ raw = None
  /\ t \in Range(graph.tasks)
  /\ row' = t
  /\ UNCHANGED <<world, raw, graph, selected, detail>>

(* Enter: _activate_task, select_task, and the rendering that follows. *)
Activate ==
  /\ graph # None /\ raw = None
  /\ row # None
  /\ selected' = row
  /\ Render(graph, row)
  /\ UNCHANGED <<world, raw, graph>>

Next == Stop \/ Capture \/ Captured \/ (\E t \in Tasks : MoveCursor(t)) \/ Activate

Spec == Init /\ [][Next]_vars

-----------------------------------------------------------------------------
(* Properties *)

(* The types of the variables. *)
TypeOK ==
  /\ awaits \in [Tasks -> Tasks \cup {Gather, None}]
  /\ gathered \subseteq Tasks /\ done \subseteq Tasks /\ fault \in Faults
  /\ {selected, row, detail} \subseteq Tasks \cup {None}
  /\ graph # None =>
       /\ Range(graph.tasks) = DOMAIN graph.awaiting
       /\ graph.roots \subseteq Range(graph.tasks)
       /\ graph.status \in {"ok", "partial", "empty"}

Listed == Range(graph.tasks)

(* The tasks that t reaches, itself included, over the edges of the graph. *)
Below(t) == Reach(graph.awaiting, {t})

OnCycle(t) == \E u \in graph.awaiting[t] : t \in Below(u)

(* Both lists of edges are one relation, over the tasks that are listed,   *)
(* whatever entries were dropped and whether awaited_by was collected.     *)
EdgesAgree ==
  graph # None =>
    \A t, u \in DOMAIN graph.awaiting : u \in graph.awaiting[t] <=> t \in graph.awaited_by[u]

(* The tree shows each task, except those behind a cycle that no root      *)
(* leads to (when there is no root at all, none).                          *)
TreeIsWhole ==
  graph # None =>
    \A t \in Listed :
      \/ \E p \in graph.nodes : p[Len(p)] = t
      \/ /\ \E r \in Listed : graph.awaited_by[r] = {}
         /\ \E u \in Listed : OnCycle(u) /\ t \in Below(u)

(* A set of tasks that some simple cycle of the graph runs through *)
IsCycle(S) ==
  \E f \in [1..Cardinality(S) -> S] :
    /\ Range(f) = S
    /\ \A i \in DOMAIN f : f[(i % Cardinality(S)) + 1] \in graph.awaiting[f[i]]

(* The cycles reported are the simple cycles that the roots lead to, each  *)
(* by its tasks alone, without the path that leads to it.                  *)
CyclesReported ==
  graph # None =>
    graph.cycles = {S \in (SUBSET Listed) \ {{}} :
                      IsCycle(S) /\ \E r \in graph.roots : S \subseteq Below(r)}
=============================================================================
