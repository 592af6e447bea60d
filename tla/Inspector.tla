------------------------------ MODULE Inspector ------------------------------
(***************************************************************************)
(* The locals inspector (app/panels.py: LocalsPanel, LocalsTable and the   *)
(* edit dialog) and the manager's loading of scopes behind it              *)
(* (plugins/debugpy.py: _refresh_locals).                                  *)
(*                                                                         *)
(* An action is the code between two awaits.  The store notifies the panel *)
(* inside update(), so a step that changes the snapshot changes the panel  *)
(* with it; every update, whatever it is of, puts the Select back to the   *)
(* panel's scope.  What waits for an answer: up to two loads of the        *)
(* manager (the event handler's and a user's), the panel's scope task, one *)
(* operation on the table per message pump, and an edit.  Select.Changed   *)
(* is a message of the framework and is handled after the step that set    *)
(* the value.                                                              *)
(*                                                                         *)
(* The debuggee is external.  At each stop it has two scopes with Total    *)
(* variables each; the first variable of a list may be opened in turn.     *)
(* References are not used again after the debuggee has run.               *)
(*                                                                         *)
(* A definition whose comment begins "Mutant" belongs to no behaviour.     *)
(***************************************************************************)
EXTENDS Naturals, Sequences, FiniteSets, Functions

CONSTANTS None,        \* no reference, name, page or task
          MaxStop,     \* bound: stops of the debuggee
          MaxGen,      \* bound: the variables generation
          MaxChanges,  \* bound: Select.Changed messages on their way
          MaxActs,     \* bound: what the user does
          Total,       \* variables in a list
          PageSize,    \* variables asked for at a time
          Depth,       \* how deep lists nest below a scope
          Pumps        \* message pumps that run operations of the table

VARIABLES
  stop,      \* stops of the debuggee so far
  mode,      \* how the adapter answers a request for a page
  plain,     \* lists whose first variable was edited to a plain value
  frame,     \* store: the stop of the selected frame, 0 when not paused
  scopes,    \* store: the stop the scopes belong to, 0 when there are none
  pages,     \* store: the loaded page of each scope
  selName,   \* store: selected_scope_name
  gen,       \* store: variables_generation
  loads,     \* _refresh_locals of the event handler and of a user
  pSel,      \* LocalsPanel._selected_scope_name
  pGen,      \* LocalsPanel._variables_generation
  task,      \* LocalsPanel._scope_task with its key
  select,    \* value of the Select widget
  changes,   \* Select.Changed messages not yet handled
  table,     \* the LocalsTable
  op,        \* operation of the table that each pump awaits
  edit,      \* set_variable request of the edit dialog
  acts,      \* counts what the user has done
  crossed,   \* history: lists an edit returned to after they were closed
  failed     \* history: the scope whose request failed last

storeVars == <<frame, scopes, pages, selName, gen>>
panelVars == <<pSel, pGen, task, select, changes>>
history   == <<crossed, failed>>
vars == <<stop, mode, plain, storeVars, loads, panelVars, table, op, edit, acts, history>>

Order   == <<"Locals", "Globals">>
Names   == Range(Order)
Loaders == {"event", "user"}

(* A reference: the stop, the scope, and the level below the scope. *)
Refs == (1..MaxStop) \X Names \X (0..Depth)
ScopeRef(s, n) == <<s, n, 0>>
Child(r) == <<r[1], r[2], r[3] + 1>>

Variable == [n : 1..Total, ref : Refs \cup {None}]
Page     == [vars : Seq(Variable), next : 0..Total]
Task     == [key : Names \X Nat, ref : Refs]
Editing  == [parent : Refs, ref : Refs \cup {None}]

InspectorAssumption ==
  /\ MaxStop \in Nat /\ MaxGen \in Nat /\ MaxChanges \in Nat /\ MaxActs \in Nat
  /\ Total \in Nat \ {0} /\ PageSize \in Nat \ {0} /\ Depth \in Nat
  /\ None \notin Nat \cup Names \cup Refs \cup Page \cup Task \cup Editing

MinOf(a, b) == IF a < b THEN a ELSE b

-----------------------------------------------------------------------------
(* Pages *)

(* What the debuggee holds under r. *)
Content(r) ==
  [i \in 1..Total |-> [n |-> i, ref |-> IF i = 1 /\ r[3] < Depth /\ r \notin plain
                                        THEN Child(r) ELSE None]]

(* Mutant: the list goes on after what was asked for, not after what came. *)
NextStartByCount(start, count, loaded) == IF loaded = 0 THEN 0 ELSE start + count

(* VariablePage.next_start, 0 for None: where the list goes on after       *)
(* `loaded` variables from `start`, of `count` that were asked for.        *)
NextStart(start, count, loaded) ==
  IF \/ loaded = 0
     \/ mode = "counted" /\ start + loaded >= Total
     \/ mode # "counted" /\ loaded < count
  THEN 0 ELSE start + loaded

(* get_variables_page: an adapter that pages returns a slice, with or      *)
(* without a total; one that does not returns the whole list, and the page *)
(* then has neither start nor count.                                       *)
GetPage(r, start) ==
  IF mode = "whole" THEN [vars |-> Content(r), next |-> 0]
  ELSE LET slice == SubSeq(Content(r), start + 1, MinOf(start + PageSize, Total))
       IN [vars |-> slice, next |-> NextStart(start, PageSize, Len(slice))]

(* _root_scope_page: the page of a root list that has grown to `all`; a    *)
(* short page without a total ends it.                                     *)
RootPage(all, page) ==
  [vars |-> all,
   next |-> IF mode = "whole" THEN 0
            ELSE IF mode = "uncounted" /\ Len(page.vars) < PageSize
            THEN NextStart(0, Len(all) + 1, Len(all))
            ELSE NextStart(0, PageSize, Len(all))]

(* The elements of list at the places in S, in their order *)
AtPlaces(list, S) ==
  [k \in 1..Cardinality(S) |-> list[CHOOSE i \in S : Cardinality({j \in S : j <= i}) = k]]

(* _new_variables *)
NewVariables(current, incoming) ==
  LET known == {current[i].n : i \in DOMAIN current}
  IN AtPlaces(incoming, {i \in DOMAIN incoming : incoming[i].n \notin known})

-----------------------------------------------------------------------------
(* The table *)

Nothing == [x \in {} |-> <<>>]
EmptyTable == [gen |-> 0, root |-> <<>>, rootRef |-> None, rootNext |-> None,
               expanded |-> {}, cache |-> Nothing, next |-> Nothing,
               visible |-> Nothing, fetching |-> Nothing]

Without(f, S) == Restrict(f, DOMAIN f \ S)
With(f, r, v) == [x \in DOMAIN f \cup {r} |-> IF x = r THEN v ELSE f[x]]

(* Lists that are cached below r, r included. *)
Subtree(t, r) ==
  LET level[d \in 0..Depth] ==
        IF d = 0 THEN {r}
        ELSE level[d - 1] \cup
             UNION {{t.cache[x][i].ref : i \in DOMAIN t.cache[x]} \ {None} :
                     x \in level[d - 1] \cap DOMAIN t.cache}
  IN level[Depth]

(* _clear_variable_tree *)
ClearTree(t, r) ==
  LET S == Subtree(t, r) IN
  [t EXCEPT !.expanded = @ \ S, !.cache = Without(@, S), !.next = Without(@, S),
            !.visible = Without(@, S), !.fetching = Without(@, S)]

(* _changed_variable_references, of lists that agree on the names *)
ChangedRef(old, new) ==
  IF old # <<>> /\ new # <<>> /\ old[1] # new[1] THEN old[1].ref ELSE None

(* Mutant: a new root keeps what was open and what is being fetched. *)
SetRootKeepsOld(t, list, r, next, g) ==
  [t EXCEPT !.gen = g, !.root = list, !.rootRef = r, !.rootNext = next]

(* set_root: the same list of the same generation keeps what is open, any  *)
(* other starts from nothing and drops the answers on their way.           *)
SetRoot(t, list, r, next, g) ==
  LET kept == IF ChangedRef(t.root, list) # None THEN ClearTree(t, ChangedRef(t.root, list))
              ELSE t IN
  [(IF g = t.gen /\ r = t.rootRef THEN kept ELSE EmptyTable)
     EXCEPT !.gen = g, !.root = list, !.rootRef = r, !.rootNext = next]

(* What _rebuild lists: lists that are open and visible, their nodes, and  *)
(* where "Load more..." goes on (0 where the node is missing).             *)
Shown(t, r) == SubSeq(t.cache[r], 1, t.visible[r])
OpenLists(t) == {r \in Subtree(t, IF t.root # <<>> THEN t.root[1].ref ELSE None) :
                   r \in t.expanded \cap DOMAIN t.cache}
NodeRefs(t) == ({t.root[i].ref : i \in DOMAIN t.root} \cup
                UNION {{Shown(t, r)[i].ref : i \in DOMAIN Shown(t, r)} : r \in OpenLists(t)})
               \ {None}
MoreStart(t, r) == IF t.visible[r] < Len(t.cache[r]) THEN t.visible[r] ELSE t.next[r]

-----------------------------------------------------------------------------
(* The panel *)

(* The Select takes a value; a new one is announced by a message. *)
Selects(name) ==
  /\ select' = name
  /\ changes' = IF name # select /\ name # None THEN Append(changes, name) ELSE changes

(* Mutant: what is being loaded is not asked for again, whatever the       *)
(* generation.                                                             *)
AlreadyShownByName(sc, g, name) == pSel = name /\ (table.rootNext # None \/ task # None)

(* _show_scope has nothing to do: the scope is loaded or being loaded.     *)
AlreadyShown(sc, g, name) ==
  /\ pSel = name
  /\ \/ /\ pGen = g /\ table.gen = g
        /\ table.rootRef = ScopeRef(sc, name) /\ table.rootNext # None
     \/ task # None /\ task.key = <<name, g>>

(* _show_scope and _load_scope for a snapshot with scopes sc, their pages  *)
(* pg and generation g.  A scope that has no page yet is asked for by a    *)
(* task, which replaces the one before.                                    *)
ShowScope(sc, pg, g, name) ==
  IF AlreadyShown(sc, g, name) THEN UNCHANGED <<pSel, task, table>>
  ELSE LET r == ScopeRef(sc, name) IN
    /\ pSel' = name
    /\ IF pg[name] # None
       THEN /\ task' = None
            /\ table' = SetRoot(table, pg[name].vars, r, pg[name].next, g)
       ELSE /\ task' = [key |-> <<name, g>>, ref |-> r]
            /\ table' = SetRoot(table, <<>>, r, None, g)

(* The scope a snapshot is shown with: the panel's own, if there is one. *)
ShownName(name) == IF pSel # None THEN pSel ELSE name

(* store.update of scopes, pages, selection and generation, and the        *)
(* notification of the panel in it (_on_snapshot, _sync_scope_select).     *)
Snapshot(sc, pg, name, g) ==
  /\ scopes' = sc /\ pages' = pg /\ gen' = g /\ pGen' = g
  /\ IF sc = 0
     THEN /\ selName' = name
          /\ Selects(None)
          /\ pSel' = None /\ task' = None
          /\ table' = SetRoot(table, <<>>, None, None, g)
     ELSE LET shown == ShownName(name) IN
          /\ Selects(shown)
          /\ IF g # pGen \/ shown # pSel
             THEN ShowScope(sc, pg, g, shown) /\ selName' = shown
             ELSE UNCHANGED <<pSel, task, table>> /\ selName' = name

(* store.update with a page of list r, if its scope is still in the store  *)
(* (_persist_scope_page, _persist_root_update).  The generation stays, so  *)
(* of the panel only the Select follows.                                   *)
Persists(r, page) ==
  /\ pages' = IF scopes = r[1] THEN [pages EXCEPT ![r[2]] = page] ELSE pages
  /\ Selects(pSel)

-----------------------------------------------------------------------------
Idle == [at |-> "idle"]
NoPages == [n \in Names |-> None]

Init ==
  /\ stop = 0 /\ frame = 0 /\ scopes = 0 /\ gen = 0
  /\ mode \in {"counted", "uncounted", "whole"}
  /\ plain = {} /\ crossed = {} /\ failed = None
  /\ pages = NoPages
  /\ selName = None
  /\ loads = [l \in Loaders |-> Idle]
  /\ pSel = None /\ pGen = 0 /\ task = None
  /\ select = None /\ changes = <<>>
  /\ table = EmptyTable
  /\ op = [p \in Pumps |-> Idle]
  /\ edit = None
  /\ acts = 0

-----------------------------------------------------------------------------
(* The manager *)

(* A stopped event: the top frame is selected, its variables are asked for.*)
Stopped ==
  /\ stop < MaxStop
  /\ loads["event"] = Idle
  /\ stop' = stop + 1
  /\ frame' = stop + 1
  /\ loads' = [loads EXCEPT !["event"] = [at |-> "scopes", frame |-> stop + 1]]
  /\ Selects(pSel)
  /\ UNCHANGED <<mode, plain, scopes, pages, selName, gen, pSel, pGen, task, table, op, edit,
                 history>>

(* resume() or a continued event: the stop is cleared. *)
Continued ==
  /\ frame # 0
  /\ gen < MaxGen
  /\ frame' = 0
  /\ Snapshot(0, NoPages, None, gen + 1)
  /\ UNCHANGED <<stop, mode, plain, loads, op, edit, history>>

(* select_frame() of a user *)
SelectFrame ==
  /\ frame # 0
  /\ loads["user"] = Idle
  /\ loads' = [loads EXCEPT !["user"] = [at |-> "scopes", frame |-> frame]]
  /\ Selects(pSel)
  /\ UNCHANGED <<stop, mode, plain, storeVars, pSel, pGen, task, table, op, edit, history>>

(* Any other store.update: a line of the transcript, a breakpoint, ...     *)
OtherUpdate ==
  /\ Selects(pSel)
  /\ UNCHANGED <<stop, mode, plain, storeVars, loads, pSel, pGen, task, table, op, edit, history>>

(* _is_current_variables_refresh *)
IsCurrent(l) == frame = loads[l].frame

(* _refresh_locals after the scopes: for a frame without any they are      *)
(* cleared; otherwise the first page of one scope is asked for.            *)
ScopesLoaded(l) ==
  /\ loads[l].at = "scopes"
  /\ gen < MaxGen
  /\ \/ /\ ~IsCurrent(l)
        /\ loads' = [loads EXCEPT ![l] = Idle]
        /\ UNCHANGED <<scopes, pages, selName, gen, panelVars, table>>
     \/ /\ IsCurrent(l)
        /\ loads' = [loads EXCEPT ![l] = Idle]
        /\ Snapshot(0, NoPages, None, gen + 1)
     \/ /\ IsCurrent(l)
        /\ loads' = [loads EXCEPT ![l] =
             [at |-> "page", frame |-> frame, gen |-> gen + 1, prev |-> selName,
              pick |-> IF selName # None THEN selName ELSE "Locals"]]
        /\ UNCHANGED <<scopes, pages, selName, gen, panelVars, table>>
  /\ UNCHANGED <<stop, mode, plain, frame, op, edit, history>>

(* Mutant: the selection is not looked at when the page arrives. *)
UsesPageAnyScope(l) == IsCurrent(l)

UsesPage(l) == IsCurrent(l) /\ selName = loads[l].prev

(* _refresh_locals after the page: the snapshot gets the scopes, unless    *)
(* another frame or scope was selected meanwhile.                          *)
PageLoaded(l) ==
  /\ loads[l].at = "page"
  /\ loads' = [loads EXCEPT ![l] = Idle]
  /\ LET s == loads[l].frame
         n == loads[l].pick IN
     IF UsesPage(l)
     THEN Snapshot(s, [NoPages EXCEPT ![n] = GetPage(ScopeRef(s, n), 0)], n, loads[l].gen)
     ELSE UNCHANGED <<scopes, pages, selName, gen, panelVars, table>>
  /\ UNCHANGED <<stop, mode, plain, frame, op, edit, history>>

(* A request fails or times out. *)
LoadFails(l) ==
  /\ loads[l] # Idle
  /\ loads' = [loads EXCEPT ![l] = Idle]
  /\ UNCHANGED <<stop, mode, plain, storeVars, panelVars, table, op, edit, history>>

-----------------------------------------------------------------------------
(* The scope selector *)

(* The user takes a scope from the Select. *)
PickScope(n) ==
  /\ scopes # 0 /\ n # select
  /\ Len(changes) < MaxChanges
  /\ Selects(n)
  /\ UNCHANGED <<stop, mode, plain, storeVars, loads, pSel, pGen, task, table, op, edit, history>>

(* _show_scope for the user: the store follows the panel, and the Select   *)
(* follows the store.                                                      *)
Chooses(n) ==
  /\ ShowScope(scopes, pages, gen, n)
  /\ selName' = IF AlreadyShown(scopes, gen, n) THEN selName ELSE n
  /\ UNCHANGED <<stop, mode, plain, frame, scopes, pages, gen, loads, pGen, op, edit, history>>

(* _on_scope_changed *)
ScopeChanged ==
  /\ changes # <<>>
  /\ LET n == Head(changes) IN
     IF scopes = 0 THEN
       /\ changes' = Tail(changes)
       /\ UNCHANGED <<stop, mode, plain, storeVars, loads, pSel, pGen, task, select, table, op,
                      edit, history>>
     ELSE
       /\ Chooses(n)
       /\ LET follows == ~AlreadyShown(scopes, gen, n) /\ selName # n IN
          /\ select' = IF follows THEN n ELSE select
          /\ changes' = IF follows /\ select # n THEN Append(Tail(changes), n)
                        ELSE Tail(changes)

(* next_scope: the next name in the order of the scopes *)
NextScope ==
  /\ scopes # 0
  /\ Len(changes) < MaxChanges
  /\ LET i == CHOOSE k \in DOMAIN Order : Order[k] = IF pSel = None THEN Order[1] ELSE pSel
         n == Order[(i % Len(Order)) + 1] IN
     Chooses(n) /\ Selects(n)

(* The scope task's page arrives; it goes to the store and to the table.   *)
ScopeLoaded ==
  /\ task # None
  /\ task' = None
  /\ LET n == task.key[1]
         g == task.key[2]
         page == RootPage(GetPage(task.ref, 0).vars, GetPage(task.ref, 0)) IN
     IF pGen = g /\ pSel = n
     THEN /\ Persists(task.ref, page)
          /\ table' = SetRoot(table, page.vars, task.ref, page.next, g)
     ELSE UNCHANGED <<pages, select, changes, table>>
  /\ UNCHANGED <<stop, mode, plain, frame, scopes, selName, gen, loads, pSel, pGen, op, edit,
                 history>>

ScopeLoadFails ==
  /\ task # None
  /\ task' = None
  /\ failed' = task.key
  /\ UNCHANGED <<stop, mode, plain, storeVars, loads, pSel, pGen, select, changes, table, op,
                 edit, crossed>>

-----------------------------------------------------------------------------
(* Operations of the table *)

OnTable(p) == UNCHANGED <<stop, mode, plain, frame, scopes, selName, gen, loads, pSel, pGen, task,
                          edit, history>>
Unsaved == UNCHANGED <<pages, select, changes>>

(* action_toggle_expand of an open node, or of one whose list is cached *)
Toggle(p) ==
  /\ op[p] = Idle
  /\ \E r \in NodeRefs(table) :
       \/ r \in table.expanded /\ table' = ClearTree(table, r)
       \/ /\ r \notin table.expanded /\ r \in DOMAIN table.cache
          /\ table' = [table EXCEPT !.expanded = @ \cup {r}]
  /\ OnTable(p) /\ Unsaved /\ UNCHANGED op

(* action_toggle_expand of a node whose list must be fetched *)
Expand(p) ==
  /\ op[p] = Idle
  /\ \E r \in NodeRefs(table) :
       /\ r \notin table.expanded \cup DOMAIN table.cache \cup DOMAIN table.fetching
       /\ table' = [table EXCEPT !.fetching = With(@, r, p)]
       /\ op' = [op EXCEPT ![p] = [at |-> "expand", ref |-> r, start |-> 0]]
  /\ OnTable(p) /\ Unsaved

(* _load_more of a list whose next variables are there already *)
ShowMore(p) ==
  /\ op[p] = Idle
  /\ \E r \in OpenLists(table) :
       LET start == MoreStart(table, r) IN
       /\ start # 0 /\ start < Len(table.cache[r])
       /\ table' = [table EXCEPT
            !.visible = With(@, r, MinOf(start + PageSize, Len(table.cache[r])))]
  /\ OnTable(p) /\ Unsaved /\ UNCHANGED op

(* _load_more of a list that goes on in the debuggee *)
FetchMore(p) ==
  /\ op[p] = Idle
  /\ \E r \in OpenLists(table) \ DOMAIN table.fetching :
       LET start == MoreStart(table, r) IN
       /\ start # 0 /\ start >= Len(table.cache[r])
       /\ op' = [op EXCEPT ![p] = [at |-> "more", ref |-> r, start |-> start]]
       /\ table' = [table EXCEPT !.fetching = With(@, r, p)]
  /\ OnTable(p) /\ Unsaved

(* _load_more_root *)
FetchRoot(p) ==
  /\ op[p] = Idle
  /\ table.root # <<>> /\ table.rootNext \notin {None, 0}
  /\ table.rootNext >= Len(table.root)
  /\ table.rootRef \notin DOMAIN table.fetching
  /\ op' = [op EXCEPT ![p] = [at |-> "root", ref |-> table.rootRef, start |-> table.rootNext]]
  /\ table' = [table EXCEPT !.fetching = With(@, table.rootRef, p)]
  /\ OnTable(p) /\ Unsaved

(* Mutant: an answer is used for whatever the table shows by then. *)
UsesAnyFetch(t, r, p) == TRUE

(* _is_current_fetch *)
UsesFetch(t, r, p) == r \in DOMAIN t.fetching /\ t.fetching[r] = p

(* _finish_fetch *)
Finished(t, r, p) == IF UsesFetch(t, r, p) THEN [t EXCEPT !.fetching = Without(@, {r})] ELSE t

(* The table with the first page of r opened *)
Opened(t, r, page) ==
  [t EXCEPT !.cache = With(@, r, page.vars), !.next = With(@, r, page.next),
            !.visible = With(@, r, MinOf(Len(page.vars), PageSize)),
            !.expanded = @ \cup {r}]

(* The table with a further page of r: one that repeats variables is taken *)
(* for the whole list.                                                     *)
Extended(t, r, page) ==
  LET new == NewVariables(t.cache[r], page.vars)
      all == t.cache[r] \o new IN
  [t EXCEPT !.cache = With(@, r, all), !.visible = With(@, r, Len(all)),
            !.next = With(@, r, IF Len(new) < Len(page.vars) THEN 0 ELSE page.next)]

(* An answer for the table arrives and is used if the request is still the *)
(* current one for its list.                                               *)
Fetched(p) ==
  /\ op[p] # Idle
  /\ LET r == op[p].ref
         page == GetPage(r, op[p].start)
         done == Finished(table, r, p)
         all == table.root \o NewVariables(table.root, page.vars)
         root == RootPage(all, page) IN
     \/ /\ ~UsesFetch(table, r, p)
        /\ table' = done /\ Unsaved
     \/ /\ UsesFetch(table, r, p) /\ op[p].at = "expand"
        /\ table' = Opened(done, r, page) /\ Unsaved
     \/ /\ UsesFetch(table, r, p) /\ op[p].at = "more"
        /\ table' = IF r \in table.expanded THEN Extended(done, r, page) ELSE done
        /\ Unsaved
     \/ /\ UsesFetch(table, r, p) /\ op[p].at = "root"
        /\ table' = [done EXCEPT !.root = all, !.rootNext = root.next]
        /\ Persists(r, root)
  /\ op' = [op EXCEPT ![p] = Idle]
  /\ OnTable(p)

FetchFails(p) ==
  /\ op[p] # Idle
  /\ table' = Finished(table, op[p].ref, p)
  /\ op' = [op EXCEPT ![p] = Idle]
  /\ OnTable(p) /\ Unsaved

-----------------------------------------------------------------------------
(* The edit dialog *)

(* A variable that is shown is edited; the dialog keeps the node. *)
Edit ==
  /\ edit = None
  /\ \E r \in (OpenLists(table) \cup {table.rootRef}) \ {None} :
       LET list == IF r = table.rootRef THEN table.root ELSE Shown(table, r) IN
       /\ list # <<>>
       /\ edit' = [parent |-> r, ref |-> list[1].ref]
  /\ UNCHANGED <<stop, mode, plain, storeVars, loads, panelVars, table, op, history>>

Plain(list) == IF list = <<>> THEN <<>> ELSE [list EXCEPT ![1].ref = None]

(* edit_selected_value after set_variable: the variable is replaced in its *)
(* list, whether or not that list is still there, and what was open below  *)
(* it is closed.                                                           *)
Edited ==
  /\ edit # None
  /\ edit' = None
  /\ plain' = plain \cup {edit.parent}
  /\ LET r == edit.parent
         isRoot == r = table.rootRef
         list == IF r \in DOMAIN table.cache THEN Plain(table.cache[r]) ELSE <<>>
         grown == IF isRoot THEN [table EXCEPT !.root = Plain(@)]
                  ELSE IF r \in DOMAIN table.cache
                       THEN [table EXCEPT !.cache[r] = list]
                       ELSE [table EXCEPT !.cache = With(@, r, list), !.next = With(@, r, 0),
                                          !.visible = With(@, r, 0)]
         S == {edit.ref} IN
     /\ table' = [grown EXCEPT !.cache = Without(@, S), !.next = Without(@, S),
                               !.visible = Without(@, S), !.expanded = @ \ S]
     /\ crossed' = IF isRoot \/ r \in DOMAIN table.cache THEN crossed ELSE crossed \cup {r}
     /\ IF isRoot
        THEN Persists(r, IF table.rootNext = None THEN None
                         ELSE [vars |-> Plain(table.root), next |-> table.rootNext])
        ELSE Unsaved
  /\ UNCHANGED <<stop, mode, frame, scopes, selName, gen, loads, pSel, pGen, task, op, failed>>

EditFails ==
  /\ edit # None
  /\ edit' = None
  /\ UNCHANGED <<stop, mode, plain, storeVars, loads, panelVars, table, op, history>>

-----------------------------------------------------------------------------
(* What the user does *)
User ==
  \/ SelectFrame \/ NextScope \/ Edit
  \/ \E n \in Names : PickScope(n)
  \/ \E p \in Pumps : Toggle(p) \/ Expand(p) \/ ShowMore(p) \/ FetchMore(p) \/ FetchRoot(p)

(* What the event loop runs *)
Loop ==
  \/ Stopped \/ Continued \/ OtherUpdate
  \/ \E l \in Loaders : ScopesLoaded(l) \/ PageLoaded(l) \/ LoadFails(l)
  \/ ScopeChanged \/ ScopeLoaded \/ ScopeLoadFails
  \/ \E p \in Pumps : Fetched(p) \/ FetchFails(p)
  \/ Edited \/ EditFails

Next ==
  \/ User /\ acts < MaxActs /\ acts' = acts + 1
  \/ Loop /\ UNCHANGED acts

Spec == Init /\ [][Next]_vars

(* The framework delivers its messages, and the debuggee answers or the    *)
(* request fails.                                                          *)
FairSpec ==
  /\ Spec
  /\ WF_vars(ScopeChanged /\ UNCHANGED acts)
  /\ WF_vars((ScopeLoaded \/ ScopeLoadFails) /\ UNCHANGED acts)

-----------------------------------------------------------------------------
(* Properties *)

(* The types of the variables. *)
TypeOK ==
  /\ stop \in 0..MaxStop /\ frame \in 0..MaxStop /\ scopes \in 0..MaxStop
  /\ mode \in {"counted", "uncounted", "whole"}
  /\ plain \subseteq Refs /\ crossed \subseteq Refs
  /\ \A n \in Names : pages[n] = None \/ pages[n] \in Page
  /\ {selName, pSel, select} \subseteq Names \cup {None}
  /\ gen \in 0..MaxGen /\ pGen \in 0..MaxGen
  /\ changes \in Seq(Names)
  /\ table.rootRef \in Refs \cup {None}
  /\ table.expanded \cup DOMAIN table.cache \subseteq Refs
  /\ \A r \in DOMAIN table.cache : table.cache[r] \in Seq(Variable)
  /\ DOMAIN table.fetching \subseteq Refs /\ Range(table.fetching) \subseteq Pumps

(* A list is a beginning of the debuggee's, each variable once, and it is  *)
(* all of it when nothing more is offered.                                 *)
IsPrefix(list, more) ==
  /\ \A i \in DOMAIN list : list[i].n = i
  /\ more = 0 => Len(list) = Total

(* What is listed has no gap and no repetition, and where no "Load more"   *)
(* is offered it is complete, however expansions, loads of more pages,     *)
(* edits and new stops interleave and whether or not the adapter pages.    *)
ListsAreWhole ==
  /\ \A r \in OpenLists(table) \ crossed : IsPrefix(table.cache[r], table.next[r])
  /\ table.rootNext # None => IsPrefix(table.root, table.rootNext)

(* No variables of an earlier stop or of another scope are kept below the  *)
(* scope that is shown: late answers for them are dropped.                 *)
NothingOfEarlierStop ==
  \A r \in DOMAIN table.cache :
    table.cache[r] # <<>> => /\ table.rootRef # None
                             /\ <<r[1], r[2]>> = <<table.rootRef[1], table.rootRef[2]>>

(* The store, the panel and the table agree on the scope, and the Select   *)
(* shows what its last message says, or that scope when none is on its     *)
(* way, though a message is handled after later updates, whose listener    *)
(* sets the Select back.                                                   *)
SelectionAgrees ==
  scopes # 0 =>
    /\ pSel # None /\ pSel = selName
    /\ table.rootRef = ScopeRef(scopes, pSel)
    /\ select = IF changes = <<>> THEN pSel ELSE changes[Len(changes)]

(* A scope that was picked is shown and the Select then rests.             *)
PicksSettle == changes # <<>> ~> changes = <<>>

(* The variables shown are of the scopes in the store, and a scope that is *)
(* not loaded is being loaded or its request has failed.                   *)
NoStuckLoading ==
  (scopes # 0 /\ table.rootNext = None) =>
    \/ task # None /\ task.key = <<pSel, gen>>
    \/ failed = <<pSel, gen>>
=============================================================================
