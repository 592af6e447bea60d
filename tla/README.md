# Verification of yathaavat

yathaavat is a terminal debugger for Python: a Textual application that speaks
the Debug Adapter Protocol (DAP) with debugpy over TCP. The program is one
process with one asyncio event loop, so its hard behaviour is not parallelism
but what may happen *between two awaits*: commands of the user, answers,
events, timeouts, cancellations and the loss of the connection, in any order.

This directory holds TLA+ modules for the parts where those orders matter, the
TLC configurations that check them, and TLAPS proofs.

## 1. Inventory

| Part | State | Operations | What is hard | What makes it correct |
|---|---|---|---|---|
| DAP transport (`core/dap/client.py`, `codec.py`) | `_seq`, `_pending`, `_event_queue`, `_write_lock`, `_closed`, `_disconnect_fired`, listen and event task | `request`, `close`, `_listen`/`_dispatch`, `_event_loop`, `_handle_disconnect`, `_respond_unsupported` | late answers, cancelled callers, close() inside a handler, loss while closing | every request ends, only by its own answer; events in order; a loss is reported once |
| Session lifecycle (`plugins/debugpy.py`) | `_dap`, `_initialized`, `_launched`, snapshot state | connect, attach, safe_attach, launch, disconnect, terminate, shutdown, `_on_disconnect`, `_on_event` | commands from dialogs overlap; reports of old clients; teardown cut short | one session at a time; the state shown is true; no process or connection left behind |
| Breakpoints, run to cursor (`plugins/debugpy.py`) | `_breakpoints`, `_run_to_cursor_*`, `SessionSnapshot.breakpoints` | toggle, configure, run to cursor, sync on connect, reset | several requests per file on their way; the adapter moves lines; failures | manager, store and adapter agree; temporary breakpoints go away |
| Execution control, stop refresh (`plugins/debugpy.py`, `app/threads.py`) | threads, frames, scopes, locals, task graph, exception info | resume, step, select_*, refresh_*, and the handler of `stopped` | answers of an earlier stop arriving at a later one | what is shown belongs to the stop shown |
| Asyncio task capture (`core/asyncio_tasks.py`, `app/tasks.py`) | the graph in the store, the panel's row | collector, `build_task_graph`, the panel's selection | cycles, inconsistent edges | every task is in the tree, every cycle is reported |
| Watches (`app/watches.py`) | evaluation key, values | add, delete, evaluate | late results | a value is that of the selected frame |
| Locals inspector (`app/panels.py`) | scope shown, table with its caches and fetches | choose a scope, expand, load more, edit | late pages, messages of the framework, edits | lists are whole and of this stop; store, panel and selector agree |
| Source panel, find, go to line (`app/panels.py`, `search.py`, `source_nav.py`) | location, editor cursor, search | open, move, find | cursor messages of another file | the cursor is where the store says |
| Expression input and completion (`app/expression.py`, `input_history.py`) | text, completions, history position, draft | type, complete, browse, submit | late completions | the list answers the last request |
| Session store (`core/session.py`) | the immutable snapshot, listeners | `update`, `subscribe` | none: synchronous | – |
| Attach, connect, launch dialogs (`app/attach.py`, `connect.py`, `launch.py`) | entries, results, highlighted row | scan, filter, submit | scans that are replaced, fail or arrive late | the row is one that is listed; "Scanning" is true |
| Picker history (`app/picker_history.py`) | one file for all processes | load, push | two processes, a kill between two steps | the file is whole at every moment |
| Launch specification (`app/launch.py`) | none (pure) | `parse_launch_spec` | which option takes a value | no argument is lost or moved |
| Traceback parser (`core/traceback_parser.py`, `app/exception.py`) | none (pure) | parse, build the rows | groups inside groups, chains | the tree shown is the one raised |
| Commands (`plugins/builtin.py`) | – | call the manager | their tasks run beside those of the dialogs | – |
| Shell, registries, discovery, command line | framework widgets, start-up dictionaries | – | none: rendering, I/O | – |

How the parts interact. The manager creates a `DapClient` per connection and
gives it two callbacks: `_on_event`, which the client's *event task* awaits,
and `_on_disconnect`, which its *listen task* awaits. Both call back into the
manager, which calls `close()` of whatever client `_dap` is by then. Panels
read the store and call the manager from tasks of their own. Commands bound to
keys are awaited by the application's message pump, one after the other;
dialogs start tasks that nobody awaits. So manager code runs in three kinds of
task, and `_dap`, `_initialized` and `_launched` are shared by all of them.

`PROJECT.json` lists every part, also those not modelled with the reason, and
the hazards of the code, each at its line.

## 2. Modules

| Module | Models | Abstracts |
|---|---|---|
| `DapClient` | `DapClient` in full | message contents; framing is "decodes or does not" |
| `RequestPromise` | the abstract promise of the transport to its callers | – |
| `DapClientProofs` | theorems about `DapClient`, and that it implements the safety part of `RequestPromise` | – |
| `Session` | the manager's lifecycle on several clients | the client, as the life `DapClient` gives it; payloads; preparation of an attach |
| `Breakpoints` | the breakpoints of one file in manager, store and adapter | session setup; a configuration is its weight |
| `StopRefresh` | execution control and what is fetched after a stop | the end of a connection is one step; values are the stop they are of |
| `Inspector` | the Locals panel with its table, and the loading of scopes | values; the debuggee has two scopes of equal lists |
| `TaskGraph` | collector, graph, tree, cycles, the Tasks panel | stacks, names, states |
| `Prompt` | an expression input with completions and history, and its two owners | a text is its length |
| `SourceView` | the Source panel, the find bar, go to line | file *f* has *f* lines of equal letters |
| `Pickers` | the attach, connect and launch dialogs with their scans | whether a row matches, what a scan finds |
| `PickerHistory` | the history file and the processes that push to it | the order among equal times |
| `LaunchSpec` | what a launch command becomes | a path is what it resolves to |
| `Traceback` | the traceback parser and the Exception panel's tree | a line is its kind and what it names |
| `Panels` | the last eight, checked side by side | – |
| `SessionProofs`, `BreakpointsProofs`, `StopRefreshProofs`, `InspectorProofs`, `TaskGraphProofs`, `TracebackProofs` | theorems and lemmas about the module of that name | – |
| `PanelsProofs` | theorems about `Panels`, with the lemmas of its other parts | – |

In every module an action is **the code one task runs between two awaits**;
the event loop may put any other task there. Mutants (definitions whose
comment begins with "Mutant") sit before the definition they vary and belong to
no behaviour; they show that the property can fail.

### DapClient
`task[s]` is the program counter of the task that sent sequence number `s`,
`fut[s]` its future, `pending` the keys of `_pending`, `sendq` the FIFO of
`_write_lock`. `listen`, `events` and `closer` are the counters of the listen
task, the event task and a `close()`. The correspondence is by name:
`Register` is `request()` up to its first await, `Write` the locked section of
`_send`, `Dispatch` one round of `_listen`, `Teardown`, `TeardownFlushed` and
`Report` the three parts of `_handle_disconnect`, `Close` and `CloseFlushed`
the two parts of `close()`. Details that matter and are kept: a cancelled
caller leaves its entry in `_pending`, a timed-out one removes it; a response
of the client to the adapter's requests takes a sequence number and waits for
the same lock; `close()` called from an event handler cancels its own caller
(`HandlerCloses`); `wait_closed()` may raise (`CloseFails`); an exception in a
handler ends the event task (`HandlerRaises`).

The adapter and the socket are external: any order of answers, none at all,
end of stream, reset, undecodable bytes.

### Session
`at[t]` is where task `t` is and `on[t]` the client or process it awaits.
Tasks are the commands of the user and, per client, a listener and a handler,
because these run `_on_disconnect` and `_on_event`. `HardDisconnect` is
`_hard_disconnect` up to `close()`'s wait, `CloseEnds` the rest, with
`AfterReset` saying where each caller goes on. `Opened` is the assignment
`self._dap = DapClient(...)`, which looks at nothing. `Ask` is
`self._dap.request(...)` of a command that goes on: it uses whatever client
`_dap` is by now. A request that was answered runs on before a teardown of its
client comes to an end: the loop is first in, first out, and the caller is
woken before the listener reads on. `prompt` is a history variable:
no connection was opened while an earlier teardown was still running.

### Breakpoints
`configs` is `_breakpoints[path]`, `shown` the store's list, `set` what the
adapter holds, `calls` the `setBreakpoints` requests on their way, each with
the whole file as it was when the request was sent. `Answered` is
`_set_breakpoints` after its await, with the normalisation, the tracking of the
run-to-cursor target and of the Source cursor, and what the caller does next.
`Blank` are lines without code, which the adapter moves to the next line with
code. `lastOk` is a history variable: the last request was answered and none
was cut off since.

### StopRefresh
`job[p]` is the asyncio task `p` and the answer it waits for: the event handler,
a command of a user, `refresh_tasks`, `_fetch_exception_info` and the
evaluation of the watches. `wire` is the order in which their requests were
sent. `store` is the part of the snapshot that a stop fills; every value in it
is the number of the stop (and the frame) it belongs to, which the program does
not know: that is what the properties compare. The guards are the code's:
`IsCurrentFrame`, `IsCurrent`, `SameStop` and `InfoWanted` are what
`plugins/debugpy.py` compares after an await, no more. The debuggee's stops
keep the frame ids when they are in the same place, which is how an old answer
can pass a guard. An event waits in the client's queue with the stop it tells
of. `watch` follows `EvalKey`, the key of `app/watches.py`.

### Inspector
`loads` are up to two runs of `_refresh_locals` (the event handler's and a
user's), `task` is the panel's scope task, `op[p]` one operation of the table
per message pump, `edit` the edit dialog. `table` is `LocalsTable`: `cache`,
`next`, `visible`, `expanded` and `fetching` are its dictionaries.
`Snapshot` is `store.update` with the panel's listener inside it;
`Select.Changed` waits in `changes` until its handler runs. Every update of the
store, whatever it is of, puts the Select back to the panel's scope
(`_sync_scope_select`): the snapshots, a page that is saved (`Persists`), a new
frame, and all others, which `OtherUpdate` stands for. The debuggee pages
with a total, pages without one, or returns whole lists (`mode`).

### Prompt, SourceView
`Prompt` is `ExpressionInput` with the console and the "add watch" dialog
behind it; `tasks` are completions that wait for the adapter, twice when the
first answer has none (attribute chains). `SourceView` has the store's location, the editor
and `moved`, the cursor messages on their way; the handler reads the cursor
that is there by then. `FindNext` and `FindPrev` are `app/search.py` with
wrapping.

### Pickers, PickerHistory, LaunchSpec
`Pickers` is the three dialogs; each runs its scans in tasks it cancels,
replaces or refuses to start, in its own way. An entry of the history may be one
that does not parse (`Invalid`): the connect dialog gives it no row, the launch
dialog lists it and refuses it when it is taken, staying open. `PickerHistory` is `push()` in
its three steps (read, write a temporary file, rename), in several processes
that may be killed, with short writes and a clock that is set back.
`LaunchSpec` types a command token by token and parses it.

### TaskGraph, Traceback
Pure algorithms over what the debuggee gives them. `TaskGraph` starts from any
await relation over the tasks (with a gather, finished tasks, a collector that
fails in the ways it can) and builds payload, graph, tree and cycles as the code
does: the edges it reads (`GraphEdges`) are `awaited_by` of the call graph, so a
task's children are those that wait for it, although `asyncio_tasks.py:14-17` and
`app/tasks.py:4-5` say that they are those it waits for. `Traceback` prints any tree of exceptions of bounded depth and chain
length as CPython does and parses the text back. The bars before the lines of a
group are left out, since the parser strips them; the one place that does not,
the frames of the outermost group, is `ParseOutermost`.

### Panels
These eight share nothing with each other but the store, and in the store no
field. `PanelsSpec` is therefore a sum: `part` is chosen at the start, and a
behaviour is one of that part with the others at rest. Its properties are those
of the modules, by the names they have there. A step of the whole is a step of
one part, so an invariant of a part is one of the whole; for that, `Panels`
instantiates `Inspector` and `TaskGraph` together with their lemmas
(`InspectorProofs`, `TaskGraphProofs`), and `PanelsProofs` cites these.

## 3. Runs

| Run | Bounds | Shows |
|---|---|---|
| `client_safety` (`DapClientSafety.cfg`) | 2 sequence numbers, 2 events, 1 message of another kind | no waiter is orphaned, teardown is complete, answers are not crossed, a loss is reported once and only then, writes and events keep their order |
| `client_promise` (`DapClient.cfg`) | 2 sequence numbers, 1 event, 1 other message | every request ends, every loss is noticed, `DapClient` implements `RequestPromise` with its fairness |
| `session_one_user` (`Session.cfg`) | 1 user, 7 commands, 3 connections, 2 processes | one session at a time (when prompt), honest state, no orphan process, clean shutdown |
| `session_overlap` (`SessionOverlap.cfg`) | 2 users, connect and disconnect, 2 connections | every command ends; a lost client is let go |
| `breakpoints` (`Breakpoints.cfg`) | 3 lines, 1 blank, 3 changes, 3 requests on their way | manager, store and adapter agree once the last request was answered |
| `stop_refresh` (`StopRefresh.cfg`) | 2 stops, 2 threads, 2 places, 1 user, 2 commands or timeouts | locals only of a paused debuggee; a quiet session shows the stop it is at; watches are of the frame selected |
| `panels` (`Panels.cfg`) | as below | the properties of the eight parts |
| `session_one_active` | 2 users, 2 connections | **finding**: two connects leak a connection |
| `session_ended` | 1 user, 1 connection | **finding**: the end of the session by the adapter never resets it |
| `breakpoints_later` | 3 lines, 2 on their way | **finding**: a configuration made meanwhile is lost |
| `breakpoints_reached` | 3 lines, 1 blank | **finding**: a run to a moved line keeps its temporary breakpoint |
| `inspector_picks` (`InspectorPicks.cfg`) | 1 stop, 1 pick, 1 variable | **finding**: the panel flips between two scopes for ever |

Why the bounds are enough. Two requests are the least with a wrong one to hand
an answer to, and let one be written while the other waits for the lock; one
may be the event handler's and the other a user's. Two events show order. Three
connections let a teardown's late report meet a third session (two hide it:
the report of the first would have to fall on the second); two processes let
one be replaced. Three lines with one blank give a collision and a bystander;
three requests on their way let an answer meet both an older and a newer
change. Two stops are the least at which an answer is late; that they may be of
the same thread and place is what makes it dangerous. The number of changes and of connections only bounds the run; states
repeat beyond it.

The bounds of `panels`, part by part. *Inspector*: 2 stops, 3 variables in
pages of 2 (so that a second page exists and is short), one level below a scope,
2 pumps (a fetch beside another), 3 generations, 3 operations of the user.
*TaskGraph*: 3 tasks and a gather; a cycle of three, a cycle behind a root and
a root beside a cycle are there. *Prompt*: texts up to 2, 2 requests (a late one
and its successor), a history of 2 entries, which overflows. *SourceView*: files
of 1 and 2 lines, locations up to line 4, 3 messages. *Pickers*: 2 items, 2
scans. *PickerHistory*: 2 processes, 3 commands for 2 places, so that one is
dropped. *LaunchSpec*: 4 tokens after `uv`, out of ten. *Traceback*: groups 3
deep and chains of 3 over two types.

Deadlock is off in all runs: a client that is torn down, a session with no
connection left to open, a user who has made all changes and a tree that has been
shown really do nothing more.

### What the passing properties do not say
* `OneSessionIfPrompt` and `StateIsHonest` assume `prompt`. Without it even one
  user can lose a connection: the late report of a first client closes the
  second while the third is being opened. `session_one_active` shows the
  overlap that is easiest to reach.
* `ShutdownIsClean` excludes a command that ends by the exception of
  `wait_closed()`: then `terminate()` never reaches `_terminate_launched`.
* `BookIsShown` and `BookIsSet` say nothing while the last request has failed:
  the panel then keeps a "pending" mark. They compare lines, not the number of
  entries: two requested lines that resolve to one are listed twice.
* `QuietStopShown` is about a stop that was handled undisturbed. It excludes
  (`clean`) a stop with a request that timed out, one during whose handling
  another thread was chosen before the list of threads arrived, and one that was
  handled before the `resume()` that led to it went on: then RUNNING is shown
  until the next event. Tasks and exception are those of the stop unless the
  user moved to another thread (`moved`). While answers are on their way, those
  of an earlier stop may be shown.
* `SelectionAgrees` says what the Select shows at any moment, not that its
  messages run out: a pick that meets an update makes two of them follow each
  other for ever (`inspector_picks`).
* `ListsAreWhole` leaves out lists that an edit has crossed (`crossed`): the edit
  dialog writes its list back although it was closed meanwhile.
* `GraphIsWhole` promises the tree every task except those behind a cycle that
  no root leads to, and nothing when there is no root; and it promises the cycles
  that the roots lead to.
* `EveryMatchIsPassed` is about queries whose matches do not overlap.
* `ScanIsShown` leaves out a scan of the processes that raised (`raised`): the
  dialog then shows "Scanning" until it is closed.
* `HistoryIsWhole` says nothing after a short write (`short`), and nothing about
  an entry that another process pushed meanwhile: it may be lost.
* `ArgsKept` is up to one `--`: it ends the options of `run` and is dropped.
* `TreeIsRead` leaves out trees in which one closing rule ends two groups and
  another member follows (`ClosesTwo`): the parser counts one. It expects the
  frames of an outermost group to be missing: `_parse_group` tests a line of the
  header without its bar, keeps it with the bar (`traceback_parser.py:186`) and
  then does not recognise it as a frame (193), so a group that was raised is
  shown without its own.
* A `_pending` entry may outlive its caller (a cancelled request, a failed
  write) until the connection ends. Nothing says it may not; it is a hazard
  without a property.

### Fairness
`DapClient!Fairness`: asyncio runs every task that can run; `wait_for` fires;
an event handler ends (its requests have deadlines); a drain ends, which
assumes that the adapter keeps reading its socket, because `request()` has no
deadline for the write. Nothing is assumed of the adapter's answers, of the end
of the connection or of the user.

`Session!Fairness`: the same for commands, listeners and handlers; each request
has a deadline (15 s by default, 20 s for attach), the wait for `initialized`
10 s, the preparation of an attach 20 s, the reaping of a process 1.2 s and
then a kill. Commands, events and losses are not assumed to happen.

`Inspector!FairSpec`, which `inspector_picks` uses: the framework delivers its
messages, and a request for a scope is answered or fails, as it has a deadline.

All other modules have safety properties only: what they wait for are answers,
and whether an answer comes is told in `DapClient` and `Session`.

## 4. Proofs

| Module | Theorem | Property | Assumes |
|---|---|---|---|
| `DapClientProofs` | `TypeCorrect` | `TypeOK` | `BoundsAssumption` |
| | `WaitersReachable` | `NoOrphanedWaiter` | |
| | `TeardownLeavesNobody` | `TeardownIsComplete` | |
| | `RepliesMatch` | `NoCrossedReplies` | |
| | `WritesOrdered` | `WrittenInOrder` | |
| | `ReportsJustified` | `ReportsOnlyRemoteLoss` | |
| | `EventsDelivered` | `EventsInOrder` | |
| | `ClientKeepsPromise` | `Promise!SafeSpec`, the safety part of `KeepsPromise` | |
| `BreakpointsProofs` | `BreakpointsTypeCorrect` | `TypeOK` | `FileAssumption` |
| | `StoreShowsBook` | `BookIsShown` | |
| | `AdapterHasBook` | `BookIsSet` | |
| `SessionProofs` | `SessionTypeCorrect` | `TypeOK` | `BoundsAssumption`, `TasksAssumption` |
| | `NoProcessIsLost` | `NoOrphanProcess` | also: one user |
| | `NoConnectionLeaks` | `OneSessionIfPrompt` | also: one user |
| | `ShownStateIsReal` | `StateIsHonest` | also: one user |
| | `ShutdownLeavesNothing` | `ShutdownIsClean` | also: one user |
| `StopRefreshProofs` | `StopRefreshTypeCorrect` | `TypeOK` | `StopRefreshAssumption` |
| | `QuietStopIsShown` | `QuietStopShown` | `StopRefreshAssumption` |
| | `LocalsOnlyPaused` | `NoLocalsUnlessPaused` | nothing |
| | `WatchesOfFrame` | `WatchesFollowFrame` | nothing |
| `InspectorProofs` | `InspectorIsHonest` | types, and the four properties of `Inspector` together | `InspectorAssumption` |
| `PanelsProofs` | `ListsStayWhole` | `ListsAreWhole` | `PanelsAssumption`, `HistoryAssumption` |
| | `LateAnswersAreDropped` | `NothingOfEarlierStop` | |
| | `ScopesAgree` | `SelectionAgrees` | |
| | `ScopesAreLoaded` | `NoStuckLoading` | |
| | `GraphStaysWhole` | `GraphIsWhole` | |
| | `ListAnswersLast` | `ListIsLatest` | |
| | `CursorFollows` | `CursorAgrees` | |
| | `EveryMatchPassed` | `EveryMatchIsPassed` | |
| | `ScanningIsTrue` | `ScanIsShown` | |
| | `ListStaysCurrent` | `ListIsCurrent` | |
| | `FileStaysWhole` | `HistoryIsWhole` | |
| | `CommandIsKept` | `ArgsKept` | |
| | `TreeIsReadBack` | `TreeIsRead` | |
| | `TypesAreRight` | `PanelsTypeOK` | |

Each holds for every value of the constants that satisfies the assumption: any
number of requests, connections, lines, stops, threads, variables, tasks,
processes, items, files and tokens, and, where the table does not say "one
user", of users. The assumptions say that bounds are naturals, that the last
line of a file has code (the adapter has a line to move to), that the tasks of a
client are no users, that the tasks of a graph are numbers (the order of their
names), that a page holds at least one variable, that a dialog may scan at least
once, that no file is longer than the lines that may be asked for, that no
exception has the name that stands for a group, and that the markers for
"nothing" and for a torn file are no values.

### DapClient
The argument. None of these is inductive alone. `IInv` joins them with what
they rest on:

* `NumbersInv`: a number is unborn until `_seq` has passed it, and a number not
  in use is in no table. Without it a fresh request could meet an old entry.
* `LifeInv`: how `_closed`, `_disconnect_fired`, the two tasks and `close()`
  depend on each other; in particular the client is closed exactly when one of
  the two teardowns has begun, and the event task is gone by then. This is what
  excludes a registration behind the sweep of `_pending`.
* `RepliesInv`: a response on its way answers a request the adapter answered.
* `CauseInv`: the listen task tears the client down only for a cause.

`Invariance` (`Spec => []IInv`) has one lemma per conjunct (`NumbersStep`,
`WaiterStep`, ...), each with one case per action that can disturb it;
`StepFrames` says once which actions leave which variables alone. `EventsInv`
then adds, on top of `IInv`, that the events handled, queued and on the wire
continue each other without a gap; `EventsDelivered` is an action property that
follows from both. TLC checked `IInv` and `EventsInv` as invariants of
`client_safety`'s instance before they were proved.

The refinement adds `OwedInv`: what the adapter owes or has
answered was written once, and a request that waits for its response has left
the queue for the lock. Without it the adapter could answer a request a second
time, or one that was never sent. `PromiseStep` then maps every action: a
registration issues, a resumed caller is answered (only by its own answer,
`NoCrossedReplies`) or fails, a timeout and a cancellation fail, either
teardown takes the link down together with the request the event task awaited,
the disconnect handlers report the loss (once, `LifeInv`), and taking an event
hears the next one (`QueueFollows`). Everything else stutters: `OneOutcome`
says how one request's step changes what the promise sees.

### Session
Types and two simple facts (`TInv`) hold for any number of users: a task that
waits or closes knows its client (`OnInv`), and a command that does not connect
is only in four places (`CmdInv`). The rest is for one user, as in
`session_one_user` (with two, finding 1 shows that connections leak), and
for any number of connections and processes. `ProcInv`: a process that lives is
in `_launched`, or the command that took it from there is ending it; when the
next one is spawned, `_launched` is empty. `SessionInv`: as long as `prompt`
holds, the tasks of a client work only while it is open, only the session's
client is open, only the user's command closes clients (a handler that tries is
cut short by its own close, and the report of a loss finds nothing open), and
nothing is open while a loss is being reported or a command is on its way from
the reset to a new connection. The last part is what makes a late report
harmless. `GoodReset` and `GoodCloseBegins` are the two halves of
`_hard_disconnect`, proved once and used for whoever calls it. `ShutdownStep`
needs all three invariants: of the steps that end such a command only the
process's end and a close() that raises are left.

### Breakpoints
Neither `BookIsShown` nor `BookIsSet` is inductive: they speak of the moment at
which nothing is on its way. What holds in between is `LastInv`: whatever
answers came meanwhile, the manager's lines differ from those of the *last*
request on its way (`Follows`) only in that some have been moved to where the
adapter moves them. `StillFollows` shows that an earlier answer keeps this and
`FollowedAgrees` that the answer to that last request then makes manager, store
and adapter agree. Both rest on `ResolveOnce`: a line that the adapter has moved
to is not moved again, which is where the least element of a set of lines is
needed (`MinIsLeast`). `LinkInv` (nothing is on its way and no event handled
without a connection) excludes a request made by a handler of an old connection;
`SetInv` adds the time before the synchronisation, when the adapter may hold
nothing.

### StopRefresh
`SInv` joins three parts. `Honest`: the store has locals only if the state is
PAUSED. `WatchesInv`: the key is that of the store, and the evaluation that
runs, if any, is for the key. `JobsInv`: there is one state for each job.
`UpdateKeeps` says once what every `store.update` preserves, with the panel's
restart inside it; the actions are then instances of it.

`QuietStopShown` speaks of the moment at which nothing is on its way, so the
invariant has to say what is on its way before. `TInv` says it for any moment:
the wire has exactly one request of each job that waits for an answer
(`WireOK`), the handler is at the stop that was taken last (`HandlerInv`), a
stop's background tasks start when the handler is through with it (`NewInv`),
and the events that wait are those of the later stops in their order, the last
of them the stop at which the debuggee is (`EventsInv`). `SettlingInv` says it
for a stop that is handled undisturbed (`Settling`), in the order in which the
adapter answers:

* `FramesInv`: the frames are those of the thread shown, or the *last* request
  for frames is for that thread. A user's choice and the handler both ask, and
  whichever asks last also chose the thread.
* `LocalsInv`: the locals are those of the selected frame or a request for them
  is on its way. `SelInv`, `ExcInv`: the selected frame is one of this stop; the
  exception is, or is being fetched.
* `GraphInv`: the graph is that of the stop, or of the requests for it one
  defines and calls in a frame of this stop. A request in a frame of an earlier
  stop is refused; that it cannot clear the graph afterwards rests on the order
  of the wire: it was sent before the stop's own.

A step of one job (`Step`) keeps the requests of the others in their order;
`TypesKept`, `FramesKept`, `GraphKept` and their like say what such a step has to
see to, and each answer of the adapter is a lemma of its own.

### Inspector
`IInv` describes the lists by what they are pages of. A list is a *run*
(`IsRun`): consecutive variables of what it lists; it is a *beginning*
(`IsBeginning`) if it also starts with the first one. `GoesOn` says where it goes
on: after its last variable, or nowhere because it has them all. `CacheInv`:
every cached list is a beginning of a list below the scope that is shown.
`FetchInv`: a request of the table that is still the current one for its list
goes on where the list ends (`Continues`); this is why an answer can be
appended, and why one for a list that was closed and opened again, which is not
the current one any more, is dropped. `PagesInv`, `LoadInv`: the pages in the store are of its scopes,
and a load whose answer may still be used is newer than what is shown or of
the same stop. `SelectInv`, `ShownInv`: the last message of the Select is what
it shows, and store, panel and table name the same scope. `PutBack`: an update
that sets the Select back keeps this, because it posts a message whenever it
changes the value. Lists that
an edit has crossed are named in `crossed`; all that is said of them is that they are runs.
`TableStep` and `PanelStep` divide the steps into those of the table and those
of the panel.

### TaskGraph
`GraphInv`: the payload on its way is what the debuggee had when it was made,
and the graph shown is the one built from a payload (`Built`). The rest is
about that construction. `Reach` adds the next tasks `Count` times; since every
round but the last adds a task, the result is closed and is the least closed set.
The tree's nodes are the paths from a root without repetition, and a reached
task has such a path no longer than `Count`, which is the bound of the
recursion. That every task is below a root unless it is behind a cycle: take an
unreached task and, of those that lead to it, the one with the most tasks below
it. It is no root, so somebody awaits it; that one has at least as much
below it, hence exactly as much, and lies on a cycle with it. That every cycle is
reported: a path that returns to one of its tasks goes around it; conversely, a
path to the first task of a cycle met from a root, followed by one turn, is
one that the search walks.

### Parts of Panels
* *Pickers*. `PInv`: an open dialog has one scan and shows so, or none and the
  last one's results, or its only one raised. `RefilledLights` shows that the
  list, whenever it is filled anew, highlights one of its rows.
* *PickerHistory*. `HInv`: what each process holds between two steps is a
  history, or torn together with `short`; `PushedIsHistory` counts the entries.
* *Prompt*. `CompletionInv`: a completion task that runs is of the last request,
  since a new request cancels the one before.
* *SourceView*. `SVInv`: while cursor messages are on their way, the panel knows
  the location that the store has, and once there are none the cursor stands for
  it; this is where a message of another file has to be harmless (`MoveKeeps`).
  `EveryMatchIsPassed` says that no proper subset of the matches is closed under
  going on to the next one. `StepsGoAround` shows this for any
  step that goes on by one and around at the end; the matches are numbered by
  their places.
* *LaunchSpec*. `LInv`: the options scanned end in whole pairs of a name and its
  value, and the adjacent parts into which the command was cut join up again.

### Traceback
The frames of an outermost group do not matter to the rest of the tree
(`OuterFrames`). The text of a tree is its own lines, what opens a group, the texts of its
members with what parts and closes them. `Good(t)` says of a tree what its
neighbours need to know of its text: it is read back as `t`, and in the middle
of a longer text the splitter takes every line of it for the member it is in and
is afterwards where it was before (`LastText`, `TwoText`). `Sound(t)` says what
the debuggee raises. `GroupGood` and `ChainGrows` go up one level from the trees
below to the tree above them; `NestedSound` and `ChainsSound` are the inductions
over the depth of groups and the length of chains. A tree one of whose rules
closes two groups (`ClosesTwo`) is excepted, since the splitter counts one; that
its name is read all the same is shown too. `TreeInv` then says that what was
raised can be read and that what is shown was read from its text.

The types of `Traceback` say that what was read is a tree no deeper than
`TreeDepth`. They need a bound on how deep the parser calls itself: each call is
for a part of the text with fewer separators, and a text of groups to depth
`GroupDepth` has at most four for each depth (`GroupReadable`).

### Types
`PanelsTypeOK` is about eight parts at once, and each part's types come from its
own invariant. Three had to be added. `PromptTypes`: a completion task holds a
text with the cursor inside it, so what is listed for it are items
(`CandidatesAre`), and what is accepted is a text again (`AppliedIs`).
`SourceTypes`: the cursor is inside the text of its file; a match that is found is
a position in it (`FoundIs`), whatever line the store asks for (`UpdateTypes`).
`PickTypes`: what is highlighted or taken is a row of the list, of the dialog
that is open (`RowsAre`). Deleting a watch is a fold over the list, which needs
the lemmas on folds of `TracebackProofs` (`WithoutIs`).

### Induction
The library's induction theorems take an operator as a parameter, and the
provers cannot give that parameter a value. The lemmas at the beginning of
`TaskGraphProofs` and `TracebackProofs` say the same with sets and functions: a
set with 0 that has the successor of each of its numbers is Nat
(`InductionOnNaturals`), a set of naturals that is not empty has a least
element and, if it is bounded, a greatest one, and there is a function that
follows a given step (`RecursionExists`). Proofs by induction then name the set
of the numbers for which the claim holds, or take a least counterexample.
`PanelsProofs` cites those of `TaskGraphProofs` through its instance.

TLC has checked each of these strengthenings as an invariant of the instance
that its run uses.

### Only model-checked
* Liveness (`RequestsEnd`, `LossIsReported`, `CommandsEnd`, `LossResets`) and the
  liveness half of the refinement of `RequestPromise`, whose fairness needs
  ENABLED, which the prover does not handle.

Every other property of a run is stated by a theorem, for all values of the
constants. The findings' runs stay with TLC: they show that a property fails.

## 5. Findings

1. *Two connects leak a session* (`session_one_active`): `debugpy.py:281`.
2. *The end of a session by the adapter does not reset it* (`session_ended`):
   `debugpy.py:1184` with `client.py:62-65`.
3. *A configuration made meanwhile is lost* (`breakpoints_later`):
   `debugpy.py:1438-1440`.
4. *A run to a moved line keeps its temporary breakpoint*
   (`breakpoints_reached`): `debugpy.py:935-938`. The target is set after the
   answer that moved the line; the debuggee then goes on, stops on the moved line
   and is not where the target says.
5. *A pick in the Locals panel may never settle* (`inspector_picks`):
   `panels.py:1334`, `1355-1374`, `1376`. Any update of the store between the pick
   and its message sets the Select back to the scope before, with a second
   message. Each of the two messages then chooses its scope and, by the update in
   it, posts itself again behind the other.

Each is quoted against the document or comment it contradicts in
`PROJECT.json`.

## 6. Not modelled, and plan

Not modelled, because there is no state that two actors share: rendering, key
bindings and layout (state of the Textual framework), the registries filled at
start-up, the command line, `ps` and `lsof` output, directory listings and fuzzy
scores. Not modelled, though they have a little state: the breakpoint dialog and
the Breakpoints panel (they appear as the calls they make), the filter of the
Locals panel (a view of its rows), the transcript (append only), the probing of
endpoints (its outcome is arbitrary in `Pickers` and `Session`), the handoff
directory of safe attach (the other side runs in a remote interpreter).

Next, in this order:

1. `Breakpoints` with two files, for the synchronisation on connect
   (`debugpy.py:1351`), the one hazard of the list that needs another instance
   of a module already there.
2. The filter of the Locals panel and the endpoint probing.
