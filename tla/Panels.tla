------------------------------- MODULE Panels -------------------------------
(***************************************************************************)
(* The parts of the interface and of its support code that share nothing   *)
(* but the store, checked together: a behaviour is one of one part, and    *)
(* the other parts stay as they start.                                     *)
(***************************************************************************)
EXTENDS PickerHistory

CONSTANTS None, Invalid, Running, Gather,
          MaxStop, MaxGen, MaxChanges, MaxActs, Total, PageSize, Depth, Pumps,
          Count, MaxLen, MaxRequests, Files, Width, MaxLine, MaxPending,
          Items, MaxScans, Tokens, Installed, MaxArgs,
          Leaves, Traced, GroupDepth, MaxChain

VARIABLES
  part,     \* the part that the behaviour is one of
  stop, mode, plain, frame, scopes, pages, selName, gen, loads, pSel, pGen, task,
  select, changes, table, op, edit, acts, crossed, failed,
  awaits, gathered, done, fault, raw, graph, selected, row, detail,
  owner, text, cursor, items, index, tasks, submitted, history, at, scratch,
  watches, asked, answers,
  loc, editor, known, moved, open, value, changed, search,
  kind, manager, entries, found, loading, scans, latest, query, light, started,
  infer, foundBy, raised,
  args, spec,
  tree, inner, info, exc_tree

inspectorVars == <<stop, mode, plain, frame, scopes, pages, selName, gen, loads, pSel, pGen,
                   task, select, changes, table, op, edit, acts, crossed, failed>>
graphVars     == <<awaits, gathered, done, fault, raw, graph, selected, row, detail>>
promptVars    == <<owner, text, cursor, items, index, tasks, submitted, history, at, scratch,
                   watches, asked, answers>>
sourceVars    == <<loc, editor, known, moved, open, value, changed, search>>
pickersVars   == <<kind, manager, entries, found, loading, scans, latest, query, light,
                   started, infer, foundBy, raised>>
launchVars    == <<args, spec>>
tracebackVars == <<tree, inner, info, exc_tree>>

(* Where a module of proofs is named, it is the module of the part with    *)
(* the lemmas that PanelsProofs cites of it.                               *)
Insp   == INSTANCE InspectorProofs
Graph  == INSTANCE TaskGraphProofs
Prompt == INSTANCE Prompt
Source == INSTANCE SourceView
Pick   == INSTANCE Pickers
Launch == INSTANCE LaunchSpec
Trace  == INSTANCE TracebackProofs

ASSUME PanelsAssumption ==
  /\ Insp!InspectorAssumption /\ Graph!TaskGraphAssumption /\ Prompt!PromptAssumption
  /\ Source!SourceAssumption /\ Pick!PickersAssumption /\ Launch!LaunchAssumption
  /\ Trace!TracebackAssumption

Parts == {"history", "inspector", "graph", "prompt", "source", "pickers", "launch", "traceback"}

(* What a part may start with matters to its own behaviours alone. *)
PanelsInit ==
  /\ part \in Parts
  /\ Init /\ Insp!Init /\ Graph!Init /\ Prompt!Init /\ Source!Init /\ Pick!Init
  /\ Launch!Init /\ Trace!Init
  /\ part # "inspector" => mode = "whole"
  /\ part # "traceback" => ~inner

PanelsNext ==
  /\ IF part = "history"   THEN Next        ELSE UNCHANGED vars
  /\ IF part = "inspector" THEN Insp!Next   ELSE UNCHANGED inspectorVars
  /\ IF part = "graph"     THEN Graph!Next  ELSE UNCHANGED graphVars
  /\ IF part = "prompt"    THEN Prompt!Next ELSE UNCHANGED promptVars
  /\ IF part = "source"    THEN Source!Next ELSE UNCHANGED sourceVars
  /\ IF part = "pickers"   THEN Pick!Next   ELSE UNCHANGED pickersVars
  /\ IF part = "launch"    THEN Launch!Next ELSE UNCHANGED launchVars
  /\ IF part = "traceback" THEN Trace!Next  ELSE UNCHANGED tracebackVars
  /\ UNCHANGED part

PanelsVars == <<part, vars, inspectorVars, graphVars, promptVars, sourceVars, pickersVars,
                launchVars, tracebackVars>>

PanelsSpec == PanelsInit /\ [][PanelsNext]_PanelsVars

-----------------------------------------------------------------------------
(* The properties, each defined and explained in the module of its part    *)

(* The types of the variables of every part. *)
PanelsTypeOK ==
  /\ part \in Parts
  /\ CASE part = "history"   -> TypeOK
       [] part = "inspector" -> Insp!TypeOK
       [] part = "graph"     -> Graph!TypeOK
       [] part = "prompt"    -> Prompt!TypeOK
       [] part = "source"    -> Source!TypeOK
       [] part = "pickers"   -> Pick!TypeOK
       [] part = "launch"    -> Launch!TypeOK
       [] part = "traceback" -> Trace!TypeOK

(* Inspector: the lists of variables have no gap, and are complete where   *)
(* no more is offered.                                                     *)
ListsAreWhole == Insp!ListsAreWhole

(* Inspector: no variables of another stop or scope are kept. *)
NothingOfEarlierStop == Insp!NothingOfEarlierStop

(* Inspector: store, panel and table agree, the Select follows its last    *)
(* message.                                                                *)
SelectionAgrees == Insp!SelectionAgrees

(* Inspector: a scope that is not loaded is being loaded or has failed. *)
NoStuckLoading == Insp!NoStuckLoading

(* TaskGraph: both lists of edges are one relation, the tree shows each    *)
(* task that a root leads to, and the cycles reported are those the roots  *)
(* lead to.                                                                *)
GraphIsWhole == Graph!EdgesAgree /\ Graph!TreeIsWhole /\ Graph!CyclesReported

(* Prompt: a list of completions answers the last request. *)
ListIsLatest == Prompt!ListIsLatest

(* SourceView: the cursor of the editor is where the store says. *)
CursorAgrees == Source!CursorAgrees

(* SourceView: going on to the next match passes every match. *)
EveryMatchIsPassed == Source!EveryMatchIsPassed

(* Pickers: "Scanning" is shown exactly while a scan runs. *)
ScanIsShown == Pick!ScanIsShown

(* Pickers: the highlighted row is one of those that are listed. *)
ListIsCurrent == Pick!ListIsCurrent

(* LaunchSpec: no argument of the command is lost or moved. *)
ArgsKept == Launch!ArgsKept

(* Traceback: the tree shown is the one that was raised. *)
TreeIsRead == Trace!TreeIsRead
=============================================================================
