------------------------------- MODULE Prompt -------------------------------
(***************************************************************************)
(* An expression input with its completions and history                    *)
(* (app/expression.py, app/input_history.py), as the console and the "add  *)
(* watch" dialog use it (app/panels.py, app/watches.py), and the manager's *)
(* completion behind it (plugins/debugpy.py: complete).                    *)
(*                                                                         *)
(* Texts are told apart by their lengths.  A key is handled in one step;   *)
(* Submitted is a message that the owner handles later; a completion task  *)
(* waits for the adapter, first for its candidates and, when there are     *)
(* none, for the variables of an attribute chain.                          *)
(*                                                                         *)
(* A definition whose comment begins "Mutant" belongs to no behaviour.     *)
(***************************************************************************)
EXTENDS Naturals, Sequences, FiniteSets, SequencesExt

CONSTANTS None,         \* no position in the history
          MaxLen,       \* bound: length of a text
          MaxEntries,   \* max_entries of the history
          MaxRequests   \* bound: completions asked for

PromptAssumption == MaxLen \in Nat /\ MaxEntries \in Nat \ {0} /\ MaxRequests \in Nat

VARIABLES
  owner,      \* "none", "console" or "watch"
  text,       \* the text of the area
  cursor,     \* its cursor
  items,      \* _completion_items
  index,      \* _completion_index
  tasks,      \* completion tasks that wait for the adapter
  submitted,  \* Submitted messages not yet handled
  history,    \* InputHistory._items
  at,         \* InputHistory._cursor
  scratch,    \* InputHistory._scratch
  watches,    \* store: the expressions watched
  asked,      \* counts the completions asked for
  answers     \* history: the request that the list answers

inputVars == <<text, cursor>>
listVars  == <<items, index, answers>>
histVars  == <<history, at, scratch>>
vars == <<owner, inputVars, listVars, tasks, submitted, histVars, watches, asked>>

Texts == 0..MaxLen
Item  == [start : Texts, length : Texts, insert : Texts]

MinOf(a, b) == IF a < b THEN a ELSE b
MaxOf(a, b) == IF a < b THEN b ELSE a

Init ==
  /\ owner = "none" /\ text = 0 /\ cursor = 0
  /\ items = <<>> /\ index = 0 /\ answers = 0
  /\ tasks = {} /\ submitted = <<>>
  /\ history = <<>> /\ at = None /\ scratch = 0
  /\ watches = <<>> /\ asked = 0

(* The console is there, or the dialog is opened. *)
Open(o) ==
  /\ owner = "none"
  /\ owner' = o
  /\ UNCHANGED <<inputVars, listVars, tasks, submitted, histVars, watches, asked>>

-----------------------------------------------------------------------------
(* Editing *)

SetText(t, c) == text' = t /\ cursor' = c

(* _hide_completions *)
Hide == items' = <<>> /\ index' = 0 /\ answers' = 0

(* A typing key: the list is closed, a request on its way is not.          *)
Type ==
  /\ owner # "none"
  /\ Hide
  /\ \/ text < MaxLen /\ SetText(text + 1, cursor + 1)
     \/ cursor > 0 /\ SetText(text - 1, cursor - 1)
  /\ UNCHANGED <<owner, tasks, submitted, histVars, watches, asked>>

(* Any other key of the area *)
MoveTo(c) ==
  /\ owner # "none" /\ c \in 0..text
  /\ cursor' = c
  /\ UNCHANGED <<owner, text, listVars, tasks, submitted, histVars, watches, asked>>

-----------------------------------------------------------------------------
(* Completions *)

(* Mutant: the request before is left alone. *)
KeepsBefore(t) == tasks' = tasks \cup {t}

(* request_completions: the task before is cancelled. *)
Replaces(t) == tasks' = {t}

(* Tab without a list: request_completions, with what is in the area.      *)
Request ==
  /\ owner # "none" /\ items = <<>>
  /\ asked < MaxRequests
  /\ asked' = asked + 1
  /\ Replaces([at |-> "targets", id |-> asked + 1, text |-> text, cursor |-> cursor])
  /\ UNCHANGED <<owner, inputVars, listVars, submitted, histVars, watches>>

(* The candidates for text t at cursor c: a span inside t, by default the  *)
(* word before the cursor (_parse_completion_targets).                     *)
Spans(t, c) == {[start |-> s, length |-> n] : s \in {0, c}, n \in {0, c}}
Fallback(c) == [start |-> 0, length |-> c]
Span(raw, t, c) == IF raw.start + raw.length > t THEN Fallback(c) ELSE raw

Candidates(t, c) ==
  {[start |-> Span(raw, t, c).start, length |-> Span(raw, t, c).length, insert |-> MaxLen] :
     raw \in Spans(t, c)}

(* _show_completions *)
Show(list, id) == items' = list /\ index' = 0 /\ answers' = IF list = <<>> THEN 0 ELSE id

(* The adapter's candidates arrive, or the fallback's variables.           *)
Completed ==
  /\ \E t \in tasks :
       /\ \E S \in SUBSET IF t.at = "targets" THEN Candidates(t.text, t.cursor)
                          ELSE {[start |-> 0, length |-> t.cursor, insert |-> MaxLen]} :
            /\ t.at = "targets" => S # {}
            /\ Cardinality(S) <= 2
            /\ Show(SetToSeq(S), t.id)
       /\ tasks' = tasks \ {t}
  /\ UNCHANGED <<owner, inputVars, submitted, histVars, watches, asked>>

(* No candidates, or the request failed: a paused program's variables are  *)
(* asked for; a running one has none.                                      *)
NoCandidates ==
  /\ \E t \in tasks :
       /\ t.at = "targets"
       /\ \/ tasks' = (tasks \ {t}) \cup {[t EXCEPT !.at = "variables"]} /\ UNCHANGED listVars
          \/ tasks' = tasks \ {t} /\ Hide
  /\ UNCHANGED <<owner, inputVars, submitted, histVars, watches, asked>>

(* complete() raises: there is no session (any more). *)
CompleteRaises ==
  /\ \E t \in tasks : tasks' = tasks \ {t}
  /\ UNCHANGED <<owner, inputVars, listVars, submitted, histVars, watches, asked>>

(* apply_completion: the span is cut to the text that is there by then.    *)
Applied(t, item) ==
  LET start == MinOf(item.start, t)
      end   == MaxOf(start, MinOf(start + item.length, t))
  IN [text |-> start + item.insert + (t - end), cursor |-> start + item.insert]

(* Tab or Enter with a list: accept_completion.  (A text is cut to the     *)
(* bound.)                                                                 *)
Accept ==
  /\ items # <<>>
  /\ LET new == Applied(text, items[index + 1])
     IN SetText(MinOf(new.text, MaxLen), MinOf(new.cursor, MaxLen))
  /\ Hide
  /\ UNCHANGED <<owner, tasks, submitted, histVars, watches, asked>>

(* Up and down with a list *)
Highlight ==
  /\ items # <<>>
  /\ index' \in {IF index = 0 THEN 0 ELSE index - 1, MinOf(Len(items) - 1, index + 1)}
  /\ UNCHANGED <<owner, inputVars, items, answers, tasks, submitted, histVars, watches, asked>>

(* Escape with a list *)
CloseList ==
  /\ items # <<>>
  /\ Hide
  /\ UNCHANGED <<owner, inputVars, tasks, submitted, histVars, watches, asked>>

-----------------------------------------------------------------------------
(* History; the dialog has none *)

Browses == owner = "console" /\ items = <<>> /\ history # <<>>

(* Up: history_prev; what was in the area is kept when browsing begins. *)
Prev ==
  /\ Browses
  /\ at' = IF at = None THEN Len(history) ELSE MaxOf(1, at - 1)
  /\ scratch' = IF at = None THEN text ELSE scratch
  /\ SetText(history[at'], history[at'])
  /\ UNCHANGED <<owner, listVars, tasks, submitted, history, watches, asked>>

(* Down: history_next *)
Forward ==
  /\ Browses /\ at # None
  /\ IF at < Len(history)
     THEN at' = at + 1 /\ SetText(history[at + 1], history[at + 1])
     ELSE at' = None /\ SetText(scratch, scratch)
  /\ UNCHANGED <<owner, listVars, tasks, submitted, history, scratch, watches, asked>>

(* InputHistory.push: blank lines do nothing, the last line is not         *)
(* repeated, the oldest ones are dropped.                                  *)
Pushed(t) ==
  LET all == IF history # <<>> /\ Last(history) = t THEN history ELSE Append(history, t)
  IN SubSeq(all, MaxOf(0, Len(all) - MaxEntries) + 1, Len(all))

(* Enter without a list: submit *)
Submit ==
  /\ owner # "none" /\ items = <<>>
  /\ submitted = <<>>
  /\ submitted' = <<text>>
  /\ IF owner = "console" /\ text # 0
     THEN history' = Pushed(text) /\ at' = None /\ scratch' = 0
     ELSE UNCHANGED histVars
  /\ UNCHANGED <<owner, inputVars, listVars, tasks, watches, asked>>

-----------------------------------------------------------------------------
(* The owners *)

Clear == SetText(0, 0) /\ Hide

(* ConsolePanel._on_submit: the input is cleared; an expression is         *)
(* evaluated (which changes nothing here).                                 *)
ConsoleSubmitted ==
  /\ owner = "console" /\ submitted # <<>>
  /\ submitted' = Tail(submitted)
  /\ Clear
  /\ UNCHANGED <<owner, tasks, histVars, watches, asked>>

IsNew(t) == t # 0 /\ t \notin Range(watches)

(* AddWatchDialog._on_submit *)
WatchSubmitted ==
  /\ owner = "watch" /\ submitted # <<>>
  /\ submitted' = Tail(submitted)
  /\ IF IsNew(Head(submitted))
     THEN watches' = Append(watches, Head(submitted)) /\ Clear
     ELSE UNCHANGED <<watches, inputVars, listVars>>
  /\ UNCHANGED <<owner, tasks, histVars, asked>>

(* Escape: the dialog is closed and its task cancelled; the console has no *)
(* handler for it.                                                         *)
Cancel ==
  /\ owner = "watch" /\ items = <<>>
  /\ owner' = "none"
  /\ tasks' = {} /\ submitted' = <<>>
  /\ Clear
  /\ UNCHANGED <<histVars, watches, asked>>

(* The expressions other than w, in their order *)
Without(list, w) == FoldLeft(LAMBDA kept, x : IF x = w THEN kept ELSE Append(kept, x), <<>>, list)

(* action_delete_watch, by expression *)
DeleteWatch ==
  /\ owner = "none"
  /\ \E w \in Range(watches) : watches' = Without(watches, w)
  /\ UNCHANGED <<owner, inputVars, listVars, tasks, submitted, histVars, asked>>

Next ==
  \/ \E o \in {"console", "watch"} : Open(o)
  \/ Type \/ \E c \in Texts : MoveTo(c)
  \/ Request \/ Completed \/ NoCandidates \/ CompleteRaises
  \/ Accept \/ Highlight \/ CloseList
  \/ Prev \/ Forward \/ Submit
  \/ ConsoleSubmitted \/ WatchSubmitted \/ Cancel \/ DeleteWatch

Spec == Init /\ [][Next]_vars

-----------------------------------------------------------------------------
(* Properties *)

(* The types of the variables. *)
TypeOK ==
  /\ owner \in {"none", "console", "watch"}
  /\ text \in Texts /\ cursor \in 0..text
  /\ items \in Seq(Item) /\ index \in 0..MaxOf(0, Len(items) - 1)
  /\ submitted \in Seq(Texts) /\ watches \in Seq(Texts)
  /\ history \in Seq(Texts \ {0}) /\ Len(history) <= MaxEntries
  /\ at \in {None} \cup DOMAIN history

(* A list of completions answers the last request there was: an earlier    *)
(* request never puts its own in its place, whatever is typed, browsed or  *)
(* submitted meanwhile.                                                    *)
ListIsLatest == items # <<>> => answers = asked
=============================================================================
