------------------------------ MODULE Pickers ------------------------------
(***************************************************************************)
(* The dialogs that start a session: attach, connect and launch            *)
(* (app/attach.py, app/connect.py, app/launch.py), with the scans behind   *)
(* them (app/server_discovery.py, app/file_discovery.py,                   *)
(* plugins/processes.py).                                                  *)
(*                                                                         *)
(* A scan is a task: of the processes, of the debugpy ports and of the     *)
(* endpoints in the history, or of the files below the directory.  Its     *)
(* results, whether a row matches the query, and what an endpoint or       *)
(* process turns out to be are external and arbitrary.  Items are pids,    *)
(* endpoints or command lines.                                             *)
(*                                                                         *)
(* A definition whose comment begins "Mutant" belongs to no behaviour.     *)
(***************************************************************************)
EXTENDS Naturals, FiniteSets

CONSTANTS None,      \* no row, no text, nothing started
          Items,     \* what can be listed: a set of numbers
          Invalid,   \* a text, or an entry of the history, that does not parse
          MaxScans   \* bound: scans of one dialog

PickersAssumption ==
  /\ Items \subseteq Nat /\ MaxScans \in Nat \ {0} /\ Invalid \notin Items
  /\ None \notin [what : Items \cup {Invalid}, from : {"found", "history"}]

VARIABLES
  kind,      \* the dialog that is open
  manager,   \* whether there is a session manager
  entries,   \* _entries: the history, as loaded when the dialog opened
  found,     \* _processes, _servers or _files
  loading,   \* _loading
  scans,     \* scan tasks that run
  latest,    \* the scan that was started last
  query,     \* query_text with the items that match it
  light,     \* the highlighted row
  started,   \* what was started when the dialog closed
  infer,     \* pid whose endpoint is being inferred
  foundBy,   \* history: the scan that gave `found`
  raised     \* history: the scan raised, and nothing cleared _loading

scanVars == <<found, loading, scans, latest, foundBy, raised>>
vars == <<kind, manager, entries, scanVars, query, light, started, infer>>

Kinds    == {"attach", "connect", "launch"}
Entries  == Items \cup {Invalid}
Row      == [what : Entries, from : {"found", "history"}]
Texts    == Entries \cup {None}
NoQuery  == [text |-> None, matches |-> Entries]

Closed ==
  /\ entries' = {} /\ found' = {} /\ loading' = FALSE /\ scans' = {} /\ latest' = 0
  /\ foundBy' = 0 /\ raised' = FALSE /\ query' = NoQuery /\ light' = None

Init ==
  /\ kind = "none" /\ manager = FALSE
  /\ entries = {} /\ found = {} /\ loading = FALSE /\ scans = {} /\ latest = 0
  /\ foundBy = 0 /\ raised = FALSE /\ query = NoQuery /\ light = None
  /\ started = None /\ infer = None

-----------------------------------------------------------------------------
(* Rows *)

(* Mutant: what is found is listed again from the history. *)
FromHistoryAll(k, ents, fnd) == ents

(* Entries that get a row: of the endpoints those that parse, and one that *)
(* answers the scan is listed as found; of the commands all.               *)
FromHistory(k, ents, fnd) ==
  CASE k = "connect" -> (ents \cap Items) \ fnd
    [] k = "launch"  -> ents
    [] k = "attach"  -> {}

(* _rows, _build_rows: what matches the query *)
Rows(k, ents, fnd, q) ==
  [what : fnd \cap q.matches, from : {"found"}] \cup
  [what : FromHistory(k, ents, fnd) \cap q.matches, from : {"history"}]

(* The row that comes first: without a query what was found precedes the   *)
(* history (launch: the other way round); a score decides otherwise.       *)
First(k, ents, fnd, q) ==
  LET rows == Rows(k, ents, fnd, q)
      front == {r \in rows : r.from = IF k = "launch" THEN "history" ELSE "found"}
  IN IF rows = {} THEN {None} ELSE IF q.text = None /\ front # {} THEN front ELSE rows

(* _refresh_results: the list is filled anew and its first row highlighted *)
(* (attach has none highlighted).                                          *)
Refilled(k, ents, fnd, q) ==
  IF k = "attach" THEN light' = None ELSE light' \in First(k, ents, fnd, q)

-----------------------------------------------------------------------------
(* Scans *)

(* on_mount *)
Open(k) ==
  /\ kind = "none" /\ infer = None
  /\ kind' = k /\ manager' \in BOOLEAN
  /\ entries' \in IF k = "attach" THEN {{}} ELSE SUBSET Entries
  /\ latest' = 1 /\ scans' = {1} /\ loading' = TRUE
  /\ Refilled(k, entries', {}, NoQuery)
  /\ started' = None
  /\ UNCHANGED <<found, foundBy, raised, query, infer>>

(* Mutant: the scan before goes on. *)
KeepsScans(k) == scans

(* action_refresh: attach waits for the scan that runs, connect cancels    *)
(* it; launch has no refresh.                                              *)
ScansLeft(k) == IF k = "connect" THEN {} ELSE scans

Refresh ==
  /\ kind \in {"attach", "connect"}
  /\ kind = "attach" => ~loading
  /\ latest < MaxScans
  /\ latest' = latest + 1
  /\ scans' = ScansLeft(kind) \cup {latest + 1}
  /\ loading' = TRUE
  /\ IF kind = "connect" THEN Refilled(kind, entries, found, query) ELSE UNCHANGED light
  /\ UNCHANGED <<kind, manager, entries, found, query, started, infer, foundBy, raised>>

(* _load_processes, _discover, _discover_files, when the scan is over; one *)
(* that fails finds nothing, but the list of processes is not guarded.     *)
ScanEnds(s, result) ==
  /\ s \in scans
  /\ scans' = scans \ {s}
  /\ \/ /\ found' = result /\ foundBy' = s /\ loading' = FALSE
        /\ Refilled(kind, entries, result, query)
        /\ UNCHANGED raised
     \/ /\ kind = "attach"
        /\ raised' = TRUE
        /\ UNCHANGED <<found, foundBy, loading, light>>
  /\ UNCHANGED <<kind, manager, entries, latest, query, started, infer>>

-----------------------------------------------------------------------------
(* The user *)

Type(text) ==
  /\ kind # "none"
  /\ \E matches \in SUBSET Entries :
       /\ text \in Items => text \in matches
       /\ text = None => matches = Entries
       /\ query' = [text |-> text, matches |-> matches]
  /\ Refilled(kind, entries, found, query')
  /\ UNCHANGED <<kind, manager, entries, scanVars, started, infer>>

Highlight ==
  /\ kind \in {"connect", "launch"}
  /\ light' \in Rows(kind, entries, found, query)
  /\ UNCHANGED <<kind, manager, entries, scanVars, query, started, infer>>

(* _do_connect, _do_launch, _start_attach: the dialog closes; attach first *)
(* looks for an endpoint of a process that has none in its arguments.      *)
Starts(what) ==
  /\ kind' = "none" /\ Closed
  /\ UNCHANGED manager
  /\ IF ~manager THEN started' = None /\ infer' = None
     ELSE IF kind # "attach" THEN started' = [how |-> kind, what |-> what] /\ infer' = None
     ELSE \/ started' = [how |-> "connect", what |-> what] /\ infer' = None
          \/ started' = None /\ infer' = what

(* What does not parse is refused, and the dialog stays as it is: connect  *)
(* refuses what was typed, launch a row of the history too.                *)
Takes(what) == IF what \in Items THEN Starts(what) ELSE UNCHANGED vars

(* Enter in attach: the process of that pid, or the first one listed *)
SubmitAttach ==
  /\ kind = "attach"
  /\ LET rows == {r.what : r \in Rows(kind, entries, found, query)} IN
     /\ rows # {}
     /\ Takes(IF query.text \in rows THEN query.text
              ELSE CHOOSE x \in rows : \A y \in rows : x <= y)

(* Enter in connect and launch: the highlighted row, else what was typed   *)
Submit ==
  /\ kind \in {"connect", "launch"}
  /\ Takes(IF light # None THEN light.what ELSE query.text)

(* A row is selected in the list. *)
Select ==
  /\ kind # "none"
  /\ \E r \in Rows(kind, entries, found, query) : Takes(r.what)

Escape ==
  /\ kind # "none"
  /\ kind' = "none" /\ Closed
  /\ UNCHANGED <<manager, started, infer>>

(* _infer_debugpy_dap_endpoint: an adapter's or a listening endpoint of    *)
(* the process is connected to; otherwise it is attached to, safely where  *)
(* both sides can.                                                         *)
Inferred ==
  /\ infer # None
  /\ infer' = None
  /\ \E how \in {"connect", "safe_attach", "attach"} : started' = [how |-> how, what |-> infer]
  /\ UNCHANGED <<kind, manager, entries, scanVars, query, light>>

Next ==
  \/ \E k \in Kinds : Open(k)
  \/ Refresh \/ \E s \in scans, result \in SUBSET Items : ScanEnds(s, result)
  \/ \E t \in Texts : Type(t)
  \/ Highlight \/ SubmitAttach \/ Submit \/ Select \/ Escape \/ Inferred

Spec == Init /\ [][Next]_vars

-----------------------------------------------------------------------------
(* Properties *)

(* The types of the variables. *)
TypeOK ==
  /\ kind \in Kinds \cup {"none"}
  /\ entries \subseteq Entries /\ found \subseteq Items
  /\ scans \subseteq 1..MaxScans /\ latest \in 0..MaxScans
  /\ query \in [text : Texts, matches : SUBSET Entries]
  /\ light \in Row \cup {None} /\ infer \in Items \cup {None}
  /\ started \in {None} \cup
                 [how : {"connect", "launch", "safe_attach", "attach"}, what : Items]

(* "Scanning" is shown exactly while a scan runs (a scan of the processes  *)
(* that raises leaves it for good), what is listed afterwards is of the    *)
(* scan that was started last, and one that was replaced never answers.    *)
ScanIsShown ==
  kind # "none" =>
    /\ loading <=> (scans # {} \/ raised)
    /\ scans \subseteq {latest}
    /\ ~loading => foundBy = latest

(* The highlighted row is one of the list that the query and the results   *)
(* give, and no endpoint is listed twice.                                  *)
ListIsCurrent ==
  kind \in {"connect", "launch"} =>
    /\ light # None => light \in Rows(kind, entries, found, query)
    /\ light = None => Rows(kind, entries, found, query) = {}
    /\ kind = "connect" =>
         \A r, t \in Rows(kind, entries, found, query) : r.what = t.what => r = t
=============================================================================
