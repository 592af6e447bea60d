----------------------------- MODULE PanelsProofs -----------------------------
(***************************************************************************)
(* Proofs about Panels, for any values of the constants of its parts.      *)
(*                                                                         *)
(* A step of the whole is a step of one part or leaves the part as it is,  *)
(* so what each step of a part keeps is kept here.  The lemmas about the   *)
(* inspector, the task graph and the traceback come with their instances   *)
(* in Panels, and those of induction with the task graph's; the lemmas     *)
(* about the other parts are below.                                        *)
(***************************************************************************)
EXTENDS Panels, SequenceTheorems, FiniteSetTheorems, TLAPS

-----------------------------------------------------------------------------
(* The history file *)

(* A list that is read from the file or put in its place: torn only if a   *)
(* write was cut short.                                                    *)
ListInv(list) ==
  /\ list = Torn \/ list \subseteq Entries
  /\ short \/ (list # Torn /\ IsHistory(list))

(* What a process is about to write or to put in place is such a list. *)
ProcInv(p) ==
  \/ proc[p] = Idle
  \/ \E where \in {"write", "replace"}, list \in (SUBSET Entries) \cup {Torn} :
       proc[p] = [at |-> where, list |-> list] /\ ListInv(list)

HInv ==
  /\ clock \in 0..MaxTime /\ short \in BOOLEAN
  /\ ListInv(file)
  /\ proc = [p \in Procs |-> proc[p]]
  /\ \A p \in Procs : ProcInv(p)

-----------------------------------------------------------------------------
(* A part of a history is one. *)
LEMMA PartOfHistory ==
  ASSUME NEW S, IsHistory(S), NEW T \in SUBSET S
  PROVE  IsHistory(T) /\ Cardinality(T) <= Cardinality(S)
<1>1. IsFiniteSet(T) /\ Cardinality(T) <= Cardinality(S)
  BY FS_Subset DEF IsHistory
<1>2. Cardinality(T) \in Nat /\ Cardinality(S) \in Nat
  BY <1>1, FS_CardinalityType DEF IsHistory
<1> QED
  BY <1>1, <1>2, HistoryAssumption DEF IsHistory

(* push() makes a history of a history: the entry of the same command goes *)
(* before the new one comes, and with it at most max_entries are left.     *)
LEMMA PushedIsHistory ==
  ASSUME NEW list, IsHistory(list), NEW c \in Commands, NEW t \in 0..MaxTime,
         NEW rest \in Newest(Others(list, c), MaxEntries - 1)
  PROVE  IsHistory(rest \cup {[command |-> c, time |-> t]})
<1> DEFINE new == [command |-> c, time |-> t]
<1>1. rest \subseteq list /\ \A e \in rest : e.command # c
  BY DEF Newest, Others
<1>2. Cardinality(rest) <= MaxEntries - 1
  BY DEF Newest
<1>3. IsHistory(rest)
  BY <1>1, PartOfHistory
<1>4. new \notin rest
  BY <1>1
<1>5. IsFiniteSet(rest \cup {new}) /\ Cardinality(rest \cup {new}) = Cardinality(rest) + 1
  BY <1>3, <1>4, FS_AddElement DEF IsHistory
<1>6. Cardinality(rest) \in Nat
  BY <1>3, FS_CardinalityType DEF IsHistory
<1>7. Cardinality(rest \cup {new}) <= MaxEntries
  BY <1>2, <1>5, <1>6, HistoryAssumption
<1>8. rest \cup {new} \subseteq Entries
  BY <1>3 DEF IsHistory, Entries
<1>9. \A e, f \in rest \cup {new} : e.command = f.command => e = f
  BY <1>1, <1>3 DEF IsHistory
<1> QED
  BY <1>5, <1>7, <1>8, <1>9 DEF IsHistory

LEMMA HInit == Init => HInv
<1> SUFFICES ASSUME Init PROVE HInv
  OBVIOUS
<1>1. IsFiniteSet({}) /\ Cardinality({}) = 0
  BY FS_EmptySet
<1>2. {} # Torn
  BY HistoryAssumption DEF Entries
<1>3. IsHistory({})
  BY <1>1, HistoryAssumption DEF IsHistory
<1>4. ListInv(file)
  BY <1>2, <1>3 DEF Init, ListInv
<1>5. proc = [p \in Procs |-> proc[p]] /\ \A p \in Procs : proc[p] = Idle
  BY DEF Init
<1>6. clock \in 0..MaxTime
  <2>1. clock = 0
    BY DEF Init
  <2> QED
    BY <2>1, HistoryAssumption
<1>7. short \in BOOLEAN
  BY DEF Init
<1> QED
  BY <1>4, <1>5, <1>6, <1>7 DEF HInv, ProcInv

(* Every step keeps HInv. *)
LEMMA HStep == HInv /\ [Next]_vars => HInv'
<1> SUFFICES ASSUME HInv, [Next]_vars PROVE HInv'
  OBVIOUS
<1> USE DEF HInv
<1>1. CASE UNCHANGED vars
  BY <1>1 DEF vars, ListInv, ProcInv
<1>2. ASSUME NEW p \in Procs, NEW c \in Commands, Push(p, c) PROVE HInv'
  <2>1. PICK list \in Load : \E rest \in Newest(Others(list, c), MaxEntries - 1) :
          proc' = [proc EXCEPT ![p] =
                     [at |-> "write", list |-> rest \cup {[command |-> c, time |-> clock]}]]
    BY <1>2 DEF Push
  <2>2. PICK rest \in Newest(Others(list, c), MaxEntries - 1) :
          proc' = [proc EXCEPT ![p] =
                     [at |-> "write", list |-> rest \cup {[command |-> c, time |-> clock]}]]
    BY <2>1
  <2> DEFINE new == rest \cup {[command |-> c, time |-> clock]}
  <2>3. UNCHANGED <<file, clock, short>>
    BY <1>2 DEF Push
  <2>4. list \subseteq Entries
    BY DEF Load, Newest, ListInv
  <2>5. new \subseteq Entries
    BY <2>4 DEF Newest, Others, Entries
  <2>6. ASSUME ~short PROVE IsHistory(new)
    <3>1. IsHistory(file) /\ file # Torn
      BY <2>6 DEF ListInv
    <3>2. list \in SUBSET file
      BY <3>1 DEF Load, Newest
    <3>3. IsHistory(list)
      BY <3>1, <3>2, PartOfHistory
    <3> QED
      BY <3>3, PushedIsHistory
  <2>7. new # Torn
    BY <2>5, HistoryAssumption DEF Entries
  <2>8. ListInv(new)
    BY <2>5, <2>6, <2>7 DEF ListInv
  <2>9. ASSUME NEW q \in Procs PROVE ProcInv(q)'
    <3>1. CASE q = p
      BY <2>2, <2>3, <2>5, <2>8, <3>1 DEF ProcInv, ListInv
    <3>2. CASE q # p
      BY <2>2, <2>3, <3>2 DEF ProcInv, ListInv
    <3> QED
      BY <3>1, <3>2
  <2> QED
    BY <2>2, <2>3, <2>9 DEF ListInv
<1>3. ASSUME NEW p \in Procs, WriteTemp(p) PROVE HInv'
  <2>1. UNCHANGED <<file, clock>>
    BY <1>3 DEF WriteTemp
  <2>2. CASE short' = TRUE /\ proc' = [proc EXCEPT ![p] = [at |-> "replace", list |-> Torn]]
    BY <2>1, <2>2 DEF ListInv, ProcInv
  <2>3. CASE UNCHANGED short /\ proc' = [proc EXCEPT ![p].at = "replace"]
    <3>1. PICK list \in (SUBSET Entries) \cup {Torn} :
            proc[p] = [at |-> "write", list |-> list] /\ ListInv(list)
      BY <1>3 DEF WriteTemp, ProcInv, Idle
    <3>2. proc'[p] = [at |-> "replace", list |-> list]
      BY <2>3, <3>1
    <3>3. ASSUME NEW q \in Procs PROVE ProcInv(q)'
      <4>1. CASE q = p
        BY <2>3, <3>1, <3>2, <4>1 DEF ProcInv, ListInv
      <4>2. CASE q # p
        BY <2>3, <4>2 DEF ProcInv, ListInv
      <4> QED
        BY <4>1, <4>2
    <3> QED
      BY <2>1, <2>3, <3>3 DEF ListInv
  <2> QED
    BY <1>3, <2>2, <2>3 DEF WriteTemp
<1>4. ASSUME NEW p \in Procs, Replace(p) PROVE HInv'
  <2>1. PICK list \in (SUBSET Entries) \cup {Torn} :
          proc[p] = [at |-> "replace", list |-> list] /\ ListInv(list)
    BY <1>4 DEF Replace, ProcInv, Idle
  <2>2. file' = list /\ UNCHANGED <<clock, short>>
    BY <1>4, <2>1 DEF Replace
  <2>3. proc' = [proc EXCEPT ![p] = Idle]
    BY <1>4 DEF Replace
  <2>4. ListInv(file)'
    BY <2>1, <2>2 DEF ListInv
  <2>5. ASSUME NEW q \in Procs PROVE ProcInv(q)'
    BY <2>2, <2>3 DEF ProcInv, ListInv
  <2> QED
    BY <2>2, <2>3, <2>4, <2>5
<1>5. ASSUME NEW p \in Procs, Stops(p) PROVE HInv'
  BY <1>5 DEF Stops, ListInv, ProcInv
<1>6. ASSUME NEW t \in 0..MaxTime, Tick(t) PROVE HInv'
  BY <1>6 DEF Tick, ListInv, ProcInv
<1> QED
  BY <1>1, <1>2, <1>3, <1>4, <1>5, <1>6 DEF Next

-----------------------------------------------------------------------------
(* The prompt *)

(* Every task that waits is that of the last request. *)
TaskOf(t) == t = [at |-> t.at, id |-> asked, text |-> t.text, cursor |-> t.cursor]

CompletionInv == (\A t \in tasks : TaskOf(t)) /\ Prompt!ListIsLatest

(* What the two invariants look at *)
inView == <<items, answers, tasks, asked>>

LEMMA CompletionInit == Prompt!Init => CompletionInv
BY DEF Prompt!Init, CompletionInv, Prompt!ListIsLatest

LEMMA CompletionStep == CompletionInv /\ [Prompt!Next]_Prompt!vars => CompletionInv'
<1> SUFFICES ASSUME CompletionInv, [Prompt!Next]_Prompt!vars PROVE CompletionInv'
  OBVIOUS
<1> USE DEF CompletionInv, Prompt!ListIsLatest, TaskOf
<1>1. CASE UNCHANGED inView
  BY <1>1 DEF inView
<1>2. CASE Prompt!Hide /\ tasks' \in {tasks, {}} /\ UNCHANGED asked
  BY <1>2 DEF Prompt!Hide
<1>3. CASE Prompt!Request
  <2>1. tasks' = {[at |-> "targets", id |-> asked', text |-> text, cursor |-> cursor]}
    BY <1>3 DEF Prompt!Request, Prompt!Replaces
  <2>2. items' = <<>>
    BY <1>3 DEF Prompt!Request, Prompt!listVars
  <2> QED
    BY <2>1, <2>2
<1>4. CASE Prompt!Completed
  <2>1. PICK t \in tasks : /\ \E S : Prompt!Show(Prompt!SetToSeq(S), t.id)
                           /\ tasks' = tasks \ {t}
    BY <1>4 DEF Prompt!Completed
  <2>2. UNCHANGED asked
    BY <1>4 DEF Prompt!Completed
  <2>3. t.id = asked
    OBVIOUS
  <2> QED
    BY <2>1, <2>2, <2>3 DEF Prompt!Show
<1>5. CASE Prompt!NoCandidates
  <2>1. UNCHANGED asked
    BY <1>5 DEF Prompt!NoCandidates
  <2>2. PICK t \in tasks :
          \/ /\ tasks' = (tasks \ {t}) \cup {[t EXCEPT !.at = "variables"]}
             /\ UNCHANGED Prompt!listVars
          \/ tasks' = tasks \ {t} /\ Prompt!Hide
    BY <1>5 DEF Prompt!NoCandidates
  <2>3. TaskOf([t EXCEPT !.at = "variables"])
    OBVIOUS
  <2> QED
    BY <2>1, <2>2, <2>3 DEF Prompt!listVars, Prompt!Hide
<1>6. CASE Prompt!CompleteRaises
  BY <1>6 DEF Prompt!CompleteRaises, Prompt!listVars
<1>7. CASE \/ \E o \in {"console", "watch"} : Prompt!Open(o)
           \/ \E c \in Prompt!Texts : Prompt!MoveTo(c)
           \/ Prompt!Highlight \/ Prompt!Prev \/ Prompt!Forward
           \/ Prompt!Submit \/ Prompt!DeleteWatch
  BY <1>1, <1>7 DEF Prompt!Open, Prompt!MoveTo, Prompt!Highlight, Prompt!Prev,
                    Prompt!Forward, Prompt!Submit, Prompt!DeleteWatch, Prompt!listVars,
                    inView
<1>8. CASE \/ Prompt!Type \/ Prompt!Accept \/ Prompt!CloseList
           \/ Prompt!ConsoleSubmitted \/ Prompt!Cancel
  BY <1>2, <1>8 DEF Prompt!Type, Prompt!Accept, Prompt!CloseList,
                    Prompt!ConsoleSubmitted, Prompt!Cancel, Prompt!Clear
<1>9. CASE Prompt!WatchSubmitted
  BY <1>1, <1>2, <1>9 DEF Prompt!WatchSubmitted, Prompt!Clear, Prompt!listVars, inView
<1>10. CASE UNCHANGED Prompt!vars
  BY <1>1, <1>10 DEF Prompt!vars, Prompt!listVars, inView
<1> QED
  BY <1>3, <1>4, <1>5, <1>6, <1>7, <1>8, <1>9, <1>10 DEF Prompt!Next

-----------------------------------------------------------------------------
(* The dialogs *)

(* While a dialog is open, one scan runs and "Scanning" is shown, or none  *)
(* does and what it found is listed, or the only one has raised.           *)
ScanInv ==
  /\ kind = "none" => scans = {} /\ raised = FALSE /\ found = {} /\ query = Pick!NoQuery
  /\ kind # "none" => \/ scans = {latest} /\ loading = TRUE /\ raised = FALSE
                      \/ scans = {} /\ loading = FALSE /\ raised = FALSE /\ foundBy = latest
                      \/ scans = {} /\ loading = TRUE /\ raised = TRUE /\ kind = "attach"

(* The row that is highlighted is listed; there is none in an empty list.  *)
LightInv ==
  kind \in {"connect", "launch"} =>
    \/ light # None /\ light \in Pick!Rows(kind, entries, found, query)
    \/ light = None /\ Pick!Rows(kind, entries, found, query) = {}

PInv ==
  /\ ScanInv /\ LightInv
  /\ found \subseteq Items /\ query.matches \subseteq Pick!Entries /\ entries \subseteq Pick!Entries

-----------------------------------------------------------------------------
(* A list that is filled anew highlights one of its rows, if it has any. *)
LEMMA RefilledLights ==
  ASSUME Pick!PickersAssumption, NEW k \in {"connect", "launch"}, NEW ents \in SUBSET Pick!Entries,
         NEW fnd \in SUBSET Items, NEW q, Pick!Refilled(k, ents, fnd, q)
  PROVE  \/ light' # None /\ light' \in Pick!Rows(k, ents, fnd, q)
         \/ light' = None /\ Pick!Rows(k, ents, fnd, q) = {}
<1> DEFINE rows == Pick!Rows(k, ents, fnd, q)
<1>1. light' \in Pick!First(k, ents, fnd, q)
  BY DEF Pick!Refilled
<1>2. Pick!FromHistory(k, ents, fnd) \subseteq Pick!Entries
  BY DEF Pick!FromHistory
<1>3. rows \subseteq [what : Items \cup {Invalid}, from : {"found", "history"}]
  BY <1>2 DEF Pick!Rows, Pick!Entries
<1>4. None \notin rows
  BY <1>3 DEF Pick!PickersAssumption
<1>5. CASE rows = {}
  BY <1>1, <1>5 DEF Pick!First
<1>6. CASE rows # {}
  BY <1>1, <1>4, <1>6 DEF Pick!First
<1> QED
  BY <1>5, <1>6

(* No endpoint is listed both as found and from the history. *)
LEMMA ListedOnce ==
  ASSUME NEW ents, NEW fnd, NEW q,
         NEW r \in Pick!Rows("connect", ents, fnd, q), NEW t \in Pick!Rows("connect", ents, fnd, q),
         r.what = t.what
  PROVE  r = t
<1> DEFINE A == [what : fnd \cap q.matches, from : {"found"}]
           B == [what : Pick!FromHistory("connect", ents, fnd) \cap q.matches, from : {"history"}]
<1>1. Pick!FromHistory("connect", ents, fnd) \cap fnd = {}
  BY DEF Pick!FromHistory
<1>2. r \in A \cup B /\ t \in A \cup B
  BY DEF Pick!Rows
<1>3. (r \in A /\ t \in A) \/ (r \in B /\ t \in B)
  BY <1>1, <1>2
<1> QED
  BY <1>3

-----------------------------------------------------------------------------
LEMMA PInit == Pick!Init => PInv
BY DEF Pick!Init, PInv, ScanInv, LightInv, Pick!NoQuery, Pick!Entries

LEMMA TakesKeeps ==
  ASSUME PInv, NEW what, Pick!Takes(what)
  PROVE  PInv'
<1>1. CASE what \in Items
  <2>1. kind' = "none" /\ Pick!Closed
    BY <1>1 DEF Pick!Takes, Pick!Starts
  <2> QED
    BY <2>1 DEF Pick!Closed, PInv, ScanInv, LightInv, Pick!NoQuery
<1>2. CASE what \notin Items
  BY <1>2 DEF Pick!Takes, Pick!vars, Pick!scanVars, PInv, ScanInv, LightInv
<1> QED
  BY <1>1, <1>2

LEMMA PStep == Pick!PickersAssumption => (PInv /\ [Pick!Next]_Pick!vars => PInv')
<1> SUFFICES ASSUME Pick!PickersAssumption, PInv, [Pick!Next]_Pick!vars PROVE PInv'
  OBVIOUS
<1>1. CASE UNCHANGED Pick!vars
  BY <1>1 DEF Pick!vars, Pick!scanVars, PInv, ScanInv, LightInv
<1>2. ASSUME NEW k \in Pick!Kinds, Pick!Open(k) PROVE PInv'
  <2>1. kind' = k /\ k # "none" /\ scans' = {latest'} /\ loading' = TRUE
    BY <1>2 DEF Pick!Open, Pick!Kinds
  <2>2. found' = {} /\ query' = Pick!NoQuery /\ raised' = FALSE
    BY <1>2 DEF Pick!Open, PInv, ScanInv
  <2>3. Pick!Refilled(k, entries', {}, Pick!NoQuery)
    BY <1>2 DEF Pick!Open
  <2>5. entries' \subseteq Pick!Entries
    BY <1>2 DEF Pick!Open
  <2>4. LightInv'
    BY <2>1, <2>2, <2>3, <2>5, RefilledLights DEF LightInv
  <2> QED
    BY <2>1, <2>2, <2>4, <2>5 DEF PInv, ScanInv, Pick!NoQuery
<1>3. CASE Pick!Refresh
  <2>1. scans' = {latest'} /\ loading' = TRUE
    BY <1>3 DEF Pick!Refresh, Pick!ScansLeft, PInv, ScanInv
  <2>2. /\ UNCHANGED <<kind, entries, found, query, raised>>
        /\ kind \in {"attach", "connect"}
    BY <1>3 DEF Pick!Refresh
  <2>3. raised = FALSE
    BY <1>3 DEF Pick!Refresh, PInv, ScanInv
  <2>4. ScanInv'
    BY <2>1, <2>2, <2>3 DEF ScanInv
  <2>5. LightInv'
    <3>1. CASE kind = "connect"
      <4>1. Pick!Refilled(kind, entries, found, query)
        BY <1>3, <3>1 DEF Pick!Refresh
      <4> QED
        BY <2>2, <3>1, <4>1, RefilledLights DEF LightInv, PInv
    <3>2. CASE kind = "attach"
      BY <2>2, <3>2 DEF LightInv
    <3> QED
      BY <2>2, <3>1, <3>2
  <2> QED
    BY <2>2, <2>4, <2>5 DEF PInv
<1>4. ASSUME NEW s \in scans, NEW result \in SUBSET Items, Pick!ScanEnds(s, result) PROVE PInv'
  <2>1. kind # "none" /\ scans = {latest} /\ s = latest /\ raised = FALSE /\ loading = TRUE
    BY DEF PInv, ScanInv
  <2>2. UNCHANGED <<kind, entries, latest, query>> /\ scans' = {}
    BY <1>4, <2>1 DEF Pick!ScanEnds
  <2>3. CASE /\ found' = result /\ foundBy' = s /\ loading' = FALSE
             /\ Pick!Refilled(kind, entries, result, query)
             /\ UNCHANGED raised
    <3>1. ScanInv'
      BY <2>1, <2>2, <2>3 DEF ScanInv
    <3>2. LightInv'
      BY <2>2, <2>3, RefilledLights DEF LightInv, PInv
    <3> QED
      BY <2>2, <2>3, <3>1, <3>2 DEF PInv
  <2>4. CASE kind = "attach" /\ raised' = TRUE /\ UNCHANGED <<found, foundBy, loading, light>>
    BY <2>1, <2>2, <2>4 DEF PInv, ScanInv, LightInv
  <2> QED
    BY <1>4, <2>3, <2>4 DEF Pick!ScanEnds
<1>5. ASSUME NEW t \in Pick!Texts, Pick!Type(t) PROVE PInv'
  <2>1. UNCHANGED <<kind, entries, Pick!scanVars>> /\ Pick!Refilled(kind, entries, found, query')
    BY <1>5 DEF Pick!Type
  <2>2. query'.matches \subseteq Pick!Entries /\ kind # "none"
    BY <1>5 DEF Pick!Type
  <2>3. LightInv'
    BY <2>1, RefilledLights DEF LightInv, PInv, Pick!scanVars
  <2> QED
    BY <2>1, <2>2, <2>3 DEF PInv, ScanInv, Pick!scanVars
<1>6. CASE Pick!Highlight
  <2>1. light' \in Pick!Rows(kind, entries, found, query)
    BY <1>6 DEF Pick!Highlight
  <2>2. UNCHANGED <<kind, entries, Pick!scanVars, query>> /\ kind \in {"connect", "launch"}
    BY <1>6 DEF Pick!Highlight
  <2>3. light' # None
    <3>1. Pick!FromHistory(kind, entries, found) \subseteq Pick!Entries
      BY <2>2 DEF Pick!FromHistory, PInv
    <3>2. light' \in [what : Items \cup {Invalid}, from : {"found", "history"}]
      BY <2>1, <3>1 DEF Pick!Rows, Pick!Entries, PInv
    <3> QED
      BY <3>2 DEF Pick!PickersAssumption
  <2> QED
    BY <2>1, <2>2, <2>3 DEF PInv, ScanInv, LightInv, Pick!scanVars
<1>7. CASE Pick!SubmitAttach
  BY <1>7, TakesKeeps DEF Pick!SubmitAttach
<1>8. CASE Pick!Submit
  BY <1>8, TakesKeeps DEF Pick!Submit
<1>9. CASE Pick!Select
  BY <1>9, TakesKeeps DEF Pick!Select
<1>10. CASE Pick!Escape
  BY <1>10 DEF Pick!Escape, Pick!Closed, PInv, ScanInv, LightInv, Pick!NoQuery
<1>11. CASE Pick!Inferred
  BY <1>11 DEF Pick!Inferred, Pick!scanVars, PInv, ScanInv, LightInv
<1> QED
  BY <1>1, <1>2, <1>3, <1>4, <1>5, <1>6, <1>7, <1>8, <1>9, <1>10, <1>11 DEF Pick!Next

LEMMA PCurrent ==
  ASSUME Pick!PickersAssumption, PInv
  PROVE  Pick!ListIsCurrent
<1>1. kind = "connect" =>
        \A r, t \in Pick!Rows(kind, entries, found, query) : r.what = t.what => r = t
  BY ListedOnce DEF PInv
<1> QED
  BY <1>1 DEF PInv, LightInv, Pick!ListIsCurrent

-----------------------------------------------------------------------------
(* The source view *)

(* An editor, whatever its fields hold *)
IsEditor(e) == e = [f \in {"path", "row", "col"} |-> e[f]]

(* The cursor of e stands for the location l. *)
StandsFor(e, l) ==
  \/ l.line = e.row + 1 /\ l.col = e.col + 1
  \/ l.line = e.row + 1 /\ l.col > Width + 1 /\ e.col = Width
  \/ l.line > e.path /\ e.row = e.path - 1 /\ e.col = 0

(* A location that the debuggee or the user gives *)
IsLocation(l) ==
  l.path # None => l.path \in Files /\ l.line \in Nat \ {0} /\ l.col \in Nat \ {0}

(* The panel knows the location that the store has, and while no message   *)
(* is on its way the cursor stands for it.                                 *)
SVInv ==
  /\ moved \in Nat
  /\ IsEditor(editor)
  /\ loc = [path |-> loc.path, line |-> loc.line, col |-> loc.col]
  /\ known.path = editor.path
  /\ editor.path = None => IsLocation(loc)
  /\ editor.path # None => /\ editor.path \in Files
                           /\ known = loc
                           /\ moved = 0 => StandsFor(editor, loc)

-----------------------------------------------------------------------------
(* The cursor, put where a location says, stands for it. *)
LEMMA PlacedStands ==
  ASSUME Source!SourceAssumption, NEW e, IsEditor(e),
         e.path \in Files, NEW line \in Nat \ {0}, NEW col \in Nat \ {0}, NEW path
  PROVE  LET t == Source!Target(e.path, line, col)
             to == Source!Placed(e, t.row, t.col)
         IN /\ IsEditor(to) /\ to.path = e.path
            /\ StandsFor(to, [path |-> path, line |-> line, col |-> col])
<1> DEFINE t == Source!Target(e.path, line, col)
           to == Source!Placed(e, t.row, t.col)
<1>1. e.path \in Nat \ {0} /\ Width \in Nat
  <2>1. Files \subseteq Nat \ {0} /\ Width \in Nat
    BY DEF Source!SourceAssumption
  <2> QED
    BY <2>1
<1>2. /\ IsEditor(to) /\ to.path = e.path
      /\ to.row = Source!MinOf(t.row, e.path - 1) /\ to.col = Source!MinOf(t.col, Width)
  BY DEF Source!Placed, IsEditor
<1>3. t.row = line - 1 /\ t.col = IF line <= e.path THEN Source!MinOf(col - 1, Width) ELSE 0
  BY DEF Source!Target
<1>4. CASE line <= e.path
  <2>1. Source!MinOf(t.row, e.path - 1) = line - 1
    BY <1>1, <1>3, <1>4 DEF Source!MinOf
  <2>2. Source!MinOf(t.col, Width) = IF col - 1 < Width THEN col - 1 ELSE Width
    BY <1>1, <1>3, <1>4 DEF Source!MinOf
  <2> QED
    BY <1>1, <1>2, <2>1, <2>2 DEF StandsFor
<1>5. CASE line > e.path
  <2>1. Source!MinOf(t.row, e.path - 1) = e.path - 1
    BY <1>1, <1>3, <1>5 DEF Source!MinOf
  <2>2. Source!MinOf(t.col, Width) = 0
    BY <1>1, <1>3, <1>5 DEF Source!MinOf
  <2> QED
    BY <1>1, <1>2, <1>5, <2>1, <2>2 DEF StandsFor
<1> QED
  BY <1>1, <1>2, <1>4, <1>5

(* A change of the store to a location *)
LEMMA UpdateKeeps ==
  ASSUME Source!SourceAssumption, SVInv, NEW path, NEW line, NEW col,
         Source!Update(path, line, col),
         \/ IsLocation([path |-> path, line |-> line, col |-> col])
         \/ editor.path # None /\ loc = [path |-> path, line |-> line, col |-> col]
  PROVE  SVInv'
<1> DEFINE l == [path |-> path, line |-> line, col |-> col]
<1>1. PICK readable \in BOOLEAN : Source!Shows(path, line, col, readable)
  BY DEF Source!Update
<1>2. loc' = l
  BY DEF Source!Update
<1>3. \A e, f : Source!Differs(e, f) \in Nat
  BY DEF Source!Differs
<1>4. CASE path = None \/ (path # known.path /\ ~readable)
  <2>1. /\ editor' = Source!NoFile /\ known' = Source!Unknown
        /\ moved' = moved + Source!Differs(editor, Source!NoFile)
    BY <1>1, <1>4 DEF Source!Shows
  <2>2. moved' \in Nat
    BY <1>3, <2>1 DEF SVInv
  <2>3. IsLocation(l)
    BY <1>4 DEF SVInv, IsLocation
  <2> QED
    BY <1>2, <2>1, <2>2, <2>3 DEF SVInv, Source!NoFile, Source!Unknown, IsEditor
<1>5. CASE ~(path = None \/ (path # known.path /\ ~readable))
  <2> DEFINE news  == path # known.path
             was    == IF news THEN [path |-> path, row |-> 0, col |-> 0] ELSE editor
             moves == news \/ Source!IsNews(line, col)
             t     == Source!Target(path, line, col)
             to    == IF moves THEN Source!Placed(was, t.row, t.col) ELSE was
  <2>1. /\ editor' = to
        /\ known' = [path |-> path,
                     line |-> IF moves THEN line ELSE known.line,
                     col  |-> IF moves THEN col ELSE known.col]
        /\ moved' = moved + Source!Differs(editor, was) + Source!Differs(was, to)
    BY <1>1, <1>5 DEF Source!Shows
  <2>2. moved' \in Nat /\ (moved' = 0 => moved = 0)
    BY <1>3, <2>1 DEF SVInv
  <2>3. known' = l
    BY <2>1 DEF Source!IsNews
  <2>4. IsEditor(was) /\ was.path = path
    BY DEF SVInv, IsEditor
  <2>5. path # None
    BY <1>5
  <2>6. CASE moves
    <3>1. IsLocation(l)
      <4>1. CASE editor.path # None /\ loc = l
        BY <2>6, <4>1 DEF SVInv, Source!IsNews
      <4> QED
        BY <4>1
    <3>2. path \in Files /\ line \in Nat \ {0} /\ col \in Nat \ {0}
      BY <2>5, <3>1 DEF IsLocation
    <3>3. /\ IsEditor(to) /\ to.path = path
          /\ StandsFor(to, l)
      BY <2>4, <2>6, <3>2, PlacedStands
    <3>4. editor' = to
      BY <2>1
    <3>5. IsEditor(editor') /\ editor'.path = path /\ StandsFor(editor', l)
      BY <3>3, <3>4
    <3>6. IsEditor(editor)' /\ StandsFor(editor, loc)'
      BY <1>2, <3>5 DEF IsEditor, StandsFor
    <3>7. loc' = [path |-> loc'.path, line |-> loc'.line, col |-> loc'.col] /\ known' = loc'
      BY <1>2, <2>3
    <3>8. known'.path = editor'.path
      BY <2>3, <3>5
    <3> HIDE DEF to, t, was, moves, news
    <3> QED
      BY <2>2, <2>5, <3>2, <3>5, <3>6, <3>7, <3>8 DEF SVInv
  <2>7. CASE ~moves
    <3>1. path = editor.path
      BY <2>7 DEF SVInv
    <3>2. editor' = editor
      BY <2>1, <2>7
    <3>3. known.line = line /\ known.col = col
      BY <2>7 DEF Source!IsNews
    <3>4. known = loc
      BY <2>5, <3>1 DEF SVInv
    <3>5. loc = l
      BY <3>1, <3>3, <3>4 DEF SVInv
    <3>6. loc' = loc /\ known' = known
      BY <1>2, <2>3, <3>4, <3>5
    <3> HIDE DEF to, t, was, moves, news
    <3> QED
      BY <2>2, <2>5, <3>1, <3>2, <3>6 DEF SVInv, StandsFor, IsEditor
  <2> QED
    BY <2>6, <2>7
<1> QED
  BY <1>4, <1>5

(* The cursor moves, or is left where it is. *)
LEMMA MoveKeeps ==
  ASSUME SVInv, NEW down, NEW col, Source!MoveTo(down, col),
         editor.path # None, UNCHANGED <<loc, known>>
  PROVE  SVInv'
<1> DEFINE to == Source!Placed(editor, down, col)
<1>1. editor' = to /\ moved' = moved + Source!Differs(editor, to)
  BY DEF Source!MoveTo
<1>2. IsEditor(to) /\ to.path = editor.path
  BY DEF Source!Placed, SVInv, IsEditor
<1>3. Source!Differs(editor, to) \in Nat
  BY DEF Source!Differs
<1>4. moved' \in Nat /\ (moved' = 0 => moved = 0 /\ Source!Differs(editor, to) = 0)
  BY <1>1, <1>3 DEF SVInv
<1>5. Source!Differs(editor, to) = 0 => to = editor
  BY <1>2 DEF Source!Differs, SVInv, IsEditor
<1> QED
  BY <1>1, <1>2, <1>4, <1>5 DEF SVInv

-----------------------------------------------------------------------------
LEMMA SVInit == Source!Init => SVInv
BY DEF Source!Init, SVInv, Source!NoFile, Source!Unknown, IsLocation, IsEditor

LEMMA SVStep == ASSUME Source!SourceAssumption, SVInv, [Source!Next]_Source!vars PROVE SVInv'
<1>1. CASE UNCHANGED <<loc, editor, known, moved>>
  BY <1>1 DEF SVInv, IsLocation, StandsFor
<1>2. ASSUME NEW f \in Files, NEW l \in Source!Lines, Source!Located(f, l) PROVE SVInv'
  BY <1>2, UpdateKeeps DEF Source!Located, IsLocation, Source!Lines, Source!SourceAssumption
<1>3. CASE Source!Unlocated
  BY <1>3, UpdateKeeps DEF Source!Unlocated, IsLocation
<1>4. CASE Source!Notified
  <2>1. Source!Update(loc.path, loc.line, loc.col)
    BY <1>4 DEF Source!Notified
  <2>2. loc = [path |-> loc.path, line |-> loc.line, col |-> loc.col]
    BY DEF SVInv
  <2> QED
    BY <2>1, <2>2, UpdateKeeps DEF SVInv
<1>5. ASSUME NEW l \in Source!Lines, NEW c \in Source!Lines, Source!Goto(l, c) PROVE SVInv'
  <2>1. loc.path \in Files
    BY <1>5 DEF Source!Goto, SVInv, IsLocation
  <2> QED
    BY <1>5, <2>1, UpdateKeeps DEF Source!Goto, IsLocation, Source!Lines, Source!SourceAssumption
<1>6. ASSUME NEW l \in Source!Lines, Source!GutterClick(l) PROVE SVInv'
  <2>1. editor.path \in Files
    BY <1>6 DEF Source!GutterClick, SVInv
  <2> QED
    BY <1>6, <2>1, UpdateKeeps
       DEF Source!GutterClick, IsLocation, Source!Lines, Source!SourceAssumption
<1>7. ASSUME NEW r, NEW c, Source!MoveCursor(r, c) PROVE SVInv'
  BY <1>7, MoveKeeps DEF Source!MoveCursor
<1>8. CASE Source!CursorMoved
  <2>1. moved' \in Nat
    BY <1>8 DEF Source!CursorMoved, SVInv
  <2>2. CASE editor.path = None
    BY <1>8, <2>1, <2>2 DEF Source!CursorMoved, SVInv, IsLocation
  <2>3. CASE editor.path # None
    <3>1. loc' = Source!Here /\ known' = Source!Here /\ editor' = editor
      BY <1>8, <2>3 DEF Source!CursorMoved
    <3> QED
      BY <2>1, <2>3, <3>1 DEF SVInv, Source!Here, StandsFor
  <2> QED
    BY <2>2, <2>3
<1>9. CASE Source!Debounced
  <2>1. CASE open /\ value = search /\ Source!Searches(value)
    <3>1. editor.path # None
      BY <2>1 DEF Source!Searches
    <3>2. UNCHANGED <<loc, known>>
      BY <1>9 DEF Source!Debounced
    <3>3. PICK m : Source!Find(m)
      BY <1>9, <2>1 DEF Source!Debounced
    <3> QED
      BY <3>1, <3>2, <3>3, MoveKeeps DEF Source!Find
  <2>2. CASE ~(open /\ value = search /\ Source!Searches(value))
    BY <1>1, <1>9, <2>2 DEF Source!Debounced
  <2> QED
    BY <2>1, <2>2
<1>10. CASE Source!FindAgain
  BY <1>10, MoveKeeps DEF Source!FindAgain, Source!Find, Source!Searches
<1>11. CASE \/ Source!OpenFind \/ Source!CloseFind
            \/ \E q \in Source!Queries \cup {0} : Source!TypeQuery(q)
            \/ Source!QueryChanged \/ UNCHANGED Source!vars
  BY <1>1, <1>11
     DEF Source!OpenFind, Source!CloseFind, Source!TypeQuery, Source!QueryChanged, Source!vars
<1> QED
  BY <1>2, <1>3, <1>4, <1>5, <1>6, <1>7, <1>8, <1>9, <1>10, <1>11 DEF Source!Next

-----------------------------------------------------------------------------
(* Going around *)

(* G leads from everywhere in the set to everywhere: no part is closed.    *)
GoesAround(G, all) == \A C \in SUBSET all : C # {} /\ (\A c \in C : G[c] \in C) => C = all

(* K steps of G from start, one for each element of all *)
Rounds(all, start, G, K, f) ==
  /\ IsFiniteSet(all) /\ K = Cardinality(all)
  /\ G \in [all \cup {start} -> all] /\ GoesAround(G, all)
  /\ Graph!IsSteps(f, K, start, G)

PassesAll(all, K, f) == \A m \in all : \E n \in 1..K : f[n] = m

(* A function that goes around a finite set has passed every element after *)
(* as many steps as there are, wherever it starts.                         *)
LEMMA StepsGoAround ==
  ASSUME NEW all, NEW start, NEW G, NEW K, NEW f, Rounds(all, start, G, K, f)
  PROVE  PassesAll(all, K, f)
<1> USE DEF Graph!IsSteps, GoesAround, Rounds, PassesAll
<1> DEFINE N == Cardinality(all)
<1>1. N \in Nat
  BY FS_CardinalityType
<1> SUFFICES ASSUME NEW m \in all, \A n \in 1..N : f[n] # m PROVE FALSE
  OBVIOUS
<1>2. \A n \in 0..N : f[n] \in all \cup {start}
  <2> DEFINE T == {n \in Nat : n <= N => f[n] \in all \cup {start}}
  <2>1. 0 \in T
    BY <1>1
  <2>2. ASSUME NEW n \in Nat, n \in T PROVE n + 1 \in T
    BY <1>1, <2>2
  <2>3. \A n \in Nat : n \in T
    <3> HIDE DEF T
    <3> QED
      BY <2>1, <2>2, Graph!InductionOnNaturals
  <2> QED
    BY <1>1, <2>3
<1>3. \A n \in 1..N : f[n] = G[f[n - 1]] /\ f[n] \in all \ {m}
  <2>1. \A n \in 1..N : n \in 0..N /\ n # 0 /\ n - 1 \in 0..N
    BY <1>1
  <2>2. \A n \in 1..N : f[n] = G[f[n - 1]]
    BY <2>1
  <2> QED
    BY <1>2, <2>1, <2>2
<1> DEFINE g == [n \in 1..N |-> f[n]]
<1>4. \E x, y \in 1..N : x # y /\ g[x] = g[y]
  <2>1. IsFiniteSet(1..N) /\ Cardinality(1..N) = N
    <3> HIDE DEF N
    <3>1. 1 \in Int /\ N \in Int /\ (IF 1 > N THEN 0 ELSE (N - 1) + 1) = N
      BY <1>1
    <3> QED
      BY <3>1, FS_Interval
  <2>2. IsFiniteSet(all \ {m}) /\ Cardinality(all \ {m}) = N - 1
    BY FS_RemoveElement
  <2>3. Cardinality(all \ {m}) < Cardinality(1..N)
    BY <1>1, <2>1, <2>2
  <2>4. g \in [1..N -> all \ {m}]
    BY <1>3
  <2> HIDE DEF g, N
  <2> QED
    BY <2>1, <2>2, <2>3, <2>4, FS_PigeonHole
<1>5. PICK x \in 1..N, y \in 1..N : x < y /\ f[x] = f[y]
  <2>1. PICK x \in 1..N, y \in 1..N : x # y /\ f[x] = f[y]
    BY <1>4
  <2>2. x < y \/ y < x
    BY <1>1, <2>1
  <2> QED
    BY <2>1, <2>2
<1> DEFINE C == {f[n] : n \in x..(y - 1)}
<1>6. C \subseteq all /\ m \notin C /\ C # {}
  <2>1. x \in x..(y - 1) /\ \A n \in x..(y - 1) : n \in 1..N
    BY <1>1, <1>5
  <2>2. \A n \in x..(y - 1) : f[n] \in all /\ f[n] # m
    BY <1>3, <2>1
  <2>3. C \subseteq all
    BY ONLY <2>2
  <2>4. m \notin C
    BY ONLY <2>2
  <2>5. f[x] \in C
    BY ONLY <2>1
  <2> QED
    BY <2>3, <2>4, <2>5
<1>7. ASSUME NEW n \in x..(y - 1) PROVE G[f[n]] \in C
  <2>1. n + 1 \in 1..N /\ G[f[n]] = f[n + 1]
    BY <1>1, <1>3, <1>5
  <2>2. CASE n + 1 = y
    BY <1>5, <2>1, <2>2
  <2>3. CASE n + 1 # y
    <3>1. n + 1 \in x..(y - 1)
      BY <1>1, <1>5, <2>3
    <3> QED
      BY <2>1, <3>1
  <2> QED
    BY <2>2, <2>3
<1>8. \A c \in C : G[c] \in C
  BY <1>7
<1> QED
  <2> HIDE DEF C
  <2> QED
    BY <1>6, <1>8

-----------------------------------------------------------------------------
(* Searching *)

LEMMA MinIsLeast ==
  ASSUME NEW S, S \subseteq Nat, S # {}
  PROVE  Source!Min(S) \in S /\ \A m \in S : Source!Min(S) <= m
BY Graph!LeastOfNaturals DEF Source!Min

LEMMA MaxIsGreatest ==
  ASSUME NEW S, S \subseteq Nat, S # {}, NEW bound \in Nat, \A m \in S : m <= bound
  PROVE  Source!Max(S) \in S /\ \A m \in S : m <= Source!Max(S)
<1>1. PICK x \in S : \A m \in S : m <= x
  BY Graph!GreatestOfNaturals
<1>2. \A m \in S : x >= m
  BY <1>1
<1>3. Source!Max(S) \in S /\ \A m \in S : Source!Max(S) >= m
  BY <1>2 DEF Source!Max
<1> QED
  BY <1>3

(* A match begins and ends inside the text. *)
LEMMA MatchesInText ==
  ASSUME Source!SourceAssumption, NEW f \in Files, NEW q \in Source!Queries
  PROVE  /\ Source!Length(f) \in Nat /\ Source!Matches(f, q) \subseteq Nat
         /\ \A m \in Source!Matches(f, q) : m + q <= Source!Length(f)
         /\ IsFiniteSet(Source!Matches(f, q))
<1>1. f \in Nat \ {0} /\ Width \in Nat /\ q \in Nat /\ q >= 1
  BY DEF Source!SourceAssumption, Source!Queries
<1> DEFINE w == Width + 1
<1>2. f * w \in Nat /\ f * w >= w /\ Source!Length(f) = f * w - 1
  BY <1>1 DEF Source!Length
<1>3. ASSUME NEW r \in 0..(f - 1), NEW c \in 0..Width, c + q <= Width
      PROVE  Source!Index(r, c) \in Nat /\ Source!Index(r, c) + q <= Source!Length(f)
  <2>1. r * w \in Nat /\ r * w <= (f - 1) * w
    BY <1>1
  <2>2. (f - 1) * w = f * w - w
    BY <1>1
  <2> HIDE DEF w
  <2>3. Source!Index(r, c) = r * w + c /\ w \in Nat /\ w = Width + 1
    BY <1>1 DEF Source!Index, w
  <2> QED
    BY <1>1, <1>2, <1>3, <2>1, <2>2, <2>3
<1>4. \A m \in Source!Matches(f, q) : m \in Nat /\ m + q <= Source!Length(f)
  BY <1>3 DEF Source!Matches
<1>5. Source!Length(f) \in Nat
  BY <1>1, <1>2
<1>6. IsFiniteSet(Source!Matches(f, q))
  <2> DEFINE S == Source!Matches(f, q)
  <2>1. S \in SUBSET Nat /\ \A m \in S : m <= Source!Length(f)
    BY <1>1, <1>4, <1>5
  <2> HIDE DEF S
  <2>2. IsFiniteSet(S)
    BY <1>5, <2>1, FS_BoundedSetOfNaturals
  <2> QED
    BY <2>2 DEF S
<1> QED
  BY <1>4, <1>5, <1>6

(* What is found is a match, and from a match it is the next one, or the   *)
(* first after the last.                                                   *)
LEMMA NextIsFound ==
  ASSUME Source!SourceAssumption, NEW f \in Files, NEW q \in Source!Queries,
         Source!Matches(f, q) # {}
  PROVE  /\ \A i : Source!FindNext(f, q, i) \in Source!Matches(f, q)
         /\ \A i \in Source!Matches(f, q) :
              LET after == {m \in Source!Matches(f, q) : m > i}
                  hits == Source!FindNext(f, q, i)
              IN /\ after # {} => hits \in after /\ \A m \in after : hits <= m
                 /\ after = {} => \A m \in Source!Matches(f, q) : hits <= m
<1> DEFINE all == Source!Matches(f, q)
           After(i) == {m \in all : m >= Source!MinOf(i + 1, Source!Length(f))}
<1>1. all \subseteq Nat /\ all # {} /\ \A m \in all : m + q <= Source!Length(f)
  BY MatchesInText
<1>2. \A i : Source!FindNext(f, q, i) =
         IF After(i) # {} THEN Source!Min(After(i)) ELSE Source!Min(all)
  BY DEF Source!FindNext
<1> HIDE DEF all
<1>3. Source!Min(all) \in all /\ \A m \in all : Source!Min(all) <= m
  BY <1>1, MinIsLeast
<1>4. \A i : After(i) \subseteq all
  OBVIOUS
<1>5. ASSUME NEW i, After(i) # {}
      PROVE  Source!Min(After(i)) \in After(i) /\ \A m \in After(i) : Source!Min(After(i)) <= m
  <2> DEFINE S == After(i)
  <2>1. S \subseteq Nat /\ S # {}
    BY <1>1, <1>5
  <2> HIDE DEF S
  <2>2. Source!Min(S) \in S /\ \A m \in S : Source!Min(S) <= m
    BY <2>1, MinIsLeast
  <2> QED
    BY <2>2 DEF S
<1>6. ASSUME NEW i \in all PROVE After(i) = {m \in all : m > i}
  <2>1. i \in Nat /\ i + 1 <= Source!Length(f) /\ Source!Length(f) \in Nat
    BY <1>1, MatchesInText DEF Source!Queries, Source!SourceAssumption
  <2>2. Source!MinOf(i + 1, Source!Length(f)) = i + 1
    BY <2>1 DEF Source!MinOf
  <2>3. \A m \in all : m >= i + 1 <=> m > i
    BY <1>1, <2>1
  <2> QED
    BY <2>2, <2>3
<1> HIDE DEF After
<1>7. \A i : Source!FindNext(f, q, i) \in all
  BY <1>2, <1>3, <1>4, <1>5
<1>8. \A i \in all :
        /\ After(i) # {} => /\ Source!FindNext(f, q, i) \in After(i)
                            /\ \A m \in After(i) : Source!FindNext(f, q, i) <= m
        /\ After(i) = {} => \A m \in all : Source!FindNext(f, q, i) <= m
  BY <1>2, <1>3, <1>5
<1> QED
  BY <1>6, <1>7, <1>8 DEF all

(* And back: the one before, or the last before the first, for matches     *)
(* that do not overlap.                                                    *)
LEMMA PrevIsFound ==
  ASSUME Source!SourceAssumption, NEW f \in Files, NEW q \in Source!Queries,
         Source!Matches(f, q) # {},
         \A m, n \in Source!Matches(f, q) : m < n => m + q <= n
  PROVE  /\ \A i : Source!FindPrev(f, q, i) \in Source!Matches(f, q)
         /\ \A i \in Source!Matches(f, q) :
              LET before == {m \in Source!Matches(f, q) : m < i}
                  hits  == Source!FindPrev(f, q, i)
              IN /\ before # {} => hits \in before /\ \A m \in before : m <= hits
                 /\ before = {} => \A m \in Source!Matches(f, q) : m <= hits
<1> DEFINE all == Source!Matches(f, q)
           Before(i) == {m \in all : m + q <= Source!MinOf(i, Source!Length(f))}
<1>1. /\ all \subseteq Nat /\ all # {} /\ \A m \in all : m + q <= Source!Length(f)
      /\ Source!Length(f) \in Nat
  BY MatchesInText
<1>2. q \in Nat /\ q >= 1
  BY DEF Source!Queries, Source!SourceAssumption
<1>3. \A i : Source!FindPrev(f, q, i) =
         IF Before(i) # {} THEN Source!Max(Before(i)) ELSE Source!Max(all)
  BY DEF Source!FindPrev
<1>4. \A m, n \in all : m < n => m + q <= n
  OBVIOUS
<1> HIDE DEF all
<1>5. \A m \in all : m <= Source!Length(f)
  BY <1>1, <1>2
<1>6. Source!Max(all) \in all /\ \A m \in all : m <= Source!Max(all)
  BY <1>1, <1>5, MaxIsGreatest
<1>7. \A i : Before(i) \subseteq all
  OBVIOUS
<1>8. ASSUME NEW i, Before(i) # {}
      PROVE  Source!Max(Before(i)) \in Before(i) /\ \A m \in Before(i) : m <= Source!Max(Before(i))
  <2> DEFINE S == Before(i)
  <2>1. S \subseteq Nat /\ S # {} /\ \A m \in S : m <= Source!Length(f)
    BY <1>1, <1>5, <1>8
  <2> HIDE DEF S
  <2>2. Source!Max(S) \in S /\ \A m \in S : m <= Source!Max(S)
    BY <1>1, <2>1, MaxIsGreatest
  <2> QED
    BY <2>2 DEF S
<1>9. ASSUME NEW i \in all PROVE Before(i) = {m \in all : m < i}
  <2>1. i \in Nat /\ i <= Source!Length(f)
    BY <1>1, <1>5
  <2>2. Source!MinOf(i, Source!Length(f)) = i
    BY <1>1, <2>1 DEF Source!MinOf
  <2>3. \A m \in all : m + q <= i <=> m < i
    BY <1>1, <1>2, <1>4, <2>1
  <2> QED
    BY <2>2, <2>3
<1> HIDE DEF Before
<1>10. \A i : Source!FindPrev(f, q, i) \in all
  BY <1>3, <1>6, <1>7, <1>8
<1>11. \A i \in all :
         /\ Before(i) # {} => /\ Source!FindPrev(f, q, i) \in Before(i)
                              /\ \A m \in Before(i) : m <= Source!FindPrev(f, q, i)
         /\ Before(i) = {} => \A m \in all : m <= Source!FindPrev(f, q, i)
  BY <1>3, <1>6, <1>8
<1> QED
  BY <1>9, <1>10, <1>11 DEF all
LEMMA NextGoesAround ==
  ASSUME Source!SourceAssumption, NEW f \in Files, NEW q \in Source!Queries,
         Source!Matches(f, q) # {},
         NEW C \in SUBSET Source!Matches(f, q), C # {}, \A c \in C : Source!FindNext(f, q, c) \in C
  PROVE  C = Source!Matches(f, q)
<1> DEFINE all == Source!Matches(f, q)
<1>1. all \subseteq Nat /\ \A m \in all : m + q <= Source!Length(f) /\ Source!Length(f) \in Nat
  BY MatchesInText
<1>2. \A m \in all : m <= Source!Length(f)
  BY <1>1 DEF Source!Queries, Source!SourceAssumption
<1> SUFFICES ASSUME NEW m \in all, m \notin C PROVE FALSE
  OBVIOUS
<1>3. \A i \in all :
        LET after == {n \in all : n > i}
            hits == Source!FindNext(f, q, i)
        IN /\ after # {} => hits \in after /\ \A n \in after : hits <= n
           /\ after = {} => \A n \in all : hits <= n
  BY NextIsFound
<1> HIDE DEF all
<1> DEFINE S == {c \in C : c < m}
<1>4. C \subseteq all
  BY DEF all
(* An element beyond m leads to one before it. *)
<1>5. S # {}
  <2> SUFFICES ASSUME S = {} PROVE FALSE
    OBVIOUS
  <2>1. PICK c \in C : \A d \in C : d <= c
    BY <1>1, <1>2, <1>4, Graph!GreatestOfNaturals
  <2> DEFINE hits == Source!FindNext(f, q, c)
             after == {n \in all : n > c}
  <2>2. hits \in C /\ hits \in Nat /\ c \in Nat /\ m \in Nat /\ c \in all
    BY <1>1, <1>4
  <2>3. hits <= c /\ ~(hits < m)
    BY <2>1, <2>2
  <2>4. CASE after # {}
    <3>1. hits > c
      BY <1>3, <2>2, <2>4
    <3> QED
      BY <2>2, <2>3, <3>1
  <2>5. CASE after = {}
    <3>1. hits <= m
      BY <1>3, <2>2, <2>5
    <3>2. hits # m
      BY <2>2
    <3> QED
      BY <2>2, <2>3, <3>1, <3>2
  <2> QED
    BY <2>4, <2>5
(* And the last one before m leads to one in between. *)
<1>6. PICK c \in S : \A d \in S : d <= c
  <2>1. S \subseteq Nat /\ \A d \in S : d <= Source!Length(f)
    BY <1>1, <1>2, <1>4
  <2>2. Source!Length(f) \in Nat
    BY <1>1
  <2> HIDE DEF S
  <2> QED
    BY <1>5, <2>1, <2>2, Graph!GreatestOfNaturals
<1> DEFINE hits == Source!FindNext(f, q, c)
           after == {n \in all : n > c}
<1>7. c \in all /\ m \in after /\ hits \in C /\ c \in Nat /\ m \in Nat
  BY <1>1, <1>4
<1>8. hits > c /\ hits <= m /\ hits \in Nat
  BY <1>1, <1>3, <1>4, <1>7
<1>9. hits # m
  BY <1>7
<1>10. hits \in S
  BY <1>7, <1>8, <1>9
<1> QED
  BY <1>6, <1>7, <1>8, <1>10

LEMMA PrevGoesAround ==
  ASSUME Source!SourceAssumption, NEW f \in Files, NEW q \in Source!Queries,
         Source!Matches(f, q) # {},
         \A m, n \in Source!Matches(f, q) : m < n => m + q <= n,
         NEW C \in SUBSET Source!Matches(f, q), C # {}, \A c \in C : Source!FindPrev(f, q, c) \in C
  PROVE  C = Source!Matches(f, q)
<1> DEFINE all == Source!Matches(f, q)
<1>1. all \subseteq Nat
  BY MatchesInText
<1> SUFFICES ASSUME NEW m \in all, m \notin C PROVE FALSE
  OBVIOUS
<1>2. Source!Length(f) \in Nat /\ \A n \in all : n <= Source!Length(f)
  BY <1>1, MatchesInText DEF Source!Queries, Source!SourceAssumption
<1>3. \A i \in all :
        LET before == {n \in all : n < i}
            hits  == Source!FindPrev(f, q, i)
        IN /\ before # {} => hits \in before /\ \A n \in before : n <= hits
           /\ before = {} => \A n \in all : n <= hits
  BY PrevIsFound
<1> HIDE DEF all
<1> DEFINE S == {c \in C : c > m}
<1>4. C \subseteq all
  BY DEF all
<1>5. S # {}
  <2> SUFFICES ASSUME S = {} PROVE FALSE
    OBVIOUS
  <2>1. PICK c \in C : \A d \in C : c <= d
    BY <1>1, <1>4, Graph!LeastOfNaturals
  <2> DEFINE hits == Source!FindPrev(f, q, c)
             before == {n \in all : n < c}
  <2>2. hits \in C /\ hits \in Nat /\ c \in Nat /\ m \in Nat /\ c \in all
    BY <1>1, <1>4
  <2>3. c <= hits /\ ~(hits > m)
    BY <2>1, <2>2
  <2>4. CASE before # {}
    <3>1. hits < c
      BY <1>3, <2>2, <2>4
    <3> QED
      BY <2>2, <2>3, <3>1
  <2>5. CASE before = {}
    <3>1. m <= hits
      BY <1>3, <2>2, <2>5
    <3>2. hits # m
      BY <2>2
    <3> QED
      BY <2>2, <2>3, <3>1, <3>2
  <2> QED
    BY <2>4, <2>5
<1>6. PICK c \in S : \A d \in S : c <= d
  <2>1. S \subseteq Nat
    BY <1>1, <1>4
  <2> HIDE DEF S
  <2> QED
    BY <1>5, <2>1, Graph!LeastOfNaturals
<1> DEFINE hits == Source!FindPrev(f, q, c)
           before == {n \in all : n < c}
<1>7. c \in all /\ m \in before /\ hits \in C /\ c \in Nat /\ m \in Nat
  BY <1>1, <1>4
<1>8. hits < c /\ m <= hits /\ hits \in Nat
  BY <1>1, <1>3, <1>4, <1>7
<1>9. hits # m
  BY <1>7
<1>10. hits \in S
  BY <1>7, <1>8, <1>9
<1> QED
  BY <1>6, <1>7, <1>8, <1>10

(* FiniteSets is the same in every part. *)
LEMMA SameCardinality ==
  ASSUME NEW S
  PROVE  /\ Launch!Cardinality(S) = Cardinality(S)
         /\ Source!Cardinality(S) = Cardinality(S)
         /\ Prompt!Cardinality(S) = Cardinality(S)
BY Zenon DEF Cardinality, Launch!Cardinality, Source!Cardinality, Prompt!Cardinality

(* Searching on from anywhere passes every match. *)
LEMMA FindGoesAround ==
  ASSUME Source!SourceAssumption, editor.path \in Files
  PROVE  Source!EveryMatchIsPassed
<1> DEFINE lines == editor.path
           here == Source!Index(editor.row, editor.col)
<1> SUFFICES ASSUME NEW q \in Source!Queries, Source!Matches(lines, q) # {},
                    \A m, n \in Source!Matches(lines, q) : m < n => m + q <= n
             PROVE  LET all == Source!Matches(lines, q)
                        next[n \in 0..Source!Cardinality(all)] ==
                          IF n = 0 THEN here ELSE Source!FindNext(lines, q, next[n - 1])
                        prev[n \in 0..Source!Cardinality(all)] ==
                          IF n = 0 THEN here ELSE Source!FindPrev(lines, q, prev[n - 1])
                    IN /\ all \subseteq {next[n] : n \in DOMAIN next \ {0}}
                       /\ all \subseteq {prev[n] : n \in DOMAIN prev \ {0}}
  BY DEF Source!EveryMatchIsPassed
<1> DEFINE all == Source!Matches(lines, q)
           N == Source!Cardinality(all)
           S == all \cup {here}
           next[n \in 0..Source!Cardinality(all)] ==
             IF n = 0 THEN here ELSE Source!FindNext(lines, q, next[n - 1])
           prev[n \in 0..Source!Cardinality(all)] ==
             IF n = 0 THEN here ELSE Source!FindPrev(lines, q, prev[n - 1])
<1>1. IsFiniteSet(all) /\ N \in Nat /\ N = Cardinality(all)
  BY MatchesInText, FS_CardinalityType, SameCardinality
<1>2. all \subseteq {next[n] : n \in DOMAIN next \ {0}}
  <2> DEFINE G == [i \in S |-> Source!FindNext(lines, q, i)]
  <2>1. G \in [S -> all] /\ G \in [S -> S] /\ here \in S
    BY NextIsFound
  <2>2. GoesAround(G, all)
    BY NextGoesAround DEF GoesAround
  <2>3. PICK f \in [0..N -> S] : Graph!IsSteps(f, N, here, G)
    <3> HIDE DEF G, S, N, here
    <3> QED
      BY <1>1, <2>1, Graph!StepsExist
  <2>4. f = [n \in 0..N |-> IF n = 0 THEN here ELSE Source!FindNext(lines, q, f[n - 1])]
    <3>1. \A n \in 0..N : n # 0 => G[f[n - 1]] = Source!FindNext(lines, q, f[n - 1])
      BY <1>1
    <3> QED
      BY <2>3, <3>1 DEF Graph!IsSteps
  <2>5. next = [n \in 0..N |-> IF n = 0 THEN here ELSE Source!FindNext(lines, q, next[n - 1])]
    BY <2>4
  <2> HIDE DEF next
  <2>6. \A n \in 0..N : next[n] \in S
    BY <2>5, NextIsFound
  <2>7. Graph!IsSteps(next, N, here, G)
    <3>1. \A n \in 0..N : n # 0 => G[next[n - 1]] = Source!FindNext(lines, q, next[n - 1])
      BY <1>1, <2>6
    <3> QED
      BY <2>5, <3>1 DEF Graph!IsSteps
  <2>8. all \subseteq {next[n] : n \in 1..N}
    <3> HIDE DEF G, all, here, N
    <3>0. PICK a, h, g, s, k : a = all /\ h = here /\ g = G /\ s = next /\ k = N
      OBVIOUS
    <3>1. IsFiniteSet(a)
      BY <1>1, <3>0
    <3>2. g \in [a \cup {h} -> a]
      BY <2>1, <3>0 DEF S
    <3>3. k = Cardinality(a) /\ Graph!IsSteps(s, k, h, g)
      BY <1>1, <2>7, <3>0
    <3>4. GoesAround(g, a)
      BY <2>2, <3>0
    <3>5. PassesAll(a, k, s)
      <4>1. Rounds(a, h, g, k, s)
        BY ONLY <3>1, <3>2, <3>3, <3>4 DEF Rounds
      <4> QED
        BY ONLY <4>1, StepsGoAround
    <3> QED
      BY <1>1, <3>0, <3>5 DEF PassesAll
  <2>9. DOMAIN next \ {0} = 1..N
    BY <1>1, <2>5
  <2> QED
    BY <2>8, <2>9
<1>3. all \subseteq {prev[n] : n \in DOMAIN prev \ {0}}
  <2> DEFINE G == [i \in S |-> Source!FindPrev(lines, q, i)]
  <2>1. G \in [S -> all] /\ G \in [S -> S] /\ here \in S
    BY PrevIsFound
  <2>2. GoesAround(G, all)
    BY PrevGoesAround DEF GoesAround
  <2>3. PICK f \in [0..N -> S] : Graph!IsSteps(f, N, here, G)
    <3> HIDE DEF G, S, N, here
    <3> QED
      BY <1>1, <2>1, Graph!StepsExist
  <2>4. f = [n \in 0..N |-> IF n = 0 THEN here ELSE Source!FindPrev(lines, q, f[n - 1])]
    <3>1. \A n \in 0..N : n # 0 => G[f[n - 1]] = Source!FindPrev(lines, q, f[n - 1])
      BY <1>1
    <3> QED
      BY <2>3, <3>1 DEF Graph!IsSteps
  <2>5. prev = [n \in 0..N |-> IF n = 0 THEN here ELSE Source!FindPrev(lines, q, prev[n - 1])]
    BY <2>4
  <2> HIDE DEF prev
  <2>6. \A n \in 0..N : prev[n] \in S
    BY <2>5, PrevIsFound
  <2>7. Graph!IsSteps(prev, N, here, G)
    <3>1. \A n \in 0..N : n # 0 => G[prev[n - 1]] = Source!FindPrev(lines, q, prev[n - 1])
      BY <1>1, <2>6
    <3> QED
      BY <2>5, <3>1 DEF Graph!IsSteps
  <2>8. all \subseteq {prev[n] : n \in 1..N}
    <3> HIDE DEF G, all, here, N
    <3>0. PICK a, h, g, s, k : a = all /\ h = here /\ g = G /\ s = prev /\ k = N
      OBVIOUS
    <3>1. IsFiniteSet(a)
      BY <1>1, <3>0
    <3>2. g \in [a \cup {h} -> a]
      BY <2>1, <3>0 DEF S
    <3>3. k = Cardinality(a) /\ Graph!IsSteps(s, k, h, g)
      BY <1>1, <2>7, <3>0
    <3>4. GoesAround(g, a)
      BY <2>2, <3>0
    <3>5. PassesAll(a, k, s)
      <4>1. Rounds(a, h, g, k, s)
        BY ONLY <3>1, <3>2, <3>3, <3>4 DEF Rounds
      <4> QED
        BY ONLY <4>1, StepsGoAround
    <3> QED
      BY <1>1, <3>0, <3>5 DEF PassesAll
  <2>9. DOMAIN prev \ {0} = 1..N
    BY <1>1, <2>5
  <2> QED
    BY <2>8, <2>9
<1> QED
  BY <1>2, <1>3

-----------------------------------------------------------------------------
(* The launch command *)

(* Of the tokens from j to before i, the last 2 * pairs, and no more, are  *)
(* options that take a value.                                              *)
EndsInPairs(s, j, i) ==
  \E pairs \in Nat :
    /\ 2 * pairs <= i - j
    /\ \A k \in j..(i - 1) :
         (\A m \in k..(i - 1) : s[m] \in Launch!TakesValue) <=> k >= i - 2 * pairs

(* The options of run end with an option that has its value. *)
SplitFrom(s, ends) ==
  \A j \in 1..(Len(s) + 2) :
    /\ ends[j] \in j..(Len(s) + 2)
    /\ ends[j] <= Len(s) => /\ s[ends[j]] = "--" \/ s[ends[j]] \notin Launch!Options
                          /\ EndsInPairs(s, j, ends[j])

(* SplitOptions: where the options end *)
OptionsEnd(s, j, ends) ==
  IF j > Len(s) THEN j
  ELSE IF s[j] = "--" \/ s[j] \notin Launch!Options THEN j
  ELSE ends[j + Launch!Step(s[j])]

LEMMA SplitExists ==
  ASSUME NEW s \in Seq(Tokens)
  PROVE  \E ends : ends = [j \in 1..(Len(s) + 2) |-> OptionsEnd(s, j, ends)]
<1> DEFINE D == 1..(Len(s) + 2)
           H == [f \in [D -> Nat] |-> [j \in D |-> OptionsEnd(s, j, f)]]
           rank == [j \in D |-> Len(s) + 2 - j]
           bound == Len(s) + 2
<1>1. Len(s) \in Nat
  OBVIOUS
<1>2. [j \in D |-> 0] \in [D -> Nat] /\ rank \in [D -> Nat] /\ bound \in Nat
      /\ \A j \in D : rank[j] < bound
  BY <1>1
<1>3. ASSUME NEW j \in D, j <= Len(s)
      PROVE  j + Launch!Step(s[j]) \in D /\ rank[j + Launch!Step(s[j])] < rank[j]
  BY <1>1, <1>3 DEF Launch!Step
<1>4. H \in [[D -> Nat] -> [D -> Nat]]
  <2>1. ASSUME NEW f \in [D -> Nat], NEW j \in D PROVE OptionsEnd(s, j, f) \in Nat
    <3>1. CASE j > Len(s)
      BY <3>1 DEF OptionsEnd
    <3>2. CASE j <= Len(s)
      <4>1. f[j + Launch!Step(s[j])] \in Nat
        BY <1>3, <3>2
      <4> QED
        BY <4>1 DEF OptionsEnd
    <3> QED
      BY <1>1, <3>1, <3>2
  <2> QED
    BY <2>1
<1>5. \A f, g \in [D -> Nat], j \in D :
        (\A k \in D : rank[k] < rank[j] => f[k] = g[k]) => H[f][j] = H[g][j]
  <2> SUFFICES ASSUME NEW f \in [D -> Nat], NEW g \in [D -> Nat], NEW j \in D,
                      \A k \in D : rank[k] < rank[j] => f[k] = g[k]
               PROVE  OptionsEnd(s, j, f) = OptionsEnd(s, j, g)
    OBVIOUS
  <2>1. CASE j > Len(s)
    BY <2>1 DEF OptionsEnd
  <2>2. CASE j <= Len(s)
    <3>1. f[j + Launch!Step(s[j])] = g[j + Launch!Step(s[j])]
      BY <1>3, <2>2
    <3> QED
      BY <3>1 DEF OptionsEnd
  <2> QED
    BY <1>1, <2>1, <2>2
<1>6. \E f \in [D -> Nat] : f = H[f]
  <2> HIDE DEF D, H, rank, bound
  <2>1. Graph!Approximates(H, D, Nat, rank, bound)
    BY <1>2, <1>4, <1>5 DEF Graph!Approximates
  <2> QED
    BY <2>1, Graph!RecursionExists
<1> QED
  BY <1>6

LEMMA PairsExtend ==
  ASSUME NEW s \in Seq(Tokens), NEW j \in 1..Len(s), NEW i \in 1..Len(s),
         j + Launch!Step(s[j]) <= i, EndsInPairs(s, j + Launch!Step(s[j]), i)
  PROVE  EndsInPairs(s, j, i)
<1> DEFINE n == j + Launch!Step(s[j])
           Values(k) == \A m \in k..(i - 1) : s[m] \in Launch!TakesValue
<1>1. PICK pairs \in Nat : /\ 2 * pairs <= i - n
                           /\ \A k \in n..(i - 1) : Values(k) <=> k >= i - 2 * pairs
  BY DEF EndsInPairs
<1>2. \A k \in 1..(i - 1) : Values(k) <=> s[k] \in Launch!TakesValue /\ Values(k + 1)
  <2> SUFFICES ASSUME NEW k \in 1..(i - 1)
               PROVE  Values(k) <=> s[k] \in Launch!TakesValue /\ Values(k + 1)
    OBVIOUS
  <2>1. \A m \in Int : m \in k..(i - 1) <=> m = k \/ m \in (k + 1)..(i - 1)
    OBVIOUS
  <2> QED
    BY <2>1
<1>3. n = i => Values(n)
  OBVIOUS
<1>4. j \in Nat /\ i \in Nat /\ Len(s) \in Nat
  OBVIOUS
<1>5. SUFFICES \E more \in Nat :
                 /\ 2 * more <= i - j
                 /\ \A k \in j..(i - 1) : Values(k) <=> k >= i - 2 * more
  BY DEF EndsInPairs
<1> HIDE DEF Values
<1>6. CASE s[j] \notin Launch!TakesValue
  <2>1. n = j + 1
    BY <1>6 DEF Launch!Step
  <2>2. ~Values(j)
    BY <1>2, <1>4, <1>6, <2>1
  <2>3. ASSUME NEW k \in j..(i - 1) PROVE Values(k) <=> k >= i - 2 * pairs
    <3>1. CASE k = j
      <4>1. k < i - 2 * pairs
        BY <1>1, <1>4, <2>1, <3>1
      <4> QED
        BY <1>4, <2>2, <3>1, <4>1
    <3>2. CASE k # j
      BY <1>1, <1>4, <2>1, <3>2
    <3> QED
      BY <3>1, <3>2
  <2>4. 2 * pairs <= i - j
    BY <1>1, <1>4, <2>1
  <2> QED
    BY <2>3, <2>4
<1>7. CASE s[j] \in Launch!TakesValue
  <2>1. n = j + 2
    BY <1>7 DEF Launch!Step
  <2>2. j + 1 \in 1..(i - 1) /\ j \in 1..(i - 1)
    BY <1>4, <2>1
  <2>3. (Values(j + 1) <=> s[j + 1] \in Launch!TakesValue /\ Values(n))
        /\ (Values(j) <=> Values(j + 1))
    BY <1>2, <1>4, <1>7, <2>1, <2>2
  <2>4. CASE Values(j)
    <3>1. Values(n)
      BY <2>3, <2>4
    <3>2. 2 * pairs = i - n
      BY <1>1, <1>4, <2>1, <3>1
    <3>3. \A k \in n..(i - 1) : Values(k)
      BY <1>1, <1>4, <2>1, <3>2
    <3>4. \A k \in j..(i - 1) : Values(k)
      <4>1. \A k \in j..(i - 1) : k = j \/ k = j + 1 \/ k \in n..(i - 1)
        BY <1>4, <2>1
      <4> QED
        BY <2>3, <2>4, <3>3, <4>1
    <3>5. PICK more \in Nat : more = pairs + 1
      OBVIOUS
    <3>6. 2 * more = i - j
      BY <1>4, <2>1, <3>2, <3>5
    <3>7. \A k \in j..(i - 1) : k >= i - 2 * more
      BY <1>4, <3>6
    <3> QED
      BY <3>4, <3>6, <3>7
  <2>5. CASE ~Values(j)
    <3>1. ~Values(j + 1)
      BY <2>3, <2>5
    <3>2. ASSUME NEW k \in j..(i - 1) PROVE Values(k) <=> k >= i - 2 * pairs
      <4>1. CASE k \in n..(i - 1)
        BY <1>1, <4>1
      <4>2. CASE k \notin n..(i - 1)
        <5>1. k = j \/ k = j + 1
          BY <1>4, <2>1, <4>2
        <5>2. ~Values(k)
          BY <2>5, <3>1, <5>1
        <5>3. k < i - 2 * pairs
          BY <1>1, <1>4, <2>1, <5>1
        <5> QED
          BY <1>4, <5>2, <5>3
      <4> QED
        BY <4>1, <4>2
    <3>3. 2 * pairs <= i - j
      BY <1>1, <1>4, <2>1
    <3> QED
      BY <3>2, <3>3
  <2> QED
    BY <2>4, <2>5
<1> QED
  BY <1>6, <1>7

LEMMA SplitIsSound ==
  ASSUME NEW s \in Seq(Tokens), NEW ends, ends = [j \in 1..(Len(s) + 2) |-> OptionsEnd(s, j, ends)]
  PROVE  SplitFrom(s, ends)
<1> DEFINE D == 1..(Len(s) + 2)
           Good(j) == /\ ends[j] \in j..(Len(s) + 2)
                      /\ ends[j] <= Len(s) =>
                           /\ s[ends[j]] = "--" \/ s[ends[j]] \notin Launch!Options
                           /\ EndsInPairs(s, j, ends[j])
           Bad == {j \in D : ~Good(j)}
<1>1. Len(s) \in Nat
  OBVIOUS
<1> SUFFICES ASSUME Bad # {} PROVE FALSE
  BY DEF SplitFrom
<1>2. PICK j \in Bad : \A k \in Bad : k <= j
  <2>1. Bad \subseteq Nat /\ \A k \in Bad : k <= Len(s) + 2
    BY <1>1
  <2>2. Len(s) + 2 \in Nat
    BY <1>1
  <2> HIDE DEF Bad
  <2> QED
    BY <2>1, <2>2, Graph!GreatestOfNaturals
<1>3. \A k \in D : k > j => Good(k)
  BY <1>1, <1>2
<1>4. ends[j] = OptionsEnd(s, j, ends)
  OBVIOUS
<1>5. CASE ends[j] = j /\ (j > Len(s) \/ s[j] = "--" \/ s[j] \notin Launch!Options)
  <2>1. EndsInPairs(s, j, j)
    BY <1>1 DEF EndsInPairs
  <2> QED
    BY <1>1, <1>5, <2>1
<1>6. CASE j <= Len(s) /\ ends[j] = ends[j + Launch!Step(s[j])]
  <2> DEFINE n == j + Launch!Step(s[j])
  <2>1. n \in D /\ n > j
    BY <1>1, <1>6 DEF Launch!Step
  <2>2. Good(n)
    BY <1>3, <2>1
  <2>3. ends[j] \in j..(Len(s) + 2)
    BY <1>1, <1>6, <2>1, <2>2
  <2>4. ends[j] <= Len(s) => EndsInPairs(s, j, ends[j])
    BY <1>1, <1>6, <2>1, <2>2, <2>3, PairsExtend
  <2> QED
    BY <1>6, <2>2, <2>3, <2>4
<1> QED
  BY <1>1, <1>4, <1>5, <1>6 DEF OptionsEnd

(* SplitOptions drops at most one `--`, and what stays of the options ends *)
(* in pairs.                                                               *)
LEMMA OptionsAreSplit ==
  ASSUME NEW s \in Seq(Tokens), Launch!SplitOptions(s).target # <<>>
  PROVE  \E i \in 1..Len(s) :
           /\ Launch!SplitOptions(s).options = SubSeq(s, 1, i - 1)
           /\ EndsInPairs(s, 1, i)
           /\ \/ s[i] = "--" /\ Launch!SplitOptions(s).target = Launch!From(s, i + 1)
              \/ Launch!SplitOptions(s).target = Launch!From(s, i)
<1> DEFINE ends[i \in 1..(Len(s) + 2)] ==
             IF i > Len(s) THEN i
             ELSE IF s[i] = "--" \/ s[i] \notin Launch!Options THEN i
             ELSE ends[i + Launch!Step(s[i])]
<1>1. ends = [i \in 1..(Len(s) + 2) |-> OptionsEnd(s, i, ends)]
  <2>1. \E f : f = [i \in 1..(Len(s) + 2) |-> OptionsEnd(s, i, f)]
    BY SplitExists
  <2> QED
    BY <2>1 DEF OptionsEnd
<1>2. Launch!SplitOptions(s) =
        IF ends[1] > Len(s) THEN [options |-> s, target |-> <<>>]
        ELSE [options |-> SubSeq(s, 1, ends[1] - 1),
              target |-> Launch!From(s, IF s[ends[1]] = "--" THEN ends[1] + 1 ELSE ends[1])]
  BY DEF Launch!SplitOptions
<1> HIDE DEF ends
<1>3. SplitFrom(s, ends)
  BY <1>1, SplitIsSound
<1>4. ~(ends[1] > Len(s))
  BY <1>2
<1>5. ends[1] \in 1..Len(s) /\ EndsInPairs(s, 1, ends[1])
  BY <1>3, <1>4 DEF SplitFrom
<1> QED
  BY <1>2, <1>4, <1>5

Found == [run : Nat, cwd : {".", "d"} \cup {args[i] : i \in 1..Len(args)}]
Names(r, dir) == [r EXCEPT !.cwd = IF @ = "." THEN dir ELSE @]

PrefixFrom(i, scan) ==
  IF i > Len(args) THEN [run |-> 0, cwd |-> "."]
  ELSE IF args[i] = "run" THEN [run |-> i, cwd |-> "."]
  ELSE IF args[i] = "--directory" /\ i < Len(args) THEN Names(scan[i + 2], args[i + 1])
  ELSE IF args[i] = "--directory=d" THEN Names(scan[i + 1], "d")
  ELSE scan[IF args[i] \in Launch!TakesDir THEN i + 2 ELSE i + 1]

LEMMA NamesFound ==
  ASSUME args \in Seq(Tokens), NEW r \in Found,
         NEW dir \in {"d"} \cup {args[i] : i \in 1..Len(args)}
  PROVE  Names(r, dir) \in Found /\ Names(r, dir).run = r.run
BY DEF Names, Found

LEMMA PrefixExists ==
  ASSUME args \in Seq(Tokens)
  PROVE  \E scan \in [1..(Len(args) + 2) -> Found] :
           scan = [i \in 1..(Len(args) + 2) |-> PrefixFrom(i, scan)]
<1> DEFINE D == 1..(Len(args) + 2)
           H == [f \in [D -> Found] |-> [i \in D |-> PrefixFrom(i, f)]]
           rank == [i \in D |-> Len(args) + 2 - i]
           bound == Len(args) + 2
           nothing == [run |-> 0, cwd |-> "."]
<1>1. Len(args) \in Nat
  OBVIOUS
<1>2. rank \in [D -> Nat] /\ bound \in Nat /\ \A i \in D : rank[i] < bound
  BY <1>1
<1>3. nothing \in Found
  BY DEF Found
<1>4. [i \in D |-> nothing] \in [D -> Found]
  BY <1>3
<1>5. ASSUME NEW i \in D, i <= Len(args)
      PROVE  /\ i + 1 \in D /\ rank[i + 1] < rank[i]
             /\ i + 2 \in D /\ rank[i + 2] < rank[i]
  BY <1>1, <1>5
<1>7. ASSUME NEW f \in [D -> Found], NEW i \in D PROVE PrefixFrom(i, f) \in Found
  <2>1. CASE i > Len(args)
    BY <1>3, <2>1 DEF PrefixFrom
  <2>2. CASE i <= Len(args)
    <3>1. f[i + 1] \in Found /\ f[i + 2] \in Found
      BY <1>5, <2>2
    <3>2. [run |-> i, cwd |-> "."] \in Found
      BY DEF Found
    <3>3. i < Len(args) => Names(f[i + 2], args[i + 1]) \in Found
      <4>1. i < Len(args) => i + 1 \in 1..Len(args)
        BY <1>1
      <4> QED
        BY <3>1, <4>1, NamesFound
    <3>4. Names(f[i + 1], "d") \in Found
      BY <3>1, NamesFound
    <3> QED
      BY <1>1, <2>2, <3>1, <3>2, <3>3, <3>4 DEF PrefixFrom
  <2> QED
    BY <1>1, <2>1, <2>2
<1>8. H \in [[D -> Found] -> [D -> Found]]
  BY <1>7
<1>9. \A f, g \in [D -> Found], i \in D :
        (\A k \in D : rank[k] < rank[i] => f[k] = g[k]) => H[f][i] = H[g][i]
  <2> SUFFICES ASSUME NEW f \in [D -> Found], NEW g \in [D -> Found], NEW i \in D,
                      \A k \in D : rank[k] < rank[i] => f[k] = g[k]
               PROVE  PrefixFrom(i, f) = PrefixFrom(i, g)
    OBVIOUS
  <2>1. CASE i > Len(args)
    BY <2>1 DEF PrefixFrom
  <2>2. CASE i <= Len(args)
    <3>1. f[i + 1] = g[i + 1] /\ f[i + 2] = g[i + 2]
      BY <1>5, <2>2
    <3> QED
      BY <3>1 DEF PrefixFrom
  <2> QED
    BY <1>1, <2>1, <2>2
<1>10. \E f \in [D -> Found] : f = H[f]
  <2> HIDE DEF D, H, rank, bound
  <2>1. Graph!Approximates(H, D, Found, rank, bound)
    BY <1>2, <1>4, <1>8, <1>9 DEF Graph!Approximates
  <2> QED
    BY <2>1, Graph!RecursionExists
<1> QED
  BY <1>10

(* Where `run` is, if it is anywhere. *)
LEMMA PrefixFindsRun ==
  ASSUME args \in Seq(Tokens)
  PROVE  /\ Launch!Prefix.run \in 0..Len(args)
         /\ Launch!Prefix.run # 0 => args[Launch!Prefix.run] = "run"
<1> DEFINE scan[i \in 1..(Len(args) + 2)] ==
             IF i > Len(args) THEN [run |-> 0, cwd |-> "."]
             ELSE IF args[i] = "run" THEN [run |-> i, cwd |-> "."]
             ELSE IF args[i] = "--directory" /\ i < Len(args) THEN Names(scan[i + 2], args[i + 1])
             ELSE IF args[i] = "--directory=d" THEN Names(scan[i + 1], "d")
             ELSE scan[IF args[i] \in Launch!TakesDir THEN i + 2 ELSE i + 1]
           D == 1..(Len(args) + 2)
           Good(i) == /\ scan[i] \in Found /\ scan[i].run <= Len(args)
                      /\ scan[i].run # 0 => args[scan[i].run] = "run"
           Bad == {i \in D : ~Good(i)}
<1>1. Len(args) \in Nat
  OBVIOUS
<1>2. Launch!Prefix = scan[1]
  BY DEF Launch!Prefix, Names
<1>3. scan = [i \in D |-> PrefixFrom(i, scan)]
  <2>1. \E f : f = [i \in D |-> PrefixFrom(i, f)]
    BY PrefixExists
  <2> QED
    BY <2>1 DEF PrefixFrom
<1> HIDE DEF scan
<1>4. Bad = {}
  <2> SUFFICES ASSUME Bad # {} PROVE FALSE
    OBVIOUS
  <2>1. PICK i \in Bad : \A k \in Bad : k <= i
    <3>1. Bad \subseteq Nat /\ \A k \in Bad : k <= Len(args) + 2
      BY <1>1
    <3>2. Len(args) + 2 \in Nat
      BY <1>1
    <3> HIDE DEF Bad
    <3> QED
      BY <3>1, <3>2, Graph!GreatestOfNaturals
  <2>2. \A k \in D : k > i => Good(k)
    BY <1>1, <2>1
  <2>3. scan[i] = PrefixFrom(i, scan)
    BY <1>3
  <2>4. CASE i > Len(args)
    BY <1>1, <2>3, <2>4 DEF PrefixFrom, Found
  <2>5. CASE i <= Len(args)
    <3>1. Good(i + 1) /\ Good(i + 2)
      BY <1>1, <2>2, <2>5
    <3>2. CASE scan[i] = [run |-> i, cwd |-> "."] /\ args[i] = "run"
      BY <1>1, <2>5, <3>2 DEF Found
    <3>3. CASE scan[i] \in {scan[i + 1], scan[i + 2]}
      BY <3>1, <3>3
    <3>4. CASE i < Len(args) /\ scan[i] = Names(scan[i + 2], args[i + 1])
      <4>1. i + 1 \in 1..Len(args)
        BY <1>1, <3>4
      <4>2. PICK r \in Found, dir \in {"d"} \cup {args[k] : k \in 1..Len(args)} :
              r = scan[i + 2] /\ dir = args[i + 1]
        BY <3>1, <4>1
      <4>3. Names(r, dir) \in Found /\ Names(r, dir).run = r.run
        BY NamesFound
      <4>4. scan[i] \in Found /\ scan[i].run = scan[i + 2].run
        BY <3>4, <4>2, <4>3
      <4> QED
        BY <3>1, <4>4
    <3>5. CASE scan[i] = Names(scan[i + 1], "d")
      <4>1. scan[i] \in Found /\ scan[i].run = scan[i + 1].run
        BY <3>1, <3>5, NamesFound
      <4> QED
        BY <3>1, <4>1
    <3> QED
      BY <1>1, <2>3, <2>5, <3>2, <3>3, <3>4, <3>5 DEF PrefixFrom
  <2> QED
    BY <1>1, <2>4, <2>5
<1>5. 1 \in D /\ Good(1)
  BY <1>1, <1>4
<1> QED
  BY <1>1, <1>2, <1>5 DEF Found

LEMMA PairsAreEven ==
  ASSUME NEW n \in Nat
  PROVE  (2 * n) % 2 = 0
OBVIOUS

(* What comes before a place and what comes after it. *)
Front(s, n) == SubSeq(s, 1, n)
Back(s, n)  == SubSeq(s, n + 1, Len(s))

LEMMA FrontAndBack ==
  ASSUME NEW s \in Seq(Tokens), NEW n \in 0..Len(s)
  PROVE  /\ Front(s, n) \in Seq(Tokens) /\ Len(Front(s, n)) = n
         /\ \A m \in 1..n : Front(s, n)[m] = s[m]
         /\ Back(s, n) \in Seq(Tokens) /\ Len(Back(s, n)) = Len(s) - n
         /\ \A m \in 1..(Len(s) - n) : Back(s, n)[m] = s[n + m]
         /\ Front(s, n) \o Back(s, n) = s
         /\ Launch!From(s, n + 1) = Back(s, n)
         /\ Back(s, n) # <<>> => n < Len(s)
<1>1. Len(s) \in Nat /\ \A m \in 1..Len(s) : s[m] \in Tokens
  OBVIOUS
<1>2. \A m \in 1..n : s[m] \in Tokens
  BY <1>1
<1>3. \A m \in (n + 1)..Len(s) : s[m] \in Tokens
  BY <1>1
<1>4. /\ SubSeq(s, 1, n) \in Seq(Tokens)
      /\ Len(SubSeq(s, 1, n)) = IF 1 <= n THEN n - 1 + 1 ELSE 0
      /\ \A m \in 1..(n - 1 + 1) : SubSeq(s, 1, n)[m] = s[1 + m - 1]
  <2>1. 1 \in Int /\ n \in Int
    BY <1>1
  <2> QED
    BY ONLY <1>2, <2>1, SubSeqProperties
<1>5. /\ SubSeq(s, n + 1, Len(s)) \in Seq(Tokens)
      /\ Len(SubSeq(s, n + 1, Len(s))) =
           IF n + 1 <= Len(s) THEN Len(s) - (n + 1) + 1 ELSE 0
      /\ \A m \in 1..(Len(s) - (n + 1) + 1) :
           SubSeq(s, n + 1, Len(s))[m] = s[n + 1 + m - 1]
  <2>1. n + 1 \in Int /\ Len(s) \in Int
    BY <1>1
  <2> QED
    BY ONLY <1>3, <2>1, SubSeqProperties
<1>6. Front(s, n) \o Back(s, n) = s
  <2>1. 1 \in 1..(Len(s) + 1) /\ n \in (1 - 1)..Len(s) /\ Len(s) \in n..Len(s)
    BY <1>1
  <2>2. SubSeq(s, 1, n) \o SubSeq(s, n + 1, Len(s)) = SubSeq(s, 1, Len(s))
    BY <2>1, ConcatAdjacentSubSeq
  <2>3. SubSeq(s, 1, Len(s)) = s
    BY SubSeqFull
  <2> QED
    BY <2>2, <2>3 DEF Front, Back
<1>7. \A m \in 1..n : 1 + m - 1 = m
  BY <1>1
<1>8. \A m \in 1..(Len(s) - n) : m \in 1..(Len(s) - (n + 1) + 1) /\ n + 1 + m - 1 = n + m
  BY <1>1
<1>9. Front(s, n) \in Seq(Tokens) /\ Len(Front(s, n)) = n
  BY <1>1, <1>4 DEF Front
<1>10. \A m \in 1..n : Front(s, n)[m] = s[m]
  BY <1>1, <1>4, <1>7 DEF Front
<1>11. Back(s, n) \in Seq(Tokens) /\ Len(Back(s, n)) = Len(s) - n
  BY <1>1, <1>5 DEF Back
<1>12. \A m \in 1..(Len(s) - n) : Back(s, n)[m] = s[n + m]
  BY <1>5, <1>8 DEF Back
<1>13. Back(s, n) # <<>> => n < Len(s)
  BY <1>1, <1>11
<1> QED
  BY <1>6, <1>9, <1>10, <1>11, <1>12, <1>13 DEF Launch!From, Back

LEMMA BackOfBack ==
  ASSUME NEW s \in Seq(Tokens), NEW n \in 0..Len(s), NEW m \in 0..(Len(s) - n)
  PROVE  /\ Back(Back(s, n), m) = Back(s, n + m)
         /\ Front(s, n) \o Front(Back(s, n), m) = Front(s, n + m)
<1>1. Len(s) \in Nat /\ n \in 0..Len(s) /\ n + m \in 0..Len(s)
  BY LenProperties
<1>2. Back(s, n) \in Seq(Tokens) /\ Len(Back(s, n)) = Len(s) - n
      /\ \A k \in 1..(Len(s) - n) : Back(s, n)[k] = s[n + k]
  BY FrontAndBack
<1>3. m \in 0..Len(Back(s, n))
  BY <1>2
<1>4. /\ Back(Back(s, n), m) \in Seq(Tokens)
      /\ Len(Back(Back(s, n), m)) = Len(Back(s, n)) - m
      /\ \A k \in 1..(Len(Back(s, n)) - m) : Back(Back(s, n), m)[k] = Back(s, n)[m + k]
      /\ Front(Back(s, n), m) \in Seq(Tokens) /\ Len(Front(Back(s, n), m)) = m
      /\ \A k \in 1..m : Front(Back(s, n), m)[k] = Back(s, n)[k]
  BY <1>2, <1>3, FrontAndBack
<1>5. /\ Back(s, n + m) \in Seq(Tokens) /\ Len(Back(s, n + m)) = Len(s) - (n + m)
      /\ \A k \in 1..(Len(s) - (n + m)) : Back(s, n + m)[k] = s[n + m + k]
      /\ Front(s, n + m) \in Seq(Tokens) /\ Len(Front(s, n + m)) = n + m
      /\ \A k \in 1..(n + m) : Front(s, n + m)[k] = s[k]
  BY <1>1, FrontAndBack
<1>6. /\ Front(s, n) \in Seq(Tokens) /\ Len(Front(s, n)) = n
      /\ \A k \in 1..n : Front(s, n)[k] = s[k]
  BY FrontAndBack
<1> DEFINE b == Back(s, n)
           bb == Back(b, m)
           fb == Front(b, m)
           f == Front(s, n)
<1> HIDE DEF b, bb, fb, f
<1>7. Back(b, m) = Back(s, n + m)
  <2>1. Len(bb) = Len(s) - (n + m)
    BY <1>1, <1>2, <1>4 DEF b, bb
  <2>2. ASSUME NEW k \in 1..Len(bb) PROVE bb[k] = Back(s, n + m)[k]
    <3>1. k \in 1..(Len(b) - m) /\ m + k \in 1..(Len(s) - n) /\ n + (m + k) = n + m + k
      BY <1>1, <1>2, <2>1 DEF b
    <3>2. bb[k] = s[n + (m + k)]
      BY <1>2, <1>4, <3>1 DEF b, bb
    <3> QED
      BY <1>5, <2>1, <3>1, <3>2
  <2> QED
    BY <1>4, <1>5, <2>1, <2>2, SeqEqual DEF b, bb
<1>8. f \o fb = Front(s, n + m)
  <2>0. /\ f \in Seq(Tokens) /\ Len(f) = n /\ \A k \in 1..n : f[k] = s[k]
        /\ fb \in Seq(Tokens) /\ Len(fb) = m /\ \A k \in 1..m : fb[k] = s[n + k]
    <3>1. \A k \in 1..m : k \in 1..(Len(s) - n)
      BY <1>1
    <3> QED
      BY <1>2, <1>4, <1>6, <3>1 DEF f, fb, b
  <2>1. /\ f \o fb \in Seq(Tokens) /\ Len(f \o fb) = Len(f) + Len(fb)
        /\ \A k \in 1..Len(f) + Len(fb) : (f \o fb)[k] = IF k <= Len(f) THEN f[k]
                                                          ELSE fb[k - Len(f)]
    BY ONLY <2>0, ConcatProperties
  <2>2. ASSUME NEW k \in 1..(n + m) PROVE (f \o fb)[k] = s[k]
    <3>1. CASE k <= n
      <4>1. k \in 1..n
        BY <1>1, <3>1
      <4> QED
        BY <2>0, <2>1, <3>1, <4>1
    <3>2. CASE ~(k <= n)
      <4>1. k - n \in 1..m /\ n + (k - n) = k
        BY <1>1, <3>2
      <4>2. fb[k - n] = s[k]
        BY <2>0, <4>1
      <4> QED
        BY <2>0, <2>1, <3>2, <4>2
    <3> QED
      BY <3>1, <3>2
  <2>3. Len(f \o fb) = Len(Front(s, n + m))
    BY <1>5, <2>0, <2>1
  <2>4. \A k \in 1..Len(f \o fb) : (f \o fb)[k] = Front(s, n + m)[k]
    BY <1>5, <2>0, <2>1, <2>2
  <2>5. f \o fb \in Seq(Tokens) /\ Front(s, n + m) \in Seq(Tokens)
    BY <1>5, <2>1
  <2> QED
    BY ONLY <2>3, <2>4, <2>5, SeqEqual
<1> QED
  BY <1>7, <1>8 DEF f, fb, b

(* The place of `run`, and the end of its options. *)
Cut(run, n, out) ==
  /\ run \in 1..Len(args) /\ args[run] = "run" /\ n \in run..(Len(args) - 1)
  /\ out.prefix = Front(args, n) \o <<"--with", "debugpy", "python">>
  /\ EndsInPairs(args, run + 1, n + 1)
  /\ \E target \in {Back(args, n)} \cup (IF args[n + 1] = "--" THEN {Back(args, n + 1)} ELSE {}) :
       /\ target # <<>>
       /\ \/ out.argv = target
          \/ target[1] \in Launch!Pythons /\ Len(target) >= 2 /\ out.argv = Tail(target)

LEMMA LaunchIsCut ==
  ASSUME args \in Seq(Tokens), NEW out, out = Launch!UvRun, out.ok
  PROVE  \E run, n \in Nat : Cut(run, n, out)
<1> DEFINE run == Launch!Prefix.run
           rest == Launch!From(args, run + 1)
           split == Launch!SplitOptions(rest)
           target == split.target
           debugpy == <<"--with", "debugpy", "python">>
<1>1. Len(args) \in Nat
  OBVIOUS
<1>2. run # 0 /\ target # <<>>
  BY DEF Launch!UvRun, Launch!Refused
<1>3. /\ \/ out.argv = target
         \/ target[1] \in Launch!Pythons /\ ~(Len(target) < 2) /\ out.argv = Tail(target)
      /\ out.prefix = SubSeq(args, 1, run) \o split.options \o debugpy
  BY DEF Launch!UvRun, Launch!Refused
<1>4. run \in 1..Len(args) /\ args[run] = "run"
  BY <1>1, <1>2, PrefixFindsRun
<1> HIDE DEF run
<1>5. /\ rest = Back(args, run) /\ rest \in Seq(Tokens) /\ Len(rest) = Len(args) - run
      /\ \A k \in 1..(Len(args) - run) : rest[k] = args[run + k]
  <2>1. run \in 0..Len(args)
    BY <1>1, <1>4
  <2>2. /\ Launch!From(args, run + 1) = Back(args, run)
        /\ Back(args, run) \in Seq(Tokens) /\ Len(Back(args, run)) = Len(args) - run
        /\ \A k \in 1..(Len(args) - run) : Back(args, run)[k] = args[run + k]
    <3> HIDE DEF rest
    <3> QED
      BY <2>1, FrontAndBack
  <2> QED
    BY <2>2
<1> HIDE DEF rest
<1>6. PICK i \in 1..Len(rest) :
        /\ split.options = SubSeq(rest, 1, i - 1)
        /\ EndsInPairs(rest, 1, i)
        /\ \/ rest[i] = "--" /\ target = Launch!From(rest, i + 1)
           \/ target = Launch!From(rest, i)
  BY <1>2, <1>5, OptionsAreSplit
<1>7. PICK n \in Nat : n = run + i - 1
  BY <1>1, <1>4, <1>5
<1>8. /\ n \in run..(Len(args) - 1) /\ i - 1 \in 0..(Len(args) - run) /\ i \in 0..(Len(args) - run)
      /\ run \in 0..Len(args) /\ i - 1 \in 0..Len(rest) /\ i \in 0..Len(rest)
      /\ run + (i - 1) = n /\ run + i = n + 1 /\ i - 1 + 1 = i
  BY <1>1, <1>4, <1>5, <1>7
<1>9. Launch!From(rest, i - 1 + 1) = Back(args, n) /\ Launch!From(rest, i + 1) = Back(args, n + 1)
  <2>1. Launch!From(rest, i - 1 + 1) = Back(rest, i - 1) /\ Launch!From(rest, i + 1) = Back(rest, i)
    BY <1>5, <1>8, FrontAndBack
  <2>2. Back(rest, i - 1) = Back(args, run + (i - 1)) /\ Back(rest, i) = Back(args, run + i)
    BY <1>5, <1>8, BackOfBack
  <2> QED
    BY <1>8, <2>1, <2>2
<1>10. rest[i] = args[n + 1]
  BY <1>5, <1>8
<1>11. target \in {Back(args, n)} \cup (IF args[n + 1] = "--" THEN {Back(args, n + 1)} ELSE {})
  BY <1>6, <1>8, <1>9, <1>10
<1>12. SubSeq(args, 1, run) \o split.options = Front(args, n)
  <2>1. Front(args, run) \o Front(Back(args, run), i - 1) = Front(args, run + (i - 1))
    BY <1>8, BackOfBack
  <2> QED
    BY <1>5, <1>6, <1>8, <2>1 DEF Front
<1>13. out.prefix = Front(args, n) \o debugpy
  BY <1>3, <1>12
<1>14. EndsInPairs(args, run + 1, n + 1)
  <2>1. PICK pairs \in Nat :
          /\ 2 * pairs <= i - 1
          /\ \A k \in 1..(i - 1) :
               (\A m \in k..(i - 1) : rest[m] \in Launch!TakesValue) <=> k >= i - 2 * pairs
    BY <1>6 DEF EndsInPairs
  <2>2. 2 * pairs <= (n + 1) - (run + 1)
    BY <1>1, <1>4, <1>8, <2>1
  <2>3. ASSUME NEW k \in (run + 1)..((n + 1) - 1)
        PROVE  (\A m \in k..((n + 1) - 1) : args[m] \in Launch!TakesValue)
               <=> k >= (n + 1) - 2 * pairs
    <3>1. PICK h \in 1..(i - 1) : k = run + h
      <4>1. k - run \in 1..(i - 1) /\ k = run + (k - run)
        BY <1>1, <1>4, <1>8
      <4> QED
        BY <4>1
    <3>2. (\A m \in h..(i - 1) : rest[m] \in Launch!TakesValue) <=> h >= i - 2 * pairs
      BY <2>1
    <3>3. h >= i - 2 * pairs <=> k >= (n + 1) - 2 * pairs
      BY <1>1, <1>4, <1>8, <3>1
    <3>4. ASSUME NEW m \in h..(i - 1)
          PROVE  rest[m] = args[run + m] /\ run + m \in k..((n + 1) - 1)
      <4>1. m \in 1..(Len(args) - run)
        BY <1>1, <1>4, <1>8, <3>1
      <4>2. rest[m] = args[run + m]
        BY <1>5, <4>1
      <4>3. run + m \in k..((n + 1) - 1)
        BY <1>1, <1>4, <1>8, <3>1
      <4> QED
        BY <4>2, <4>3
    <3>5. ASSUME NEW m \in k..((n + 1) - 1)
          PROVE  m - run \in h..(i - 1) /\ args[m] = rest[m - run]
      <4>1. m - run \in h..(i - 1) /\ run + (m - run) = m
        BY <1>1, <1>4, <1>8, <3>1
      <4> QED
        BY <3>4, <4>1
    <3> QED
      BY <3>2, <3>3, <3>4, <3>5
  <2>4. \E more \in Nat :
          /\ 2 * more <= (n + 1) - (run + 1)
          /\ \A k \in (run + 1)..((n + 1) - 1) :
               (\A m \in k..((n + 1) - 1) : args[m] \in Launch!TakesValue)
               <=> k >= (n + 1) - 2 * more
    BY <2>2, <2>3, Zenon
  <2> QED
    BY <2>4, Zenon DEF EndsInPairs
<1>15. ~(Len(target) < 2) => Len(target) >= 2
  <2>1. n \in 0..Len(args) /\ n + 1 \in 0..Len(args)
    BY <1>1, <1>4, <1>8
  <2>2. target \in Seq(Tokens)
    BY <1>11, <2>1, FrontAndBack
  <2>3. Len(target) \in Nat
    BY <2>2, LenProperties
  <2> QED
    BY <2>3
<1> HIDE DEF target, split
<1>16. Cut(run, n, out)
  BY <1>2, <1>3, <1>4, <1>8, <1>11, <1>13, <1>14, <1>15 DEF Cut
<1> QED
  BY <1>4, <1>16

(* The arguments are the prefix without debugpy, at most one `--`, at most *)
(* an interpreter, and what is launched.                                   *)
Kept(typed, out) ==
  LET front == SubSeq(out.prefix, 1, Len(out.prefix) - 3)
      unpaired  == {k \in 1..Len(front) : \A i \in k..Len(front) : front[i] \in Launch!TakesValue}
  IN /\ \E sep \in {<<>>, <<"--">>}, python \in {<<>>} \cup {<<p>> : p \in Launch!Pythons} :
          front \o sep \o python \o out.argv = typed
     /\ out.argv # <<>>
     /\ Cardinality(unpaired) % 2 = 0

LEMMA LaunchKeepsArgs ==
  ASSUME args \in Seq(Tokens), NEW run \in Nat, NEW n \in Nat, NEW out, Cut(run, n, out)
  PROVE  Kept(args, out)
<1> DEFINE All == Tokens \cup {"--with", "debugpy", "python"}
           debugpy == <<"--with", "debugpy", "python">>
           front == SubSeq(out.prefix, 1, Len(out.prefix) - 3)
           unpaired == {k \in 1..Len(front) :
                          \A i \in k..Len(front) : front[i] \in Launch!TakesValue}
<1>1. /\ Len(args) \in Nat /\ run \in 1..Len(args) /\ args[run] = "run"
      /\ n \in run..(Len(args) - 1) /\ n \in 0..Len(args) /\ n + 1 \in 0..Len(args)
  BY DEF Cut
<1>2. /\ Front(args, n) \in Seq(Tokens) /\ Len(Front(args, n)) = n
      /\ \A m \in 1..n : Front(args, n)[m] = args[m]
  BY <1>1, FrontAndBack
<1>3. front = Front(args, n)
  <2> DEFINE f == Front(args, n)
             pre == f \o debugpy
  <2>1. f \in Seq(All) /\ debugpy \in Seq(All) /\ Len(debugpy) = 3
    BY <1>2
  <2>2. pre = out.prefix
    BY DEF Cut
  <2> HIDE DEF f, debugpy, All
  <2>3. Len(pre) = Len(f) + Len(debugpy)
    BY <2>1, ConcatProperties
  <2>4. Len(pre) - 3 = n
    BY <1>1, <1>2, <2>1, <2>3 DEF f
  <2>5. 1 \in 1..Len(f) /\ n \in 1..Len(f)
    BY <1>1, <1>2 DEF f
  <2>6. SubSeq(pre, 1, n) = SubSeq(f, 1, n)
    BY <2>1, <2>5, SubSeqOfConcat1
  <2>7. SubSeq(f, 1, n) = f
    BY <1>2, <2>1, SubSeqFull DEF f
  <2> QED
    BY <2>2, <2>4, <2>6, <2>7 DEF f
<1>4. Cardinality(unpaired) % 2 = 0
  <2>1. PICK pairs \in Nat :
          /\ 2 * pairs <= (n + 1) - (run + 1)
          /\ \A k \in (run + 1)..((n + 1) - 1) :
               (\A m \in k..((n + 1) - 1) : args[m] \in Launch!TakesValue)
               <=> k >= (n + 1) - 2 * pairs
    <3>1. EndsInPairs(args, run + 1, n + 1)
      BY DEF Cut
    <3> QED
      BY <3>1, Zenon DEF EndsInPairs
  <2>2. (n + 1) - 1 = n /\ (n + 1) - 2 * pairs >= run + 1
    BY <1>1, <2>1
  <2>3. \A k \in 1..n : k \in unpaired <=> \A m \in k..n : args[m] \in Launch!TakesValue
    <3>1. ASSUME NEW k \in 1..n
          PROVE  (\A m \in k..n : front[m] \in Launch!TakesValue)
                 <=> (\A m \in k..n : args[m] \in Launch!TakesValue)
      <4>1. \A m \in k..n : m \in 1..n
        BY <1>1
      <4>2. \A m \in k..n : front[m] = args[m]
        BY <1>2, <1>3, <4>1
      <4> QED
        BY <4>2
    <3>2. Len(front) = n
      BY <1>2, <1>3
    <3> QED
      BY <3>1, <3>2
  <2>4. unpaired \subseteq 1..n
    BY <1>2, <1>3
  <2> HIDE DEF unpaired
  <2>5. \A k \in 1..n : k \in unpaired <=> k \in ((n + 1) - 2 * pairs)..n
    <3> SUFFICES ASSUME NEW k \in 1..n
                 PROVE  k \in unpaired <=> k \in ((n + 1) - 2 * pairs)..n
      OBVIOUS
    <3>1. CASE k <= run
      <4>1. run \in k..n /\ args[run] \notin Launch!TakesValue
        BY <1>1, <3>1 DEF Launch!TakesValue
      <4>2. k \notin unpaired
        BY <2>3, <4>1
      <4>3. k < (n + 1) - 2 * pairs
        BY <1>1, <2>2, <3>1
      <4> QED
        BY <1>1, <4>2, <4>3
    <3>2. CASE k > run
      <4>1. k \in (run + 1)..((n + 1) - 1)
        BY <1>1, <3>2
      <4>2. (\A m \in k..n : args[m] \in Launch!TakesValue) <=> k >= (n + 1) - 2 * pairs
        BY <2>1, <2>2, <4>1
      <4> QED
        BY <1>1, <2>3, <4>2
    <3> QED
      BY <1>1, <3>1, <3>2
  <2>6. ((n + 1) - 2 * pairs)..n \subseteq 1..n
    BY <1>1, <2>2
  <2>7. unpaired = ((n + 1) - 2 * pairs)..n
    BY <2>4, <2>5, <2>6
  <2>8. Cardinality(((n + 1) - 2 * pairs)..n) = 2 * pairs
    <3>1. (n + 1) - 2 * pairs \in Int /\ n \in Int
      OBVIOUS
    <3>2. Cardinality(((n + 1) - 2 * pairs)..n) =
            IF (n + 1) - 2 * pairs > n THEN 0 ELSE n - ((n + 1) - 2 * pairs) + 1
      BY <3>1, FS_Interval
    <3>3. CASE pairs = 0
      BY <3>2, <3>3
    <3>4. CASE pairs # 0
      BY <3>2, <3>4
    <3> QED
      BY <3>3, <3>4
  <2> QED
    BY <2>7, <2>8, PairsAreEven
<1>5. PICK t : /\ \/ t = n
                  \/ t = n + 1 /\ args[n + 1] = "--"
               /\ Back(args, t) # <<>>
               /\ \/ out.argv = Back(args, t)
                  \/ /\ Back(args, t)[1] \in Launch!Pythons /\ Len(Back(args, t)) >= 2
                     /\ out.argv = Tail(Back(args, t))
  BY DEF Cut
<1>6. t \in 0..(Len(args) - 1) /\ t \in 0..Len(args)
  <2>1. t \in 0..Len(args)
    BY <1>1, <1>5
  <2>2. t < Len(args)
    BY <1>5, <2>1, FrontAndBack
  <2> QED
    BY <1>1, <2>1, <2>2
<1>7. PICK sep \in {<<>>, <<"--">>} : Front(args, n) \o sep = Front(args, t)
  <2>1. CASE t = n
    <3>1. Front(args, n) \o <<>> = Front(args, n)
      BY <1>2, ConcatEmptySeq
    <3> QED
      BY <2>1, <3>1
  <2>2. CASE t = n + 1 /\ args[n + 1] = "--"
    <3>1. n + 1 \in 1..Len(args) /\ 1 \in 1..Len(args) /\ n + 1 \in 1..Len(args)
          /\ (n + 1) - 1 = n
      BY <1>1
    <3>2. SubSeq(args, 1, n + 1) = SubSeq(args, 1, (n + 1) - 1) \o <<args[n + 1]>>
      BY <3>1, SubSeqRecursiveSecond
    <3> QED
      BY <2>2, <3>1, <3>2 DEF Front
  <2> QED
    BY <1>5, <2>1, <2>2
<1>8. Front(args, t) \o Back(args, t) = args /\ Back(args, t) \in Seq(Tokens)
      /\ Len(Back(args, t)) = Len(args) - t
      /\ Front(args, t) \in Seq(Tokens)
      /\ \A m \in 1..(Len(args) - t) : Back(args, t)[m] = args[t + m]
  BY <1>6, FrontAndBack
<1>9. /\ \E python \in {<<>>} \cup {<<p>> : p \in Launch!Pythons} :
           Front(args, t) \o python \o out.argv = args
      /\ out.argv # <<>>
  <2>1. CASE out.argv = Back(args, t)
    <3>1. Front(args, t) \o <<>> = Front(args, t)
      BY <1>8, ConcatEmptySeq
    <3> QED
      BY <1>5, <1>8, <2>1, <3>1
  <2>2. CASE /\ Back(args, t)[1] \in Launch!Pythons /\ Len(Back(args, t)) >= 2
             /\ out.argv = Tail(Back(args, t))
    <3>1. /\ t + 1 \in 1..Len(args) /\ 1 \in 1..Len(args) /\ (t + 1) - 1 = t
          /\ Len(args) \in (t + 1)..Len(args)
          /\ 1 \in 1..(Len(args) - t) /\ t + 1 \in 0..Len(args) /\ Len(args) - (t + 1) >= 1
      BY <1>1, <1>6, <1>8, <2>2
    <3>2. Tail(Back(args, t)) = Back(args, t + 1)
      <4>1. Tail(SubSeq(args, t + 1, Len(args))) = SubSeq(args, t + 1 + 1, Len(args))
        BY <3>1, HeadTailOfSubSeq
      <4> QED
        BY <4>1 DEF Back
    <3>3. Back(args, t)[1] = args[t + 1]
      BY <1>8, <3>1
    <3>4. SubSeq(args, 1, t + 1) = SubSeq(args, 1, (t + 1) - 1) \o <<args[t + 1]>>
      <4>1. 1 \in 1..Len(args) /\ t + 1 \in 1..Len(args)
        BY <3>1
      <4>2. args \in Seq(Tokens)
        OBVIOUS
      <4> QED
        BY ONLY <4>1, <4>2, SubSeqRecursiveSecond
    <3>5. Front(args, t + 1) = Front(args, t) \o <<args[t + 1]>>
      BY <3>1, <3>4 DEF Front
    <3>6. Front(args, t + 1) \o Back(args, t + 1) = args /\ Back(args, t + 1) \in Seq(Tokens)
          /\ Len(Back(args, t + 1)) = Len(args) - (t + 1)
      BY <3>1, FrontAndBack
    <3>7. Back(args, t + 1) # <<>>
      <4>1. Len(Back(args, t + 1)) # 0
        BY <1>1, <1>6, <3>1, <3>6
      <4> QED
        BY <4>1, EmptySeq
    <3> QED
      BY <2>2, <3>2, <3>3, <3>5, <3>6, <3>7
  <2> QED
    BY <1>5, <2>1, <2>2
<1> HIDE DEF unpaired
<1>10. \E sep2 \in {<<>>, <<"--">>}, python \in {<<>>} \cup {<<p>> : p \in Launch!Pythons} :
         front \o sep2 \o python \o out.argv = args
  BY <1>3, <1>7, <1>9
<1> QED
  BY <1>4, <1>9, <1>10 DEF unpaired, Kept

(* The command is what was typed, and what is launched is made of it. *)
LInv == args \in Seq(Tokens) /\ ArgsKept

LEMMA LInit == Launch!Init => LInv
BY DEF Launch!Init, Launch!Refused, LInv, ArgsKept, Launch!ArgsKept

LEMMA LStep == LInv /\ [Launch!Next]_Launch!vars => LInv'
<1> SUFFICES ASSUME LInv, [Launch!Next]_Launch!vars PROVE LInv'
  OBVIOUS
<1>1. ASSUME NEW t \in Tokens, Launch!Type(t) PROVE LInv'
  <2>1. args' \in Seq(Tokens)
    BY <1>1, AppendProperties DEF Launch!Type, LInv
  <2>2. ~spec'.ok
    BY <1>1 DEF Launch!Type, Launch!Refused
  <2> QED
    BY <2>1, <2>2 DEF LInv, ArgsKept, Launch!ArgsKept
<1>2. CASE Launch!Parse
  <2>1. args' = args /\ spec' = Launch!UvRun
    BY <1>2 DEF Launch!Parse
  <2>2. PICK out : out = spec'
    OBVIOUS
  <2>3. ASSUME out.ok PROVE Launch!ArgsKept'
    <3>1. PICK run, n \in Nat : Cut(run, n, out)
      BY <2>1, <2>2, <2>3, LaunchIsCut DEF LInv
    <3>2. Kept(args, out)
      BY <3>1, LaunchKeepsArgs DEF LInv
    <3>3. Kept(args', spec')
      BY <2>1, <2>2, <3>2
    <3> QED
      BY <3>3, SameCardinality, Zenon DEF Launch!ArgsKept, Kept
  <2>4. ~out.ok => Launch!ArgsKept'
    BY <2>2 DEF Launch!ArgsKept
  <2> QED
    BY <2>1, <2>3, <2>4 DEF LInv, ArgsKept
<1>3. CASE UNCHANGED Launch!vars
  BY <1>3 DEF LInv, ArgsKept, Launch!ArgsKept, Launch!vars
<1> QED
  BY <1>1, <1>2, <1>3 DEF Launch!Next

-----------------------------------------------------------------------------
(* The types of the input *)

(* A task carries the text and the cursor of its request. *)
TaskIs(t) ==
  \E a, i : \E x, c \in Prompt!Texts :
    c <= x /\ t = [at |-> a, id |-> i, text |-> x, cursor |-> c]

PromptTypes ==
  /\ Prompt!TypeOK /\ scratch \in Prompt!Texts
  /\ \A t \in tasks : TaskIs(t)

LEMMA PromptTypesInit == ASSUME Prompt!PromptAssumption PROVE Prompt!Init => PromptTypes
<1> SUFFICES ASSUME Prompt!Init PROVE PromptTypes
  OBVIOUS
<1>1. 0 \in Prompt!Texts /\ MaxEntries \in Nat
  BY DEF Prompt!PromptAssumption, Prompt!Texts
<1>2. Len(<<>>) = 0 /\ <<>> \in Seq(Prompt!Item) /\ <<>> \in Seq(Prompt!Texts)
        /\ <<>> \in Seq(Prompt!Texts \ {0})
  OBVIOUS
<1>3. 0 \in 0..Prompt!MaxOf(0, Len(<<>>) - 1) /\ 0 \in 0..0 /\ 0 <= MaxEntries
  BY <1>1, <1>2 DEF Prompt!MaxOf
<1> QED
  BY <1>1, <1>2, <1>3 DEF Prompt!Init, PromptTypes, Prompt!TypeOK

(* The texts up to the bound *)
LEMMA TextIs ==
  ASSUME Prompt!PromptAssumption
  PROVE  /\ Prompt!Texts \subseteq Nat /\ 0 \in Prompt!Texts /\ MaxLen \in Prompt!Texts
              /\ MaxLen \in Nat
         /\ MaxEntries \in Nat /\ 1 <= MaxEntries
         /\ \A t \in Prompt!Texts : t <= MaxLen /\ (t < MaxLen => t + 1 \in Prompt!Texts)
                             /\ (t > 0 => t - 1 \in Prompt!Texts) /\ t \in 0..t /\ 0 \in 0..t
         /\ \A t \in Prompt!Texts : \A c \in 0..t : c \in Prompt!Texts
         /\ \A n \in Nat : Prompt!MinOf(n, MaxLen) \in Prompt!Texts
BY DEF Prompt!PromptAssumption, Prompt!Texts, Prompt!MinOf

(* What _show_completions lists *)
LEMMA ListedIs ==
  ASSUME NEW S \in SUBSET Prompt!Item, IsFiniteSet(S)
  PROVE  Prompt!SetToSeq(S) \in Seq(Prompt!Item)
<1>1. Cardinality(S) \in Nat
  BY FS_CardinalityType
<1>2. PICK f : f \in [1..Cardinality(S) -> S] /\ Prompt!IsInjective(f)
  <2>1. Bijection(1..Cardinality(S), S) # {}
    BY FS_CardinalityType DEF ExistsBijection
  <2>2. PICK f \in Bijection(1..Cardinality(S), S) : TRUE
    BY <2>1
  <2>3. f \in [1..Cardinality(S) -> S]
        /\ \A a, b \in 1..Cardinality(S) : f[a] = f[b] => a = b
    BY <2>2 DEF Bijection, Injection, IsInjective
  <2>4. Prompt!IsInjective(f)
    BY <2>3 DEF Prompt!IsInjective
  <2> QED
    BY <2>3, <2>4
<1>3. Prompt!SetToSeq(S) \in [1..Cardinality(S) -> S]
  BY <1>2, SameCardinality DEF Prompt!SetToSeq
<1>4. Prompt!SetToSeq(S) \in [1..Cardinality(S) -> Prompt!Item]
  BY <1>3
<1> QED
  BY <1>1, <1>4

(* What a target of the adapter becomes is one of four items. *)
LEMMA CandidatesAre ==
  ASSUME Prompt!PromptAssumption, NEW t \in Prompt!Texts, NEW c \in 0..t,
         NEW S \in SUBSET Prompt!Candidates(t, c)
  PROVE  S \in SUBSET Prompt!Item /\ IsFiniteSet(S)
<1> DEFINE it(s, n) == [start |-> s, length |-> n, insert |-> MaxLen]
           C == {it(0, 0), it(0, c), it(c, 0), it(c, c)}
<1>1. c \in Prompt!Texts /\ MaxLen \in Prompt!Texts /\ 0 \in Prompt!Texts
  BY TextIs
<1>2. ASSUME NEW sp \in Prompt!Spans(t, c)
      PROVE  [start |-> Prompt!Span(sp, t, c).start, length |-> Prompt!Span(sp, t, c).length,
               insert |-> MaxLen] \in C
  <2>1. PICK s \in {0, c}, n \in {0, c} : sp = [start |-> s, length |-> n]
    BY DEF Prompt!Spans
  <2>2. Prompt!Span(sp, t, c) = sp \/ Prompt!Span(sp, t, c) = [start |-> 0, length |-> c]
    BY DEF Prompt!Span, Prompt!Fallback
  <2> QED
    BY <2>1, <2>2
<1>3. Prompt!Candidates(t, c) \subseteq C
  BY <1>2 DEF Prompt!Candidates
<1>4. IsFiniteSet(C)
  <2>1. \A a, b : IsFiniteSet({a}) /\ IsFiniteSet({b})
    BY FS_Singleton
  <2>2. C = ({it(0, 0)} \cup {it(0, c)}) \cup ({it(c, 0)} \cup {it(c, c)})
    OBVIOUS
  <2> HIDE DEF C, it
  <2> QED
    BY <2>1, <2>2, FS_Union
<1>5. C \subseteq Prompt!Item
  BY <1>1 DEF Prompt!Item
<1> QED
  BY <1>3, <1>4, <1>5, FS_Subset

(* The input after a completion: a text with the cursor inside. *)
LEMMA AppliedIs ==
  ASSUME Prompt!PromptAssumption, NEW t \in Prompt!Texts, NEW i \in Prompt!Item
  PROVE  /\ Prompt!MinOf(Prompt!Applied(t, i).text, MaxLen) \in Prompt!Texts
         /\ Prompt!MinOf(Prompt!Applied(t, i).cursor, MaxLen)
              \in 0..Prompt!MinOf(Prompt!Applied(t, i).text, MaxLen)
<1>1. PICK s \in Nat, n \in Nat, k \in Nat : s = i.start /\ n = i.length /\ k = i.insert
  BY TextIs DEF Prompt!Item
<1> DEFINE start == Prompt!MinOf(s, t)
           end == Prompt!MaxOf(start, Prompt!MinOf(start + n, t))
<1>2. t \in Nat /\ MaxLen \in Nat
  BY TextIs
<1>3. start \in Nat /\ start <= t
  BY <1>2 DEF Prompt!MinOf
<1>4. end \in Nat /\ end <= t
  BY <1>2, <1>3 DEF Prompt!MinOf, Prompt!MaxOf
<1>5. Prompt!Applied(t, i) = [text |-> start + k + (t - end), cursor |-> start + k]
  BY <1>1 DEF Prompt!Applied
<1> HIDE DEF start, end
<1>6. PICK x \in Nat, c \in Nat : x = Prompt!Applied(t, i).text
             /\ c = Prompt!Applied(t, i).cursor /\ c <= x
  BY <1>2, <1>3, <1>4, <1>5
<1>7. Prompt!MinOf(x, MaxLen) \in Nat /\ Prompt!MinOf(c, MaxLen) \in Nat
        /\ Prompt!MinOf(c, MaxLen) <= Prompt!MinOf(x, MaxLen)
      /\ Prompt!MinOf(x, MaxLen) <= MaxLen
  BY <1>2, <1>6 DEF Prompt!MinOf
<1> QED
  BY <1>2, <1>6, <1>7 DEF Prompt!Texts

(* The history of the console after one more line *)
LEMMA PushedIs ==
  ASSUME Prompt!PromptAssumption, history \in Seq(Prompt!Texts \ {0}),
         Len(history) <= MaxEntries,
         NEW t \in Prompt!Texts \ {0}
  PROVE  Prompt!Pushed(t) \in Seq(Prompt!Texts \ {0}) /\ Len(Prompt!Pushed(t)) <= MaxEntries
<1>1. PICK all \in Seq(Prompt!Texts \ {0}) :
        all = IF history # <<>> /\ Prompt!Last(history) = t THEN history
          ELSE Append(history, t)
  <2>1. Append(history, t) \in Seq(Prompt!Texts \ {0})
    OBVIOUS
  <2> QED
    BY <2>1
<1>2. PICK a \in Nat, n \in Nat : n = Len(all) /\ a = Prompt!MaxOf(0, n - MaxEntries) + 1
  <2>1. Len(all) \in Nat /\ MaxEntries \in Nat
    BY TextIs
  <2>2. Prompt!MaxOf(0, Len(all) - MaxEntries) + 1 \in Nat
    BY <2>1 DEF Prompt!MaxOf
  <2> QED
    BY <2>1, <2>2
<1>3. Prompt!Pushed(t) = SubSeq(all, a, n)
  BY <1>1, <1>2 DEF Prompt!Pushed
<1>4. 1 <= a /\ (a <= n => n - a + 1 <= MaxEntries)
  <2>1. MaxEntries \in Nat
    BY TextIs
  <2> QED
    BY <1>2, <2>1 DEF Prompt!MaxOf
<1>5. SubSeq(all, a, n) \in Seq(Prompt!Texts \ {0})
      /\ Len(SubSeq(all, a, n)) = IF a <= n THEN n - a + 1 ELSE 0
  <2>1. \A k \in a..n : k \in 1..Len(all)
    BY <1>2, <1>4
  <2> QED
    BY <1>1, <1>2, <2>1
<1> QED
  BY <1>3, <1>4, <1>5, TextIs

(* Deletion keeps texts. *)
LEMMA WithoutIs ==
  ASSUME NEW list \in Seq(Prompt!Texts), NEW w
  PROVE  Prompt!Without(list, w) \in Seq(Prompt!Texts)
<1> DEFINE S == Seq(Prompt!Texts)
           G == [p \in S \X Prompt!Texts |-> IF p[2] = w THEN p[1] ELSE Append(p[1], p[2])]
           Next1(h, s) == IF s = {} THEN <<>>
                          ELSE IF list[Prompt!Max(s)] = w THEN h[s \ {Prompt!Max(s)}]
                          ELSE Append(h[s \ {Prompt!Max(s)}], list[Prompt!Max(s)])
           E(h) == h = [s \in SUBSET DOMAIN list |-> Next1(h, s)]
           g == CHOOSE h : E(h)
<1>1. /\ <<>> \in S /\ Trace!IsStep(G, S, Prompt!Texts)
      /\ \A p \in S, x \in Prompt!Texts : G[<<p, x>>] = IF x = w THEN p ELSE Append(p, x)
  BY DEF Trace!IsStep
<1>2. \A s : Prompt!Max(s) = Trace!Max(s)
  BY DEF Prompt!Max, Trace!Max
<1> HIDE DEF S, G
<1>3. PICK f : Trace!IsIteration(f, G, <<>>, list, S)
  BY <1>1, Trace!IterationExists
<1> USE DEF Trace!IsIteration
<1>4. ASSUME NEW s \in SUBSET DOMAIN list, s # {}
      PROVE  /\ list[Prompt!Max(s)] \in Prompt!Texts
                  /\ s \ {Prompt!Max(s)} \in SUBSET DOMAIN list
  BY <1>2, <1>4, Trace!MaxInside
<1>5. E(f)
  <2>1. ASSUME NEW s \in SUBSET DOMAIN list PROVE f[s] = Next1(f, s)
    <3>1. s # {} => list[Prompt!Max(s)] \in Prompt!Texts /\ f[s \ {Prompt!Max(s)}] \in S
      BY <1>3, <1>4
    <3>2. s # {} => f[s] = G[<<f[s \ {Prompt!Max(s)}], list[Prompt!Max(s)]>>]
      BY <1>2, <1>3
    <3> QED
      BY <1>1, <1>3, <3>1, <3>2
  <2>2. f = [s \in SUBSET DOMAIN list |-> f[s]]
    BY <1>3
  <2> HIDE DEF Next1
  <2>3. [s \in SUBSET DOMAIN list |-> f[s]] = [s \in SUBSET DOMAIN list |-> Next1(f, s)]
    BY <2>1
  <2> QED
    BY <2>2, <2>3
<1>6. E(g)
  <2> HIDE DEF E
  <2> QED
    BY <1>5
<1>7. Prompt!Without(list, w) = g[DOMAIN list]
  BY DEF Prompt!Without, Prompt!FoldLeft, Prompt!MapThenFoldSet
<1> HIDE DEF g
<1>8. Trace!Iterates(g, G, <<>>, list, S)
  <2>1. g[{}] = <<>>
    BY <1>6
  <2>2. ASSUME NEW s \in SUBSET DOMAIN list, s # {}, g[s \ {Prompt!Max(s)}] \in S
        PROVE  g[s] = G[<<g[s \ {Prompt!Max(s)}], list[Prompt!Max(s)]>>]
    <3>1. g[s] = IF list[Prompt!Max(s)] = w THEN g[s \ {Prompt!Max(s)}]
                 ELSE Append(g[s \ {Prompt!Max(s)}], list[Prompt!Max(s)])
      BY <1>6, <2>2
    <3> QED
      BY <1>1, <1>4, <2>2, <3>1
  <2> QED
    BY <1>2, <2>1, <2>2 DEF Trace!Iterates
<1>9. list \in Seq(Prompt!Texts)
  OBVIOUS
<1>10. g[DOMAIN list] = Trace!Fold(G, <<>>, list)
  BY <1>1, <1>8, <1>9, Trace!IteratesFolds
<1>11. Trace!Fold(G, <<>>, list) \in S
  BY <1>1, <1>9, Trace!FoldType
<1> QED
  BY <1>7, <1>10, <1>11 DEF S

(* Each step of the input *)
LEMMA PromptTypesStep ==
  ASSUME Prompt!PromptAssumption, PromptTypes, [Prompt!Next]_Prompt!vars
  PROVE  PromptTypes'
<1> DEFINE Input == text \in Prompt!Texts /\ cursor \in 0..text
           List == items \in Seq(Prompt!Item) /\ index \in 0..Prompt!MaxOf(0, Len(items) - 1)
           Waiting == \A t \in tasks : TaskIs(t)
           Sent == submitted \in Seq(Prompt!Texts) /\ watches \in Seq(Prompt!Texts)
           Past == /\ history \in Seq(Prompt!Texts \ {0}) /\ Len(history) <= MaxEntries
                   /\ at \in {None} \cup DOMAIN history /\ scratch \in Prompt!Texts
<1>1. PromptTypes <=> owner \in {"none", "console", "watch"} /\ Input /\ List /\ Waiting
        /\ Sent /\ Past
  BY DEF PromptTypes, Prompt!TypeOK
<1>2. PromptTypes' <=> owner' \in {"none", "console", "watch"} /\ Input' /\ List'
        /\ Waiting' /\ Sent' /\ Past'
  BY DEF PromptTypes, Prompt!TypeOK
<1>3. UNCHANGED Prompt!inputVars => Input'
  BY <1>1 DEF Prompt!inputVars
<1>4. UNCHANGED <<items, index>> => List'
  BY <1>1
<1>5. UNCHANGED Prompt!listVars => List'
  BY <1>4 DEF Prompt!listVars
<1>6. tasks' \subseteq tasks => Waiting'
  BY <1>1
<1>7. UNCHANGED <<submitted, watches>> => Sent'
  BY <1>1
<1>8. UNCHANGED <<history, at, scratch>> => Past'
  BY <1>1
<1>9. UNCHANGED Prompt!histVars => Past'
  BY <1>8 DEF Prompt!histVars
<1>10. Prompt!Hide => List'
  <2>1. <<>> \in Seq(Prompt!Item) /\ Len(<<>>) = 0
    OBVIOUS
  <2>2. 0 \in 0..Prompt!MaxOf(0, 0 - 1)
    BY DEF Prompt!MaxOf
  <2> QED
    BY <2>1, <2>2 DEF Prompt!Hide
<1>11. ASSUME NEW t \in Prompt!Texts, NEW c \in 0..t, Prompt!SetText(t, c) PROVE Input'
  BY <1>11 DEF Prompt!SetText
<1>12. Prompt!Clear => Input' /\ List'
  <2>1. 0 \in Prompt!Texts /\ 0 \in 0..0
    BY TextIs
  <2> QED
    BY <1>10, <1>11, <2>1 DEF Prompt!Clear
<1>13. Prompt!Texts \subseteq Nat /\ text \in Prompt!Texts /\ text \in Nat
         /\ cursor \in Nat /\ cursor <= text
       /\ cursor \in Prompt!Texts
  BY <1>1, TextIs
<1>14. owner \in {"none", "console", "watch"}
  BY <1>1
<1>15. items # <<>> => index + 1 \in DOMAIN items /\ items[index + 1] \in Prompt!Item
         /\ Len(items) \in Nat \ {0}
  <2>1. items \in Seq(Prompt!Item) /\ index \in 0..Prompt!MaxOf(0, Len(items) - 1)
    BY <1>1
  <2>2. Len(items) \in Nat /\ DOMAIN items = 1..Len(items) /\ (items # <<>> => Len(items) # 0)
        /\ \A n \in 1..Len(items) : items[n] \in Prompt!Item
    BY <2>1
  <2>3. Len(items) # 0 => index + 1 \in 1..Len(items)
    BY <2>1, <2>2 DEF Prompt!MaxOf
  <2> QED
    BY <2>2, <2>3
<1>16. /\ submitted \in Seq(Prompt!Texts) /\ watches \in Seq(Prompt!Texts)
            /\ <<>> \in Seq(Prompt!Texts)
       /\ (submitted # <<>> => Tail(submitted) \in Seq(Prompt!Texts)
            /\ Head(submitted) \in Prompt!Texts)
       /\ <<text>> \in Seq(Prompt!Texts)
  BY <1>1
<1>17. /\ history \in Seq(Prompt!Texts \ {0}) /\ Len(history) \in Nat
            /\ DOMAIN history = 1..Len(history)
       /\ \A n \in 1..Len(history) : history[n] \in Prompt!Texts
            /\ history[n] \in 0..history[n]
       /\ (history # <<>> => Len(history) # 0)
       /\ at \in {None} \cup 1..Len(history) /\ scratch \in Prompt!Texts
            /\ scratch \in 0..scratch
  <2>1. history \in Seq(Prompt!Texts \ {0}) /\ at \in {None} \cup DOMAIN history
          /\ scratch \in Prompt!Texts
    BY <1>1
  <2>2. Len(history) \in Nat /\ DOMAIN history = 1..Len(history)
        /\ \A n \in 1..Len(history) : history[n] \in Prompt!Texts \ {0}
    BY <2>1
  <2>3. history # <<>> => Len(history) # 0
    BY <2>1
  <2> QED
    BY <2>1, <2>2, <2>3, TextIs
<1> HIDE DEF Input, List, Waiting, Sent, Past
<1> SUFFICES /\ owner' \in {"none", "console", "watch"}
             /\ Input' /\ List' /\ Waiting' /\ Sent' /\ Past'
  BY <1>2
<1>20. CASE UNCHANGED Prompt!vars
  BY <1>3, <1>5, <1>6, <1>7, <1>9, <1>14, <1>20 DEF Prompt!vars
<1>21. ASSUME NEW o \in {"console", "watch"}, Prompt!Open(o)
       PROVE  owner' \in {"none", "console", "watch"} /\ Input' /\ List' /\ Waiting'
                /\ Sent' /\ Past'
  BY <1>3, <1>5, <1>6, <1>7, <1>9, <1>21 DEF Prompt!Open
<1>22. CASE Prompt!Type
  <2>1. Input'
    <3>1. CASE text < MaxLen /\ Prompt!SetText(text + 1, cursor + 1)
      <4>1. text + 1 \in Prompt!Texts /\ cursor + 1 \in 0..(text + 1)
        BY <1>13, <3>1, TextIs
      <4> QED
        BY <1>11, <3>1, <4>1
    <3>2. CASE cursor > 0 /\ Prompt!SetText(text - 1, cursor - 1)
      <4>1. text - 1 \in Prompt!Texts /\ cursor - 1 \in 0..(text - 1)
        BY <1>13, <3>2, TextIs
      <4> QED
        BY <1>11, <3>2, <4>1
    <3> QED
      BY <1>22, <3>1, <3>2 DEF Prompt!Type
  <2> QED
    BY <1>6, <1>7, <1>9, <1>10, <1>14, <1>22, <2>1 DEF Prompt!Type
<1>23. ASSUME NEW c \in Prompt!Texts, Prompt!MoveTo(c)
       PROVE  owner' \in {"none", "console", "watch"} /\ Input' /\ List' /\ Waiting'
                /\ Sent' /\ Past'
  <2>1. Input'
    BY <1>13, <1>23 DEF Prompt!MoveTo, Input
  <2> QED
    BY <1>5, <1>6, <1>7, <1>9, <1>14, <1>23, <2>1 DEF Prompt!MoveTo
<1>24. CASE Prompt!Request
  <2>1. TaskIs([at |-> "targets", id |-> asked + 1, text |-> text, cursor |-> cursor])
    BY <1>13 DEF TaskIs
  <2>2. tasks' = {[at |-> "targets", id |-> asked + 1, text |-> text, cursor |-> cursor]}
    BY <1>24 DEF Prompt!Request, Prompt!Replaces
  <2>3. Waiting'
    BY <2>1, <2>2 DEF Waiting
  <2> QED
    BY <1>3, <1>5, <1>7, <1>9, <1>14, <1>24, <2>3 DEF Prompt!Request
<1>25. CASE Prompt!Completed
  <2>1. PICK t \in tasks :
          /\ \E S \in SUBSET IF t.at = "targets" THEN Prompt!Candidates(t.text, t.cursor)
                             ELSE {[start |-> 0, length |-> t.cursor, insert |-> MaxLen]} :
               Prompt!Show(Prompt!SetToSeq(S), t.id)
          /\ tasks' = tasks \ {t}
    BY <1>25 DEF Prompt!Completed
  <2>2. PICK S \in SUBSET IF t.at = "targets" THEN Prompt!Candidates(t.text, t.cursor)
                          ELSE {[start |-> 0, length |-> t.cursor, insert |-> MaxLen]} :
          Prompt!Show(Prompt!SetToSeq(S), t.id)
    BY <2>1
  <2>3. t.text \in Prompt!Texts /\ t.cursor \in 0..t.text /\ t.cursor \in Prompt!Texts
    <3>1. TaskIs(t)
      BY <1>1, <2>1 DEF Waiting
    <3>2. PICK a, i : \E x, c \in Prompt!Texts :
            c <= x /\ t = [at |-> a, id |-> i, text |-> x, cursor |-> c]
      BY <3>1 DEF TaskIs
    <3>3. PICK x \in Prompt!Texts, c \in Prompt!Texts :
            c <= x /\ t = [at |-> a, id |-> i, text |-> x, cursor |-> c]
      BY <3>2
    <3> QED
      BY <3>3, TextIs
  <2>4. S \in SUBSET Prompt!Item /\ IsFiniteSet(S)
    <3>1. CASE t.at = "targets"
      BY <2>2, <2>3, <3>1, CandidatesAre
    <3>2. CASE t.at # "targets"
      <4>1. 0 \in Prompt!Texts /\ MaxLen \in Prompt!Texts
        BY TextIs
      <4>2. [start |-> 0, length |-> t.cursor, insert |-> MaxLen] \in Prompt!Item
        BY <2>3, <4>1 DEF Prompt!Item
      <4>3. PICK f : f = [start |-> 0, length |-> t.cursor, insert |-> MaxLen]
                   /\ f \in Prompt!Item
        BY <4>2, Zenon
      <4>4. IsFiniteSet({f}) /\ {f} \subseteq Prompt!Item
        BY <4>3, FS_Singleton
      <4>5. PICK F : F = {f} /\ IsFiniteSet(F) /\ F \subseteq Prompt!Item /\ S \in SUBSET F
        BY <2>2, <3>2, <4>3, <4>4
      <4> QED
        BY <4>5, FS_Subset
    <3> QED
      BY <3>1, <3>2
  <2>5. items' \in Seq(Prompt!Item) /\ index' = 0
    BY <2>2, <2>4, ListedIs DEF Prompt!Show
  <2>6. List'
    <3>1. Len(items') \in Nat
      BY <2>5
    <3>2. 0 \in 0..Prompt!MaxOf(0, Len(items') - 1)
      BY <3>1 DEF Prompt!MaxOf
    <3> QED
      BY <2>5, <3>2 DEF List
  <2> QED
    BY <1>3, <1>6, <1>7, <1>9, <1>14, <1>25, <2>1, <2>6 DEF Prompt!Completed
<1>26. CASE Prompt!NoCandidates
  <2>1. PICK t \in tasks :
          \/ tasks' = (tasks \ {t}) \cup {[t EXCEPT !.at = "variables"]}
               /\ UNCHANGED Prompt!listVars
          \/ tasks' = tasks \ {t} /\ Prompt!Hide
    BY <1>26 DEF Prompt!NoCandidates
  <2>2. TaskIs([t EXCEPT !.at = "variables"])
    <3>1. TaskIs(t)
      BY <1>1, <2>1 DEF Waiting
    <3>2. PICK a, i, x, c : x \in Prompt!Texts /\ c \in Prompt!Texts /\ c <= x
                            /\ t = [at |-> a, id |-> i, text |-> x, cursor |-> c]
      BY <3>1 DEF TaskIs
    <3>3. [t EXCEPT !.at = "variables"] = [at |-> "variables", id |-> i, text |-> x,
            cursor |-> c]
      BY <3>2
    <3> QED
      BY <3>2, <3>3 DEF TaskIs
  <2>3. List' /\ Waiting'
    <3>1. CASE tasks' = (tasks \ {t}) \cup {[t EXCEPT !.at = "variables"]}
                 /\ UNCHANGED Prompt!listVars
      BY <1>1, <1>5, <2>2, <3>1 DEF Waiting
    <3>2. CASE tasks' = tasks \ {t} /\ Prompt!Hide
      BY <1>6, <1>10, <3>2
    <3> QED
      BY <2>1, <3>1, <3>2
  <2> QED
    BY <1>3, <1>7, <1>9, <1>14, <1>26, <2>3 DEF Prompt!NoCandidates
<1>27. CASE Prompt!CompleteRaises
  BY <1>3, <1>5, <1>6, <1>7, <1>9, <1>14, <1>27 DEF Prompt!CompleteRaises
<1>28. CASE Prompt!Accept
  <2>1. items[index + 1] \in Prompt!Item
    BY <1>15, <1>28 DEF Prompt!Accept
  <2>2. PICK new : new = Prompt!Applied(text, items[index + 1])
                   /\ Prompt!SetText(Prompt!MinOf(new.text, MaxLen),
                                     Prompt!MinOf(new.cursor, MaxLen))
    BY <1>28 DEF Prompt!Accept
  <2>3. Input'
    BY <1>11, <1>13, <2>1, <2>2, AppliedIs
  <2> QED
    BY <1>6, <1>7, <1>9, <1>10, <1>14, <1>28, <2>3 DEF Prompt!Accept
<1>29. CASE Prompt!Highlight
  <2>1. Len(items) \in Nat \ {0} /\ index \in 0..Prompt!MaxOf(0, Len(items) - 1)
          /\ items \in Seq(Prompt!Item)
    BY <1>1, <1>15, <1>29 DEF Prompt!Highlight, List
  <2>2. index' \in {IF index = 0 THEN 0 ELSE index - 1,
          Prompt!MinOf(Len(items) - 1, index + 1)}
        /\ items' = items
    BY <1>29 DEF Prompt!Highlight
  <2>3. index' \in 0..Prompt!MaxOf(0, Len(items) - 1)
    BY <2>1, <2>2 DEF Prompt!MaxOf, Prompt!MinOf
  <2>4. List'
    BY <2>1, <2>2, <2>3 DEF List
  <2> QED
    BY <1>3, <1>6, <1>7, <1>9, <1>14, <1>29, <2>4 DEF Prompt!Highlight
<1>30. CASE Prompt!CloseList
  BY <1>3, <1>6, <1>7, <1>9, <1>10, <1>14, <1>30 DEF Prompt!CloseList
<1>31. CASE Prompt!Prev
  <2>1. at' \in 1..Len(history) /\ history' = history
    <3>1. history # <<>> /\ history' = history
          /\ at' = IF at = None THEN Len(history) ELSE Prompt!MaxOf(1, at - 1)
      BY <1>31 DEF Prompt!Prev, Prompt!Browses
    <3>2. CASE at = None
      BY <1>17, <3>1, <3>2
    <3>3. CASE at # None
      BY <1>17, <3>1, <3>3 DEF Prompt!MaxOf
    <3> QED
      BY <3>1, <3>2, <3>3
  <2>2. scratch' \in Prompt!Texts
    BY <1>13, <1>17, <1>31 DEF Prompt!Prev
  <2>3. Past'
    BY <1>1, <1>17, <2>1, <2>2 DEF Past
  <2>4. Input'
    BY <1>11, <1>17, <1>31, <2>1 DEF Prompt!Prev
  <2> QED
    BY <1>5, <1>6, <1>7, <1>14, <1>31, <2>3, <2>4 DEF Prompt!Prev
<1>32. CASE Prompt!Forward
  <2>1. at \in 1..Len(history) /\ history' = history /\ scratch' = scratch
    BY <1>17, <1>32 DEF Prompt!Forward
  <2>2. Input' /\ at' \in {None} \cup 1..Len(history)
    <3>1. CASE at < Len(history)
      <4>1. at + 1 \in 1..Len(history)
        BY <1>17, <2>1, <3>1
      <4>2. at' = at + 1 /\ Prompt!SetText(history[at + 1], history[at + 1])
        BY <1>32, <3>1 DEF Prompt!Forward
      <4> QED
        BY <1>11, <1>17, <4>1, <4>2
    <3>2. CASE ~(at < Len(history))
      <4>1. at' = None /\ Prompt!SetText(scratch, scratch)
        BY <1>32, <3>2 DEF Prompt!Forward
      <4> QED
        BY <1>11, <1>17, <4>1
    <3> QED
      BY <3>1, <3>2
  <2>3. Past'
    BY <1>1, <1>17, <2>1, <2>2 DEF Past
  <2> QED
    BY <1>5, <1>6, <1>7, <1>14, <1>32, <2>2, <2>3 DEF Prompt!Forward
<1>33. CASE Prompt!Submit
  <2>1. Sent'
    BY <1>16, <1>33 DEF Prompt!Submit, Sent
  <2>2. Past'
    <3>1. CASE owner = "console" /\ text # 0
      <4>1. history' = Prompt!Pushed(text) /\ at' = None /\ scratch' = 0
        BY <1>33, <3>1 DEF Prompt!Submit
      <4>2. Prompt!Pushed(text) \in Seq(Prompt!Texts \ {0})
              /\ Len(Prompt!Pushed(text)) <= MaxEntries
        BY <1>1, <1>13, <3>1, PushedIs DEF Past
      <4> QED
        BY <4>1, <4>2, TextIs DEF Past
    <3>2. CASE ~(owner = "console" /\ text # 0)
      BY <1>9, <1>33, <3>2 DEF Prompt!Submit
    <3> QED
      BY <3>1, <3>2
  <2> QED
    BY <1>3, <1>5, <1>6, <1>14, <1>33, <2>1, <2>2 DEF Prompt!Submit
<1>34. CASE Prompt!ConsoleSubmitted
  <2>1. Sent'
    BY <1>16, <1>34 DEF Prompt!ConsoleSubmitted, Sent
  <2> QED
    BY <1>6, <1>9, <1>12, <1>14, <1>34, <2>1 DEF Prompt!ConsoleSubmitted
<1>35. CASE Prompt!WatchSubmitted
  <2>1. Sent' /\ Input' /\ List'
    <3>1. submitted # <<>> /\ submitted' = Tail(submitted)
      BY <1>35 DEF Prompt!WatchSubmitted
    <3>2. CASE Prompt!IsNew(Head(submitted))
      <4>1. watches' = Append(watches, Head(submitted)) /\ Prompt!Clear
        BY <1>35, <3>2 DEF Prompt!WatchSubmitted
      <4>2. Append(watches, Head(submitted)) \in Seq(Prompt!Texts)
        BY <1>16, <3>1
      <4> QED
        BY <1>12, <1>16, <3>1, <4>1, <4>2 DEF Sent
    <3>3. CASE ~Prompt!IsNew(Head(submitted))
      <4>1. UNCHANGED <<watches, Prompt!inputVars, Prompt!listVars>>
        BY <1>35, <3>3 DEF Prompt!WatchSubmitted
      <4> QED
        BY <1>3, <1>5, <1>16, <3>1, <4>1 DEF Sent
    <3> QED
      BY <3>2, <3>3
  <2> QED
    BY <1>6, <1>9, <1>14, <1>35, <2>1 DEF Prompt!WatchSubmitted
<1>36. CASE Prompt!Cancel
  <2>1. Sent' /\ Waiting'
    BY <1>16, <1>36 DEF Prompt!Cancel, Sent, Waiting
  <2> QED
    BY <1>9, <1>12, <1>36, <2>1 DEF Prompt!Cancel
<1>37. CASE Prompt!DeleteWatch
  <2>1. Sent'
    BY <1>16, <1>37, WithoutIs DEF Prompt!DeleteWatch, Sent
  <2> QED
    BY <1>3, <1>5, <1>6, <1>9, <1>14, <1>37, <2>1 DEF Prompt!DeleteWatch
<1> QED
  BY <1>20, <1>21, <1>22, <1>23, <1>24, <1>25, <1>26, <1>27, <1>28, <1>29, <1>30, <1>31,
     <1>32, <1>33, <1>34, <1>35, <1>36, <1>37 DEF Prompt!Next


-----------------------------------------------------------------------------
(* The types of the source panel *)

(* What is found is somewhere in the text. *)
LEMMA FoundIs ==
  ASSUME Source!SourceAssumption, NEW f \in Files, NEW q \in Source!Queries,
         Source!Matches(f, q) # {}, NEW i
  PROVE  Source!FindNext(f, q, i) \in Nat /\ Source!FindPrev(f, q, i) \in Nat
<1>1. /\ Source!Matches(f, q) \subseteq Nat /\ Source!Length(f) \in Nat /\ q \in Nat
      /\ \A m \in Source!Matches(f, q) : m + q <= Source!Length(f)
  BY MatchesInText DEF Source!Queries
<1>2. ASSUME NEW S \in SUBSET Source!Matches(f, q), S # {} PROVE Source!Max(S) \in Nat
  <2>1. S \subseteq Nat /\ \A m \in S : m <= Source!Length(f)
    BY <1>1
  <2> QED
    BY <1>1, <1>2, <2>1, MaxIsGreatest
<1>3. Source!FindNext(f, q, i) \in Source!Matches(f, q)
  BY NextIsFound
<1> DEFINE before == {m \in Source!Matches(f, q) : m + q <= Source!MinOf(i, Source!Length(f))}
<1>4. Source!FindPrev(f, q, i) = Source!Max(IF before # {} THEN before
        ELSE Source!Matches(f, q))
  BY DEF Source!FindPrev
<1>5. before \in SUBSET Source!Matches(f, q)
  OBVIOUS
<1> HIDE DEF before
<1> QED
  BY <1>1, <1>2, <1>3, <1>4, <1>5

(* A position in the text is a row and a column. *)
LEMMA PlaceIs ==
  ASSUME Source!SourceAssumption, NEW m \in Nat
  PROVE  m \div (Width + 1) \in Nat /\ m % (Width + 1) \in Nat
<1>1. Width + 1 \in Nat \ {0}
  BY DEF Source!SourceAssumption
<1>2. \A w \in Nat \ {0} : m \div w \in Nat /\ m % w \in Nat
  OBVIOUS
<1> QED
  BY <1>1, <1>2

InText(e) ==
  /\ e \in [path : Files \cup {None}, row : Nat, col : Nat]
  /\ e.path # None => e.row < e.path /\ e.col <= Width

SourceTypes ==
  /\ Source!TypeOK /\ InText(editor)
  /\ loc.path # None => loc.line \in Source!Lines
  /\ changed \in Seq(Source!Queries \cup {0}) /\ value \in Source!Queries \cup {0}

LEMMA SourceTypesInit == ASSUME Source!SourceAssumption PROVE Source!Init => SourceTypes
<1> SUFFICES ASSUME Source!Init PROVE SourceTypes
  OBVIOUS
<1>1. 1 \in 1..(MaxLine + Width) /\ 0 \in 0..MaxPending
  BY DEF Source!SourceAssumption
<1>2. changed \in Seq(Source!Queries \cup {0}) /\ value \in Source!Queries \cup {0}
        /\ search = None
  BY DEF Source!Init
<1>3. /\ loc \in [path : Files \cup {None}, line : Source!Lines \cup {None},
           col : 1..(MaxLine + Width)]
      /\ loc.path = None
  BY <1>1 DEF Source!Init
<1>4. /\ editor \in [path : Files \cup {None}, row : Nat, col : Nat]
      /\ editor.path = None /\ known.path = None
  BY DEF Source!Init, Source!NoFile, Source!Unknown
<1>5. moved \in 0..MaxPending
  BY <1>1 DEF Source!Init
<1> QED
  BY <1>2, <1>3, <1>4, <1>5 DEF SourceTypes, Source!TypeOK, InText

(* The editor keeps its cursor inside the text. *)
LEMMA PlacedInText ==
  ASSUME Source!SourceAssumption, NEW e, InText(e), e.path # None, NEW r \in Nat,
         NEW col \in Nat
  PROVE  InText(Source!Placed(e, r, col)) /\ Source!Placed(e, r, col).path = e.path
<1>1. e.path \in Nat \ {0} /\ e.path \in Files /\ Width \in Nat
  <2>1. e.path \in Files
    BY DEF InText
  <2>2. Files \subseteq Nat \ {0} /\ Width \in Nat
    BY DEF Source!SourceAssumption
  <2> QED
    BY <2>1, <2>2
<1>2. Source!MinOf(r, e.path - 1) \in Nat /\ Source!MinOf(r, e.path - 1) < e.path
      /\ Source!MinOf(col, Width) \in Nat /\ Source!MinOf(col, Width) <= Width
  BY <1>1 DEF Source!MinOf
<1>3. /\ Source!Placed(e, r, col) \in [path : Files \cup {None}, row : Nat, col : Nat]
      /\ Source!Placed(e, r, col).path = e.path
      /\ Source!Placed(e, r, col).row = Source!MinOf(r, e.path - 1)
      /\ Source!Placed(e, r, col).col = Source!MinOf(col, Width)
  BY <1>2 DEF Source!Placed, InText
<1> QED
  BY <1>1, <1>2, <1>3 DEF InText

LEMMA TargetIs ==
  ASSUME Source!SourceAssumption, NEW path \in Nat, NEW l \in Nat \ {0}, NEW c \in Nat \ {0}
  PROVE  Source!Target(path, l, c).row \in Nat /\ Source!Target(path, l, c).col \in Nat
<1>1. Width \in Nat /\ l - 1 \in Nat /\ c - 1 \in Nat
  BY DEF Source!SourceAssumption
<1>2. Source!MinOf(c - 1, Width) \in Nat
  BY <1>1 DEF Source!MinOf
<1> QED
  BY <1>1, <1>2 DEF Source!Target

IsPlace(path, line, col) ==
  /\ path \in Files \cup {None} /\ line \in Source!Lines \cup {None}
       /\ col \in 1..(MaxLine + Width)
  /\ path # None => line \in Source!Lines

(* A new location of the store, whatever the file on disk has of it *)
LEMMA UpdateTypes ==
  ASSUME Source!SourceAssumption, SourceTypes, Source!Room, UNCHANGED Source!findVars,
         NEW path, NEW line, NEW col, Source!Update(path, line, col), IsPlace(path, line, col)
  PROVE  SourceTypes'
<1>1. /\ loc' = [path |-> path, line |-> line, col |-> col]
      /\ loc' \in [path : Files \cup {None}, line : Source!Lines \cup {None},
           col : 1..(MaxLine + Width)]
      /\ loc'.path # None => loc'.line \in Source!Lines
  BY DEF Source!Update, IsPlace
<1>2. PICK readable \in BOOLEAN : Source!Shows(path, line, col, readable)
  BY DEF Source!Update
<1>3. moved \in Nat /\ moved + 2 <= MaxPending /\ MaxPending \in Nat
  BY DEF SourceTypes, Source!TypeOK, Source!Room, Source!SourceAssumption
<1>4. \A e, f : Source!Differs(e, f) \in {0, 1}
  BY DEF Source!Differs
<1>5. UNCHANGED <<search, changed, value>>
  BY DEF Source!findVars
<1>6. /\ InText(editor') /\ known'.path = editor'.path
      /\ moved' \in 0..MaxPending
  <2>1. CASE path = None \/ (path # known.path /\ ~readable)
    <3>1. editor' = Source!NoFile /\ known' = Source!Unknown
            /\ moved' = moved + Source!Differs(editor, Source!NoFile)
      BY <1>2, <2>1 DEF Source!Shows
    <3>2. InText(Source!NoFile) /\ Source!Unknown.path = Source!NoFile.path
      BY DEF InText, Source!NoFile, Source!Unknown
    <3>3. moved' \in 0..MaxPending
      BY <1>3, <1>4, <3>1
    <3> QED
      BY <3>1, <3>2, <3>3
  <2>2. CASE ~(path = None \/ (path # known.path /\ ~readable))
    <3> DEFINE news == path # known.path
               from == IF news THEN [path |-> path, row |-> 0, col |-> 0] ELSE editor
               moves == news \/ Source!IsNews(line, col)
               t == Source!Target(path, line, col)
               to == IF moves THEN Source!Placed(from, t.row, t.col) ELSE from
    <3>1. /\ editor' = to /\ known'.path = path
          /\ moved' = moved + Source!Differs(editor, from) + Source!Differs(from, to)
      BY <1>2, <2>2 DEF Source!Shows
    <3>2. path \in Files /\ path \in Nat \ {0} /\ line \in Nat \ {0} /\ col \in Nat \ {0}
            /\ path # None
      BY <2>2 DEF IsPlace, Source!SourceAssumption, Source!Lines
    <3>3. t.row \in Nat /\ t.col \in Nat
      BY <3>2, TargetIs
    <3>4. InText(from) /\ from.path = path
      <4>1. CASE news
        <5>1. from = [path |-> path, row |-> 0, col |-> 0]
          BY <4>1
        <5>2. Width \in Nat
          BY DEF Source!SourceAssumption
        <5> HIDE DEF from
        <5> QED
          BY <3>2, <5>1, <5>2 DEF InText
      <4>2. CASE ~news
        BY <4>2 DEF SourceTypes, Source!TypeOK
      <4> QED
        BY <4>1, <4>2
    <3> HIDE DEF from, t
    <3>5. InText(to) /\ to.path = path
      BY <3>2, <3>3, <3>4, PlacedInText
    <3> HIDE DEF to
    <3>6. moved' \in 0..MaxPending
      <4>1. Source!Differs(editor, from) \in {0, 1} /\ Source!Differs(from, to) \in {0, 1}
        BY <1>4
      <4> QED
        BY <1>3, <3>1, <4>1
    <3> QED
      BY <3>1, <3>5, <3>6
  <2> QED
    BY <2>1, <2>2
<1>7. editor'.path \in Files \cup {None}
      /\ (editor'.path # None => editor'.row < editor'.path /\ editor'.col <= Width)
  BY <1>6 DEF InText
<1> QED
  BY <1>1, <1>5, <1>6, <1>7 DEF SourceTypes, Source!TypeOK, InText

(* A move of the cursor, by a key or by a search *)
LEMMA MoveTypes ==
  ASSUME Source!SourceAssumption, SourceTypes, Source!Room, editor.path # None, NEW r \in Nat,
         NEW col \in Nat,
         Source!MoveTo(r, col), UNCHANGED <<loc, known, changed, value>>,
           search' \in Source!Queries \cup {None}
  PROVE  SourceTypes'
<1> DEFINE to == Source!Placed(editor, r, col)
<1>1. editor' = to /\ moved' = moved + Source!Differs(editor, to)
  BY DEF Source!MoveTo
<1>2. InText(to) /\ to.path = editor.path
  BY PlacedInText DEF SourceTypes
<1>3. moved \in Nat /\ moved + 2 <= MaxPending /\ MaxPending \in Nat
  BY DEF SourceTypes, Source!TypeOK, Source!Room, Source!SourceAssumption
<1> HIDE DEF to
<1>4. moved' \in 0..MaxPending
  BY <1>1, <1>3 DEF Source!Differs
<1> QED
  BY <1>1, <1>2, <1>4 DEF SourceTypes, Source!TypeOK, InText

LEMMA FindTypes ==
  ASSUME Source!SourceAssumption, SourceTypes, Source!Room, NEW q \in Source!Queries,
         Source!Searches(q), NEW i,
         Source!Find(Source!FindNext(editor.path, q, i))
           \/ Source!Find(Source!FindPrev(editor.path, q, i)),
         UNCHANGED <<loc, known, changed, value>>, search' \in Source!Queries \cup {None}
  PROVE  SourceTypes'
<1>1. editor.path # None /\ editor.path \in Files /\ Source!Matches(editor.path, q) # {}
  BY DEF Source!Searches, SourceTypes, Source!TypeOK
<1>2. PICK m \in Nat : Source!Find(m)
  BY <1>1, FoundIs
<1> QED
  BY <1>1, <1>2, PlaceIs, MoveTypes DEF Source!Find

(* Each step of the source panel *)
LEMMA SourceTypesStep ==
  ASSUME Source!SourceAssumption, SourceTypes, [Source!Next]_Source!vars
  PROVE  SourceTypes'
<1>1. /\ MaxLine \in Nat \ {0} /\ Width \in Nat /\ MaxPending \in Nat
      /\ Files \subseteq 1..MaxLine
  BY DEF Source!SourceAssumption
<1>2. 1 \in 1..(MaxLine + Width) /\ Source!Lines \subseteq 1..(MaxLine + Width)
  BY <1>1 DEF Source!Lines
<1>3. CASE UNCHANGED Source!vars
  BY <1>3 DEF Source!vars, Source!findVars, SourceTypes, Source!TypeOK, InText
<1>4. ASSUME NEW f \in Files, NEW l \in Source!Lines, Source!Located(f, l) PROVE SourceTypes'
  <2>1. IsPlace(f, l, 1)
    BY <1>2 DEF IsPlace
  <2> QED
    BY <1>4, <2>1, UpdateTypes DEF Source!Located
<1>5. CASE Source!Unlocated
  <2>1. IsPlace(None, None, 1)
    BY <1>2 DEF IsPlace
  <2> QED
    BY <1>5, <2>1, UpdateTypes DEF Source!Unlocated
<1>6. CASE Source!Notified
  <2>1. IsPlace(loc.path, loc.line, loc.col)
    BY DEF IsPlace, SourceTypes, Source!TypeOK
  <2> QED
    BY <1>6, <2>1, UpdateTypes DEF Source!Notified
<1>7. ASSUME NEW l \in Source!Lines, NEW c \in Source!Lines, Source!Goto(l, c)
             PROVE SourceTypes'
  <2>1. IsPlace(loc.path, l, c)
    BY <1>2 DEF IsPlace, SourceTypes, Source!TypeOK
  <2> QED
    BY <1>7, <2>1, UpdateTypes DEF Source!Goto
<1>8. ASSUME NEW l \in Source!Lines, Source!GutterClick(l) PROVE SourceTypes'
  <2>1. IsPlace(editor.path, l, 1)
    BY <1>2 DEF IsPlace, SourceTypes, Source!TypeOK
  <2> QED
    BY <1>8, <2>1, UpdateTypes DEF Source!GutterClick
<1>9. ASSUME NEW r \in Source!Lines, NEW c \in 0..Width, Source!MoveCursor(r - 1, c)
             PROVE SourceTypes'
  <2>1. r - 1 \in Nat /\ c \in Nat
    BY <1>1 DEF Source!Lines
  <2> QED
    BY <1>9, <2>1, MoveTypes DEF Source!MoveCursor, Source!findVars, SourceTypes, Source!TypeOK
<1>10. CASE Source!CursorMoved
  <2>1. moved' \in 0..MaxPending /\ UNCHANGED <<editor, Source!findVars>>
    <3>1. moved \in 0..MaxPending /\ moved > 0 /\ moved' = moved - 1
      BY <1>10 DEF Source!CursorMoved, SourceTypes, Source!TypeOK
    <3> QED
      BY <1>1, <1>10, <3>1 DEF Source!CursorMoved
  <2>2. CASE editor.path = None
    <3>1. UNCHANGED <<loc, known>>
      BY <1>10, <2>2 DEF Source!CursorMoved
    <3> QED
      BY <2>1, <3>1 DEF SourceTypes, Source!TypeOK, Source!findVars, InText
  <2>3. CASE editor.path # None
    <3>1. loc' = Source!Here /\ known' = Source!Here
      BY <1>10, <2>3 DEF Source!CursorMoved
    <3>2. editor.path \in Files /\ editor.row \in Nat /\ editor.col \in Nat
          /\ editor.row < editor.path /\ editor.col <= Width
      BY <2>3 DEF SourceTypes, InText
    <3>3. editor.row + 1 \in Source!Lines /\ editor.col + 1 \in 1..(MaxLine + Width)
      <4>1. editor.path \in 1..MaxLine
        BY <1>1, <3>2
      <4> DEFINE p == editor.path
                 r == editor.row
                 c == editor.col
      <4>2. p \in 1..MaxLine /\ r \in Nat /\ c \in Nat /\ r < p /\ c <= Width
        BY <3>2, <4>1
      <4> HIDE DEF p, r, c
      <4>3. r + 1 \in 1..MaxLine /\ c + 1 \in 1..(MaxLine + Width)
        BY <1>1, <4>2
      <4> QED
        BY <4>3 DEF p, r, c, Source!Lines
    <3>4. /\ Source!Here \in [path : Files \cup {None}, line : Source!Lines \cup {None},
               col : 1..(MaxLine + Width)]
          /\ Source!Here.path = editor.path /\ Source!Here.line \in Source!Lines
      BY <3>2, <3>3 DEF Source!Here
    <3> QED
      BY <2>1, <3>1, <3>4 DEF SourceTypes, Source!TypeOK, Source!findVars, InText
  <2> QED
    BY <2>2, <2>3
<1>11. CASE Source!OpenFind \/ Source!CloseFind
  BY <1>11 DEF Source!OpenFind, Source!CloseFind, SourceTypes, Source!TypeOK, InText
<1>12. ASSUME NEW q \in Source!Queries \cup {0}, Source!TypeQuery(q) PROVE SourceTypes'
  <2>1. <<q>> \in Seq(Source!Queries \cup {0})
    OBVIOUS
  <2> QED
    BY <1>12, <2>1 DEF Source!TypeQuery, SourceTypes, Source!TypeOK, InText
<1>13. CASE Source!QueryChanged
  <2>1. changed \in Seq(Source!Queries \cup {0}) /\ changed # <<>>
    BY <1>13 DEF Source!QueryChanged, SourceTypes
  <2>2. Tail(changed) \in Seq(Source!Queries \cup {0})
          /\ Head(changed) \in Source!Queries \cup {0}
    BY <2>1
  <2> QED
    BY <1>13, <2>2 DEF Source!QueryChanged, SourceTypes, Source!TypeOK, InText
<1>14. CASE Source!Debounced
  <2>1. search \in Source!Queries /\ search' = None
          /\ UNCHANGED <<loc, known, changed, value>> /\ Source!Room
    BY <1>14 DEF Source!Debounced, SourceTypes, Source!TypeOK
  <2>2. CASE open /\ value = search /\ Source!Searches(value)
    <3> DEFINE here == Source!Index(editor.row, editor.col)
    <3>1. CASE here \in Source!Matches(editor.path, value)
      <4>1. Source!Find(here)
        BY <1>14, <2>2, <3>1 DEF Source!Debounced
      <4>2. editor.path # None /\ editor.row \in Nat /\ editor.col \in Nat
        BY <2>2 DEF Source!Searches, SourceTypes, InText
      <4>3. here \in Nat
        <5>1. \A a, b \in Nat : a * b \in Nat
          OBVIOUS
        <5>2. editor.row * (Width + 1) \in Nat
          BY <1>1, <4>2, <5>1
        <5> QED
          BY <4>2, <5>2 DEF Source!Index
      <4> QED
        BY <2>1, <4>1, <4>2, <4>3, PlaceIs, MoveTypes DEF Source!Find
    <3>2. CASE here \notin Source!Matches(editor.path, value)
      <4>1. Source!Find(Source!FindNext(editor.path, value, here))
        BY <1>14, <2>2, <3>2 DEF Source!Debounced
      <4> QED
        BY <2>1, <2>2, <4>1, FindTypes
    <3> QED
      BY <3>1, <3>2
  <2>3. CASE ~(open /\ value = search /\ Source!Searches(value))
    BY <1>14, <2>1, <2>3 DEF Source!Debounced, SourceTypes, Source!TypeOK, InText
  <2> QED
    BY <2>2, <2>3
<1>15. CASE Source!FindAgain
  <2>1. value \in Source!Queries
    BY <1>15 DEF Source!FindAgain, SourceTypes
  <2> QED
    BY <1>15, <2>1, FindTypes DEF Source!FindAgain, Source!findVars, SourceTypes, Source!TypeOK
<1> QED
  BY <1>3, <1>4, <1>5, <1>6, <1>7, <1>8, <1>9, <1>10, <1>11, <1>12, <1>13, <1>14, <1>15
     DEF Source!Next

-----------------------------------------------------------------------------
(* The types of the dialogs *)

PickTypes == Pick!TypeOK /\ PInv

(* A row that is listed, and the one that is highlighted of a list that is *)
(* filled anew.                                                            *)
LEMMA RowsAre ==
  ASSUME NEW k \in Pick!Kinds, NEW ents \in SUBSET Pick!Entries, NEW fnd \in SUBSET Items, NEW q
  PROVE  /\ Pick!Rows(k, ents, fnd, q) \subseteq Pick!Row
         /\ Pick!Refilled(k, ents, fnd, q) => light' \in Pick!Row \cup {None}
<1>1. Pick!FromHistory(k, ents, fnd) \subseteq Pick!Entries
  BY DEF Pick!FromHistory, Pick!Kinds
<1>2. Pick!Rows(k, ents, fnd, q) \subseteq Pick!Row
  BY <1>1 DEF Pick!Rows, Pick!Row, Pick!Entries
<1>3. Pick!First(k, ents, fnd, q) \subseteq Pick!Row \cup {None}
  BY <1>2 DEF Pick!First
<1> QED
  BY <1>2, <1>3 DEF Pick!Refilled

LEMMA PickTypesInit == ASSUME Pick!PickersAssumption PROVE Pick!Init => PickTypes
<1> SUFFICES ASSUME Pick!Init PROVE PickTypes
  OBVIOUS
<1>1. Pick!NoQuery \in [text : Pick!Texts, matches : SUBSET Pick!Entries]
  BY DEF Pick!NoQuery, Pick!Texts
<1>2. 0 \in 0..MaxScans
  BY DEF Pick!PickersAssumption
<1> QED
  BY <1>1, <1>2, PInit DEF Pick!Init, PickTypes, Pick!TypeOK

LEMMA TakesTypes ==
  ASSUME Pick!PickersAssumption, PickTypes, kind # "none", NEW what, Pick!Takes(what)
  PROVE  Pick!TypeOK'
<1>1. Pick!NoQuery \in [text : Pick!Texts, matches : SUBSET Pick!Entries]
  BY DEF Pick!NoQuery, Pick!Texts
<1>2. 0 \in 0..MaxScans
  BY DEF Pick!PickersAssumption
<1>3. CASE what \in Items
  <2>1. Pick!Starts(what) /\ kind \in Pick!Kinds
    BY <1>3 DEF Pick!Takes, PickTypes, Pick!TypeOK
  <2>2. infer' \in Items \cup {None}
    BY <1>3, <2>1 DEF Pick!Starts
  <2>3. \/ started' = None
        \/ started' = [how |-> kind, what |-> what] /\ kind # "attach"
        \/ started' = [how |-> "connect", what |-> what]
    BY <2>1 DEF Pick!Starts
  <2>4. started' \in {None} \cup
                     [how : {"connect", "launch", "safe_attach", "attach"}, what : Items]
    BY <1>3, <2>1, <2>3 DEF Pick!Kinds
  <2> QED
    BY <1>1, <1>2, <2>1, <2>2, <2>4 DEF Pick!Starts, Pick!Closed, Pick!TypeOK
<1>4. CASE what \notin Items
  BY <1>4 DEF Pick!Takes, Pick!vars, Pick!scanVars, PickTypes, Pick!TypeOK
<1> QED
  BY <1>3, <1>4

(* Each step of a dialog *)
LEMMA PickTypesStep ==
  ASSUME Pick!PickersAssumption, PickTypes, [Pick!Next]_Pick!vars
  PROVE  PickTypes'
<1>1. PInv'
  BY PStep DEF PickTypes
<1> SUFFICES Pick!TypeOK'
  BY <1>1 DEF PickTypes
<1>2. /\ Pick!TypeOK /\ PInv /\ MaxScans \in Nat \ {0}
      /\ found \in SUBSET Items /\ entries \in SUBSET Pick!Entries
  BY DEF PickTypes, PInv, Pick!PickersAssumption
<1>3. kind # "none" => kind \in Pick!Kinds
  BY <1>2 DEF Pick!TypeOK
<1>4. CASE UNCHANGED Pick!vars
  BY <1>2, <1>4 DEF Pick!vars, Pick!scanVars, Pick!TypeOK
<1>5. ASSUME NEW k \in Pick!Kinds, Pick!Open(k) PROVE Pick!TypeOK'
  <2>1. 1 \in 1..MaxScans /\ 1 \in 0..MaxScans
    BY <1>2
  <2>2. entries' \in SUBSET Pick!Entries
    BY <1>5 DEF Pick!Open
  <2>3. light' \in Pick!Row \cup {None}
    BY <1>5, <2>2, RowsAre DEF Pick!Open
  <2> QED
    BY <1>2, <1>5, <2>1, <2>2, <2>3 DEF Pick!Open, Pick!TypeOK
<1>6. CASE Pick!Refresh
  <2>1. latest + 1 \in 1..MaxScans /\ latest + 1 \in 0..MaxScans
    BY <1>2, <1>6 DEF Pick!Refresh, Pick!TypeOK
  <2>2. scans' \subseteq 1..MaxScans
    BY <1>2, <1>6, <2>1 DEF Pick!Refresh, Pick!ScansLeft, Pick!TypeOK
  <2>3. light' \in Pick!Row \cup {None}
    <3>1. CASE kind = "connect"
      BY <1>2, <1>6, <3>1, RowsAre DEF Pick!Refresh, Pick!Kinds
    <3>2. CASE kind # "connect"
      BY <1>2, <1>6, <3>2 DEF Pick!Refresh, Pick!TypeOK
    <3> QED
      BY <3>1, <3>2
  <2> QED
    BY <1>2, <1>6, <2>1, <2>2, <2>3 DEF Pick!Refresh, Pick!TypeOK
<1>7. ASSUME NEW s \in scans, NEW result \in SUBSET Items, Pick!ScanEnds(s, result)
      PROVE  Pick!TypeOK'
  <2>1. kind \in Pick!Kinds
    BY <1>2, <1>3 DEF PInv, ScanInv
  <2>2. found' \subseteq Items /\ light' \in Pick!Row \cup {None}
    <3>1. CASE found' = result /\ Pick!Refilled(kind, entries, result, query)
      BY <1>2, <2>1, <3>1, RowsAre
    <3>2. CASE UNCHANGED <<found, light>>
      BY <1>2, <3>2 DEF Pick!TypeOK
    <3> QED
      BY <1>7, <3>1, <3>2 DEF Pick!ScanEnds
  <2> QED
    BY <1>2, <1>7, <2>2 DEF Pick!ScanEnds, Pick!TypeOK
<1>8. ASSUME NEW t \in Pick!Texts, Pick!Type(t) PROVE Pick!TypeOK'
  <2>1. light' \in Pick!Row \cup {None}
    BY <1>2, <1>3, <1>8, RowsAre DEF Pick!Type
  <2>2. query' \in [text : Pick!Texts, matches : SUBSET Pick!Entries]
    BY <1>8 DEF Pick!Type
  <2> QED
    BY <1>2, <1>8, <2>1, <2>2 DEF Pick!Type, Pick!TypeOK, Pick!scanVars
<1>9. CASE Pick!Highlight
  <2>1. light' \in Pick!Row
    BY <1>2, <1>9, RowsAre DEF Pick!Highlight, Pick!Kinds
  <2> QED
    BY <1>2, <1>9, <2>1 DEF Pick!Highlight, Pick!TypeOK, Pick!scanVars
<1>10. CASE Pick!SubmitAttach
  BY <1>10, TakesTypes DEF Pick!SubmitAttach
<1>11. CASE Pick!Submit
  BY <1>11, TakesTypes DEF Pick!Submit
<1>12. CASE Pick!Select
  BY <1>12, TakesTypes DEF Pick!Select
<1>13. CASE Pick!Escape
  <2>1. Pick!NoQuery \in [text : Pick!Texts, matches : SUBSET Pick!Entries] /\ 0 \in 0..MaxScans
    BY <1>2 DEF Pick!NoQuery, Pick!Texts
  <2> QED
    BY <1>2, <1>13, <2>1 DEF Pick!Escape, Pick!Closed, Pick!TypeOK
<1>14. CASE Pick!Inferred
  BY <1>2, <1>14 DEF Pick!Inferred, Pick!TypeOK, Pick!scanVars
<1> QED
  BY <1>4, <1>5, <1>6, <1>7, <1>8, <1>9, <1>10, <1>11, <1>12, <1>13, <1>14 DEF Pick!Next

-----------------------------------------------------------------------------
(* The types of a command and of the history *)

LaunchTypes == LInv /\ Launch!TypeOK

LEMMA LaunchTypesInit == Launch!Init => LaunchTypes
BY LInit DEF Launch!Init, Launch!Refused, LaunchTypes, LInv, Launch!TypeOK

LEMMA LaunchTypesStep == LaunchTypes /\ [Launch!Next]_Launch!vars => LaunchTypes'
<1> SUFFICES ASSUME LaunchTypes, [Launch!Next]_Launch!vars PROVE LaunchTypes'
  OBVIOUS
<1>1. LInv'
  BY LStep DEF LaunchTypes
<1>2. Launch!UvRun.ok \in BOOLEAN
  BY DEF Launch!UvRun, Launch!Refused
<1>3. spec' \in {spec, Launch!UvRun, Launch!Refused}
  BY DEF Launch!Next, Launch!Type, Launch!Parse, Launch!vars
<1>4. spec.ok \in BOOLEAN /\ Launch!Refused.ok \in BOOLEAN
  BY DEF LaunchTypes, Launch!TypeOK, Launch!Refused
<1>5. spec'.ok \in BOOLEAN
  BY <1>2, <1>3, <1>4
<1> QED
  BY <1>1, <1>5 DEF LaunchTypes, LInv, Launch!TypeOK

LEMMA HistoryTypes == ASSUME HInv PROVE TypeOK
<1>1. file = Torn \/ file \subseteq Entries
  BY DEF HInv, ListInv
<1>2. ASSUME NEW p \in Procs
      PROVE  proc[p] = Idle \/ (proc[p].at \in {"write", "replace"} /\
                                (proc[p].list = Torn \/ proc[p].list \subseteq Entries))
  BY DEF HInv, ProcInv
<1> QED
  BY <1>1, <1>2 DEF HInv, TypeOK

-----------------------------------------------------------------------------
(* A step of the whole, for each part *)

LEMMA HistorySteps == [PanelsNext]_PanelsVars => [Next]_vars
  BY DEF PanelsNext, PanelsVars

LEMMA InspectorSteps == [PanelsNext]_PanelsVars => [Insp!Next]_Insp!vars
  BY DEF PanelsNext, PanelsVars, inspectorVars, Insp!vars, Insp!storeVars, Insp!panelVars,
         Insp!history

LEMMA PromptSteps == [PanelsNext]_PanelsVars => [Prompt!Next]_Prompt!vars
  BY DEF PanelsNext, PanelsVars, promptVars, Prompt!vars, Prompt!inputVars, Prompt!listVars,
         Prompt!histVars

LEMMA GraphSteps == [PanelsNext]_PanelsVars => [Graph!Next]_Graph!vars
  BY DEF PanelsNext, PanelsVars, graphVars, Graph!vars, Graph!world

LEMMA SourceSteps == [PanelsNext]_PanelsVars => [Source!Next]_Source!vars
  BY DEF PanelsNext, PanelsVars, sourceVars, Source!vars, Source!findVars

LEMMA PickersSteps == [PanelsNext]_PanelsVars => [Pick!Next]_Pick!vars
  BY DEF PanelsNext, PanelsVars, pickersVars, Pick!vars, Pick!scanVars

LEMMA LaunchSteps == [PanelsNext]_PanelsVars => [Launch!Next]_Launch!vars
  BY DEF PanelsNext, PanelsVars, launchVars, Launch!vars

LEMMA TracebackSteps == [PanelsNext]_PanelsVars => [Trace!Next]_Trace!vars
  BY DEF PanelsNext, PanelsVars, tracebackVars, Trace!vars

-----------------------------------------------------------------------------
(* The invariants of the parts, in behaviours of the whole *)

LEMMA InspectorInvariance == PanelsSpec => []Insp!IInv
<1>1. PanelsInit => Insp!IInv
  BY Insp!IInit, PanelsAssumption DEF PanelsInit
<1>2. Insp!IInv /\ [PanelsNext]_PanelsVars => Insp!IInv'
  BY InspectorSteps, Insp!IStep, PanelsAssumption
<1> QED
  BY <1>1, <1>2, PTL DEF PanelsSpec

LEMMA SourceInvariance == PanelsSpec => []SVInv
<1>1. PanelsInit => SVInv
  BY SVInit DEF PanelsInit
<1>2. SVInv /\ [PanelsNext]_PanelsVars => SVInv'
  BY SourceSteps, SVStep, PanelsAssumption
<1> QED
  BY <1>1, <1>2, PTL DEF PanelsSpec

LEMMA PickersInvariance == PanelsSpec => []PInv
<1>1. PanelsInit => PInv
  BY PInit DEF PanelsInit
<1>2. PInv /\ [PanelsNext]_PanelsVars => PInv'
  BY PickersSteps, PStep, PanelsAssumption
<1> QED
  BY <1>1, <1>2, PTL DEF PanelsSpec

-----------------------------------------------------------------------------
(* The theorems *)

(* However the pushes of any number of processes interleave, wherever one  *)
(* is killed and whatever the clock does, the file is a history with no    *)
(* command twice and at most max_entries entries, unless a write was cut   *)
(* short.                                                                  *)
THEOREM FileStaysWhole == PanelsSpec => []HistoryIsWhole
<1>1. PanelsInit => HInv
  BY HInit DEF PanelsInit
<1>2. HInv /\ [PanelsNext]_PanelsVars => HInv'
  BY HistorySteps, HStep
<1>3. HInv => HistoryIsWhole
  BY DEF HInv, ListInv, HistoryIsWhole
<1> QED
  BY <1>1, <1>2, <1>3, PTL DEF PanelsSpec

(* The lists of variables that are shown have no gap and no repetition,    *)
(* and are complete where no more is offered, for any length of the lists  *)
(* and any interleaving of pages, expansions, edits and stops.             *)
THEOREM ListsStayWhole == PanelsSpec => []ListsAreWhole
<1>1. Insp!IInv => ListsAreWhole
  BY Insp!IWhole DEF ListsAreWhole
<1> QED
  BY <1>1, InspectorInvariance, PTL

(* No variables of an earlier stop or of another scope are kept below the  *)
(* scope that is shown, however late an answer comes.                      *)
THEOREM LateAnswersAreDropped == PanelsSpec => []NothingOfEarlierStop
<1>1. Insp!IInv => NothingOfEarlierStop
  BY Insp!IThisStop DEF NothingOfEarlierStop
<1> QED
  BY <1>1, InspectorInvariance, PTL

(* The store, the panel and the table have the same scope, and the Select  *)
(* shows it or what its last pending message says, whatever updates of the *)
(* store set the Select back in between.                                   *)
THEOREM ScopesAgree == PanelsSpec => []SelectionAgrees
<1>1. Insp!IInv => SelectionAgrees
  BY Insp!IAgrees, PanelsAssumption DEF SelectionAgrees
<1> QED
  BY <1>1, InspectorInvariance, PTL

(* A scope that is not loaded is being loaded or its request has failed.   *)
THEOREM ScopesAreLoaded == PanelsSpec => []NoStuckLoading
<1>1. Insp!IInv => NoStuckLoading
  BY Insp!IAgrees, PanelsAssumption DEF NoStuckLoading
<1> QED
  BY <1>1, InspectorInvariance, PTL

(* A list of completions that is shown answers the last request, however   *)
(* late the answers of earlier ones come.                                  *)
THEOREM ListAnswersLast == PanelsSpec => []ListIsLatest
<1>1. PanelsInit => CompletionInv
  BY CompletionInit DEF PanelsInit
<1>2. CompletionInv /\ [PanelsNext]_PanelsVars => CompletionInv'
  BY PromptSteps, CompletionStep
<1>3. CompletionInv => ListIsLatest
  BY DEF CompletionInv, ListIsLatest
<1> QED
  BY <1>1, <1>2, <1>3, PTL DEF PanelsSpec

(* Once the messages of the editor are handled its cursor is where the     *)
(* store says, in any interleaving of stops, jumps, searches and keys.     *)
THEOREM CursorFollows == PanelsSpec => []CursorAgrees
<1>1. SVInv => CursorAgrees
  BY DEF SVInv, StandsFor, Source!CursorAgrees, CursorAgrees
<1> QED
  BY <1>1, SourceInvariance, PTL

(* "Scanning" is shown exactly while the scan that was started last runs,  *)
(* or for good once a scan of the processes has raised, and no result of a *)
(* scan that was replaced is ever listed.                                  *)
THEOREM ScanningIsTrue == PanelsSpec => []ScanIsShown
<1>1. PInv => ScanIsShown
  BY DEF PInv, ScanInv, Pick!ScanIsShown, ScanIsShown
<1> QED
  BY <1>1, PickersInvariance, PTL

(* What Enter would take is the row that is highlighted in the list of     *)
(* now, and no endpoint is listed twice, for any history and any results.  *)
THEOREM ListStaysCurrent == PanelsSpec => []ListIsCurrent
<1>1. PInv => ListIsCurrent
  BY PCurrent, PanelsAssumption DEF ListIsCurrent
<1> QED
  BY <1>1, PickersInvariance, PTL

(* Searching on passes every match of the query, both ways, wherever the   *)
(* cursor is, for any file and any query whose matches do not overlap.     *)
THEOREM EveryMatchPassed == PanelsSpec => []EveryMatchIsPassed
<1>1. SVInv => EveryMatchIsPassed
  <2> SUFFICES ASSUME editor.path # None, SVInv PROVE EveryMatchIsPassed
    BY DEF EveryMatchIsPassed, Source!EveryMatchIsPassed
  <2>1. editor.path \in Files
    BY DEF SVInv
  <2> QED
    BY <2>1, FindGoesAround, PanelsAssumption DEF EveryMatchIsPassed
<1> QED
  BY <1>1, SourceInvariance, PTL

(* Nothing that was typed is lost or moved on the way to debugpy, and no   *)
(* option of run is cut off from its value, for a command of any length.   *)
THEOREM CommandIsKept == PanelsSpec => []ArgsKept
<1>1. PanelsInit => LInv
  BY LInit DEF PanelsInit
<1>2. LInv /\ [PanelsNext]_PanelsVars => LInv'
  BY LaunchSteps, LStep
<1>3. LInv => ArgsKept
  BY DEF LInv
<1> QED
  BY <1>1, <1>2, <1>3, PTL DEF PanelsSpec

LEMMA GraphInvariance == PanelsSpec => []Graph!GraphInv
<1>1. PanelsInit => Graph!GraphInv
  BY Graph!GraphInit DEF PanelsInit
<1>2. Graph!GraphInv /\ [PanelsNext]_PanelsVars => Graph!GraphInv'
  BY GraphSteps, Graph!GraphStep, PanelsAssumption
<1> QED
  BY <1>1, <1>2, PTL DEF PanelsSpec

(* The two directions of the edges of a graph that is shown are one        *)
(* relation, its tree has every task but those behind a cycle that no root *)
(* leads to, and the cycles reported are the simple cycles that its roots  *)
(* lead to: for any number of tasks that await each other in any way and   *)
(* with whatever was wrong with the capture.                               *)
THEOREM GraphStaysWhole == PanelsSpec => []GraphIsWhole
<1>1. Graph!GraphInv => GraphIsWhole
  BY Graph!BuiltIsWhole, Graph!BuiltReports, PanelsAssumption DEF Graph!GraphInv, GraphIsWhole
<1> QED
  BY <1>1, GraphInvariance, PTL

(* Whatever exception is raised, a chain of causes and contexts of any     *)
(* length or groups of one or two inside groups to any depth, the panel    *)
(* names it and, where there is a text, shows all of it but the frames of  *)
(* an outermost group, each exception and each other frame below what it   *)
(* belongs to, unless one rule of the text closes two groups.              *)
THEOREM TreeIsReadBack == PanelsSpec => []TreeIsRead
<1>1. PanelsInit => Trace!TreeInv
  BY Trace!TreeInit, PanelsAssumption DEF PanelsInit
<1>2. Trace!TreeInv /\ [PanelsNext]_PanelsVars => Trace!TreeInv'
  BY TracebackSteps, Trace!TreeStep, PanelsAssumption
<1>3. Trace!TreeInv => TreeIsRead
  BY Trace!TreeShown, PanelsAssumption DEF TreeIsRead
<1> QED
  BY <1>1, <1>2, <1>3, PTL DEF PanelsSpec

(* The variables of every part keep their types, whatever its part does    *)
(* and for any values of the constants.                                    *)
THEOREM TypesAreRight == PanelsSpec => []PanelsTypeOK
<1> DEFINE Types == /\ part \in Parts /\ HInv /\ Insp!IInv /\ Graph!GraphInv /\ PromptTypes
                    /\ SourceTypes /\ PickTypes /\ LaunchTypes /\ Trace!TreeInv
<1>1. PanelsInit => Types
  BY HInit, Insp!IInit, Graph!GraphInit, PromptTypesInit, SourceTypesInit, PickTypesInit,
     LaunchTypesInit, Trace!TreeInit, PanelsAssumption DEF PanelsInit
<1>2. Types /\ [PanelsNext]_PanelsVars => Types'
  <2> SUFFICES ASSUME Types, [PanelsNext]_PanelsVars PROVE Types'
    OBVIOUS
  <2>1. part' \in Parts
    BY DEF PanelsNext, PanelsVars
  <2>2. HInv'
    BY HistorySteps, HStep
  <2>3. Insp!IInv'
    BY InspectorSteps, Insp!IStep, PanelsAssumption
  <2>4. Graph!GraphInv'
    BY GraphSteps, Graph!GraphStep, PanelsAssumption
  <2>5. PromptTypes'
    BY PromptSteps, PromptTypesStep, PanelsAssumption
  <2>6. SourceTypes'
    BY SourceSteps, SourceTypesStep, PanelsAssumption
  <2>7. PickTypes'
    BY PickersSteps, PickTypesStep, PanelsAssumption
  <2>8. LaunchTypes'
    BY LaunchSteps, LaunchTypesStep
  <2>9. Trace!TreeInv'
    BY TracebackSteps, Trace!TreeStep, PanelsAssumption
  <2> QED
    BY <2>1, <2>2, <2>3, <2>4, <2>5, <2>6, <2>7, <2>8, <2>9
<1>3. Types => PanelsTypeOK
  <2> SUFFICES ASSUME Types PROVE PanelsTypeOK
    OBVIOUS
  <2>1. TypeOK
    BY HistoryTypes
  <2>2. Insp!TypeOK
    BY Insp!ITypes, PanelsAssumption
  <2>3. Graph!TypeOK
    BY Graph!GraphInvType, PanelsAssumption
  <2>4. Prompt!TypeOK /\ Source!TypeOK /\ Pick!TypeOK /\ Launch!TypeOK
    BY DEF PromptTypes, SourceTypes, PickTypes, LaunchTypes
  <2>5. Trace!TypeOK
    BY Trace!TreeTypes, PanelsAssumption
  <2> QED
    BY <2>1, <2>2, <2>3, <2>4, <2>5 DEF PanelsTypeOK, Parts
<1> HIDE DEF Types
<1> QED
  BY <1>1, <1>2, <1>3, PTL DEF PanelsSpec
=============================================================================
