----------------------------- MODULE SourceView -----------------------------
(***************************************************************************)
(* The source panel (app/panels.py: SourcePanel): the location in the      *)
(* store, the cursor of the editor, and the find bar (app/search.py,       *)
(* app/source_nav.py).                                                     *)
(*                                                                         *)
(* The store notifies the panel inside update().  SelectionChanged and     *)
(* Input.Changed are messages: they are handled after the step that caused *)
(* them, when _syncing_cursor is FALSE again, and the handler reads the    *)
(* cursor that is there by then.                                           *)
(*                                                                         *)
(* File f has f lines of Width equal letters; a query is a number of them. *)
(* What the debuggee reports may lie beyond the file that is on disk, and  *)
(* a file may be unreadable.  Paths are resolved ones.                     *)
(*                                                                         *)
(* A definition whose comment begins "Mutant" belongs to no behaviour.     *)
(***************************************************************************)
EXTENDS Naturals, Sequences, FiniteSets, FiniteSetsExt

CONSTANTS None,        \* no path, line, column or task
          Files,       \* a set of numbers
          Width,       \* letters in a line
          MaxLine,     \* bound: the lines and columns asked for
          MaxPending   \* bound: messages on their way

SourceAssumption ==
  /\ MaxLine \in Nat \ {0} /\ Files \subseteq 1..MaxLine
  /\ Width \in Nat /\ MaxPending \in Nat

VARIABLES
  loc,      \* store: source_path, source_line, source_col
  editor,   \* CodeView: path, cursor_location
  known,    \* SourcePanel._path, _line, _col
  moved,    \* SelectionChanged messages not yet handled
  open,     \* _find_open
  value,    \* the find input, 0 when empty
  changed,  \* Input.Changed messages not yet handled
  search    \* _find_task while it sleeps: its query

findVars == <<open, value, changed, search>>
vars == <<loc, editor, known, moved, findVars>>

Lines   == 1..MaxLine
Queries == 1..(Width + 1)

MinOf(a, b) == IF a < b THEN a ELSE b

NoFile == [path |-> None, row |-> 0, col |-> 0]
Unknown == [path |-> None, line |-> None, col |-> None]

-----------------------------------------------------------------------------
(* The editor *)

(* cursor_location = (row, col): the editor keeps it inside the text.      *)
Placed(e, row, col) ==
  [e EXCEPT !.row = MinOf(row, e.path - 1), !.col = MinOf(col, Width)]

(* Where the cursor is put for line l, column c: at the end of a shorter   *)
(* line, at the start where there is no such line.                         *)
Target(path, l, c) ==
  [row |-> l - 1, col |-> IF l <= path THEN MinOf(c - 1, Width) ELSE 0]

Differs(e, f) == IF <<e.row, e.col>> # <<f.row, f.col>> THEN 1 ELSE 0

(* Mutant: only a new line moves the cursor. *)
IsNewsByLine(line, col) == line # known.line

(* The location is not the one that was shown or reported last. *)
IsNews(line, col) == line # known.line \/ col # known.col

(* _on_snapshot for a location: without one, and for a file that cannot be *)
(* read, the editor is emptied; a new file is read; the cursor goes where  *)
(* the store says if that is news.                                         *)
Shows(path, line, col, readable) ==
  IF path = None \/ (path # known.path /\ ~readable) THEN
    /\ editor' = NoFile /\ known' = Unknown
    /\ moved' = moved + Differs(editor, NoFile)
  ELSE
    LET news  == path # known.path
        at    == IF news THEN [path |-> path, row |-> 0, col |-> 0] ELSE editor
        moves == news \/ IsNews(line, col)
        t     == Target(path, line, col)
        to    == IF moves THEN Placed(at, t.row, t.col) ELSE at
    IN /\ editor' = to
       /\ known' = [path |-> path,
                    line |-> IF moves THEN line ELSE known.line,
                    col  |-> IF moves THEN col ELSE known.col]
       /\ moved' = moved + Differs(editor, at) + Differs(at, to)

(* store.update of the location *)
Update(path, line, col) ==
  /\ loc' = [path |-> path, line |-> line, col |-> col]
  /\ \E readable \in BOOLEAN : Shows(path, line, col, readable)

Room == moved + 2 <= MaxPending

Init ==
  /\ loc = [path |-> None, line |-> None, col |-> 1]
  /\ editor = NoFile /\ known = Unknown /\ moved = 0
  /\ open = FALSE /\ value = 0 /\ changed = <<>> /\ search = None

-----------------------------------------------------------------------------
(* The store *)

(* A stop, a selected frame, task or breakpoint: a new location. *)
Located(f, l) ==
  /\ Room
  /\ Update(f, l, 1)
  /\ UNCHANGED findVars

(* The end of the session, or a frame without source *)
Unlocated ==
  /\ Room
  /\ Update(None, None, 1)
  /\ UNCHANGED findVars

(* Any other change of the snapshot *)
Notified ==
  /\ Room
  /\ Update(loc.path, loc.line, loc.col)
  /\ UNCHANGED findVars

(* GotoDialog._on_submit *)
Goto(l, c) ==
  /\ Room
  /\ loc.path # None
  /\ Update(loc.path, l, c)
  /\ UNCHANGED findVars

(* _on_gutter_click: the location moves, then the breakpoint is toggled. *)
GutterClick(l) ==
  /\ Room
  /\ editor.path # None /\ l <= editor.path
  /\ Update(editor.path, l, 1)
  /\ UNCHANGED findVars

-----------------------------------------------------------------------------
(* The cursor *)

MoveTo(row, col) ==
  LET to == Placed(editor, row, col) IN
  editor' = to /\ moved' = moved + Differs(editor, to)

(* The user moves the cursor. *)
MoveCursor(row, col) ==
  /\ Room
  /\ editor.path # None /\ row < editor.path
  /\ MoveTo(row, col)
  /\ UNCHANGED <<loc, known, findVars>>

Here == [path |-> editor.path, line |-> editor.row + 1, col |-> editor.col + 1]

(* _on_cursor_moved: the store is told where the cursor is; the            *)
(* notification that follows finds nothing to do.                          *)
CursorMoved ==
  /\ moved > 0
  /\ moved' = moved - 1
  /\ IF editor.path = None THEN UNCHANGED <<loc, known>> ELSE loc' = Here /\ known' = Here
  /\ UNCHANGED <<editor, findVars>>

-----------------------------------------------------------------------------
(* Find *)

(* Positions in the text of file f: a line and its line break are Width + 1.*)
Index(row, col) == row * (Width + 1) + col
Length(f) == f * (Width + 1) - 1
Matches(f, q) == {Index(r, c) : r \in 0..(f - 1), c \in {d \in 0..Width : d + q <= Width}}

(* Mutant: the match under the cursor is found again. *)
FindNextFromHere(f, q, i) ==
  LET after == {m \in Matches(f, q) : m >= MinOf(i, Length(f))}
  IN IF after # {} THEN Min(after) ELSE Min(Matches(f, q))

(* find_next_index *)
FindNext(f, q, i) ==
  LET after == {m \in Matches(f, q) : m >= MinOf(i + 1, Length(f))}
  IN IF after # {} THEN Min(after) ELSE Min(Matches(f, q))

(* find_prev_index: a match that ends before the position *)
FindPrev(f, q, i) ==
  LET before == {m \in Matches(f, q) : m + q <= MinOf(i, Length(f))}
  IN IF before # {} THEN Max(before) ELSE Max(Matches(f, q))

(* _find_in_source for the match m *)
Find(m) == MoveTo(m \div (Width + 1), m % (Width + 1))

Searches(q) == editor.path # None /\ Matches(editor.path, q) # {}

(* open_find, _close_find *)
OpenFind ==
  /\ ~open /\ open' = TRUE
  /\ UNCHANGED <<loc, editor, known, moved, value, changed, search>>

CloseFind ==
  /\ open /\ open' = FALSE
  /\ search' = None
  /\ UNCHANGED <<loc, editor, known, moved, value, changed>>

(* The user types in the find input. *)
TypeQuery(q) ==
  /\ open /\ q # value /\ changed = <<>>
  /\ value' = q /\ changed' = <<q>>
  /\ UNCHANGED <<loc, editor, known, moved, open, search>>

(* _on_find_changed: the search before is cancelled. *)
QueryChanged ==
  /\ changed # <<>>
  /\ changed' = Tail(changed)
  /\ search' = IF Head(changed) = 0 THEN None ELSE Head(changed)
  /\ UNCHANGED <<loc, editor, known, moved, open, value>>

(* _find_debounced, after its sleep *)
Debounced ==
  /\ Room
  /\ search # None
  /\ search' = None
  /\ IF open /\ value = search /\ Searches(value)
     THEN LET here == Index(editor.row, editor.col)
          IN IF here \in Matches(editor.path, value) THEN Find(here)
             ELSE Find(FindNext(editor.path, value, here))
     ELSE UNCHANGED <<editor, moved>>
  /\ UNCHANGED <<loc, known, open, value, changed>>

(* Enter, F3 and Shift+F3 *)
FindAgain ==
  /\ Room
  /\ open /\ value # 0 /\ Searches(value)
  /\ LET here == Index(editor.row, editor.col) IN
     Find(FindNext(editor.path, value, here)) \/ Find(FindPrev(editor.path, value, here))
  /\ UNCHANGED <<loc, known, findVars>>

Next ==
  \/ \E f \in Files, l \in Lines : Located(f, l)
  \/ Unlocated \/ Notified
  \/ \E l \in Lines, c \in Lines : Goto(l, c)
  \/ \E l \in Lines : GutterClick(l)
  \/ \E r \in Lines, c \in 0..Width : MoveCursor(r - 1, c)
  \/ CursorMoved
  \/ OpenFind \/ CloseFind \/ \E q \in Queries \cup {0} : TypeQuery(q)
  \/ QueryChanged \/ Debounced \/ FindAgain

Spec == Init /\ [][Next]_vars

-----------------------------------------------------------------------------
(* Properties *)

(* The types of the variables. *)
TypeOK ==
  /\ loc \in [path : Files \cup {None}, line : Lines \cup {None}, col : 1..(MaxLine + Width)]
  /\ editor.path \in Files \cup {None}
  /\ editor.path # None => editor.row < editor.path /\ editor.col <= Width
  /\ known.path = editor.path
  /\ moved \in 0..MaxPending
  /\ search \in Queries \cup {None}

(* Once the messages are handled, the editor shows the file of the store   *)
(* (or could not read it) and its cursor is where the store says, whatever *)
(* stops, searches, jumps and cursor keys came in between.  A location     *)
(* outside the file leaves the cursor at the nearest place in it.          *)
CursorAgrees ==
  (moved = 0 /\ editor.path # None) =>
    /\ loc.path = editor.path
    /\ \/ loc.line = editor.row + 1 /\ loc.col = editor.col + 1
       \/ loc.line = editor.row + 1 /\ loc.col > Width + 1 /\ editor.col = Width
       \/ loc.line > editor.path /\ editor.row = editor.path - 1 /\ editor.col = 0

(* From anywhere in the file, going on to the next match, or back to the   *)
(* one before, passes every match in as many steps as there are matches,   *)
(* for a query whose matches do not overlap.                               *)
EveryMatchIsPassed ==
  editor.path # None =>
    \A q \in Queries :
      LET all == Matches(editor.path, q)
          here == Index(editor.row, editor.col)
          next[n \in 0..Cardinality(all)] ==
            IF n = 0 THEN here ELSE FindNext(editor.path, q, next[n - 1])
          prev[n \in 0..Cardinality(all)] ==
            IF n = 0 THEN here ELSE FindPrev(editor.path, q, prev[n - 1])
      IN (all # {} /\ \A m, n \in all : m < n => m + q <= n) =>
                     /\ all \subseteq {next[n] : n \in DOMAIN next \ {0}}
                     /\ all \subseteq {prev[n] : n \in DOMAIN prev \ {0}}
=============================================================================
