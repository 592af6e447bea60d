----------------------------- MODULE Breakpoints -----------------------------
(***************************************************************************)
(* The breakpoints of one source file (plugins/debugpy.py).  They are kept *)
(* in three places: the manager's _breakpoints, which persist and are what *)
(* the user wants; the store, which is what the panels and the gutter      *)
(* show; and the adapter, which moves a breakpoint on a line without code  *)
(* to the next line with code.  Every change sends the whole file again    *)
(* (setBreakpoints), and several changes can be on their way at a time.    *)
(*                                                                         *)
(* An action is the code of one asyncio task between two awaits.  The      *)
(* adapter is external: it takes the requests in order, sets what a        *)
(* request holds and answers it, or refuses it, or answers too late.       *)
(* Setting and answering are one action: nothing else the adapter does     *)
(* depends on which breakpoints it holds.                                  *)
(***************************************************************************)
EXTENDS Naturals, Sequences, FiniteSets, FiniteSetsExt

CONSTANTS MaxLine,   \* the file has lines 1..MaxLine
          Blank,     \* the lines without code
          MaxWeight, \* bound: fields of a breakpoint's configuration
          MaxCalls,  \* bound: setBreakpoints requests on their way
          MaxOps     \* bound: changes the user makes

Lines == 1..MaxLine

ASSUME FileAssumption == /\ MaxLine \in Nat \ {0}
                         /\ Blank \subseteq Lines \ {MaxLine}
                         /\ MaxWeight \in Nat
                         /\ MaxCalls \in Nat
                         /\ MaxOps \in Nat

VARIABLES
  configs,  \* _breakpoints[path]: a configuration for each line
  shown,    \* SessionSnapshot.breakpoints: by the line that was asked for
  set,      \* the adapter's breakpoints, by the line that was asked for
  calls,    \* setBreakpoints requests on their way, in order
  link,     \* the session
  target,   \* _run_to_cursor_target, 0 for None
  added,    \* _run_to_cursor_added
  paused,   \* SessionSnapshot.state is PAUSED
  here,     \* the line of the frame that is selected at a stop, or 0
  cursor,   \* SessionSnapshot.source_line, 0 for None
  handler,  \* the event task, at a "stopped" event
  ops,      \* how many changes the user has made
  lastOk,   \* history: the last request was answered, none was cut off since
  ran       \* history: the debuggee went on since the target was set

sessionVars == <<link, target, added, paused, here, cursor, handler>>
vars == <<configs, shown, set, calls, sessionVars, ops, lastOk, ran>>

(* A configuration is its weight, _cfg_weight: how many fields are given. *)
Configs == 0..MaxWeight
Books   == UNION {[S -> Configs] : S \in SUBSET Lines}
Marks   == {"queued", "pending", "set"}
Shown   == UNION {[S -> [line : Lines, mark : Marks]] : S \in SUBSET Lines}
(* Who asked: a change of the user, run_to_cursor, the connect command, or *)
(* the event task.                                                         *)
Call    == [why : {"user", "cursor", "sync", "clear"}, line : 0..MaxLine, book : Books]

NoBook == [l \in {} |-> 0]

(* Where the adapter puts a breakpoint on line l. *)
Resolve(l) == Min({k \in l..MaxLine : k \notin Blank})

Init ==
  /\ configs = NoBook
  /\ shown = [l \in {} |-> [line |-> 1, mark |-> "queued"]]
  /\ set = NoBook
  /\ calls = <<>>
  /\ link = "down"
  /\ target = 0
  /\ added = FALSE
  /\ paused = FALSE
  /\ here = 0
  /\ cursor = 0
  /\ handler = "dead"
  /\ ops = 0
  /\ lastOk = TRUE
  /\ ran = FALSE

With(l, w)  == [k \in DOMAIN configs \cup {l} |-> IF k = l THEN w ELSE configs[k]]
Without(l)  == [k \in DOMAIN configs \ {l} |-> configs[k]]

(* Mutant: the lines shown are counted from zero. *)
MarkedFromZero(b, mark) == [l \in DOMAIN b |-> [line |-> l - 1, mark |-> mark]]

Marked(b, mark) == [l \in DOMAIN b |-> [line |-> l, mark |-> mark]]

-----------------------------------------------------------------------------
(* Changes *)

(* The request holds the whole file; a closed client raises at once. *)
Send(why, l, book) ==
  IF link = "lost"
  THEN lastOk' = FALSE /\ UNCHANGED calls
  ELSE /\ Len(calls) < MaxCalls
       /\ calls' = Append(calls, [why |-> why, line |-> l, book |-> book])
       /\ UNCHANGED lastOk

(* _set_breakpoints_offline without a session; else the pending marks and  *)
(* the request.                                                            *)
Change(book) ==
  /\ ops < MaxOps
  /\ ops' = ops + 1
  /\ configs' = book
  /\ \/ link = "down" /\ shown' = Marked(book, "queued") /\ lastOk' = TRUE /\ UNCHANGED calls
     \/ link # "down" /\ shown' = Marked(book, "pending") /\ Send("user", 0, book)
  /\ UNCHANGED <<set, sessionVars, ran>>

Toggle(l) == Change(IF l \in DOMAIN configs THEN Without(l) ELSE With(l, 0))

Configure(l, w) == Change(With(l, w))

MoveCursor(l) ==
  /\ cursor # l
  /\ cursor' = l
  /\ UNCHANGED <<configs, shown, set, calls, link, target, added, paused, here, handler,
                 ops, lastOk, ran>>

(* The command, for the line of the cursor.  The debuggee goes on once the *)
(* breakpoint is set, unless resume() fails.                               *)
RunToCursor ==
  /\ ops < MaxOps
  /\ ops' = ops + 1
  /\ link # "down" /\ paused /\ cursor # 0 /\ cursor # here
  /\ \/ /\ cursor \in DOMAIN configs
        /\ target' = cursor
        /\ added' = FALSE
        /\ paused' \in IF link = "lost" THEN {TRUE} ELSE BOOLEAN
        /\ ran' = ~paused'
        /\ UNCHANGED <<configs, shown, calls, lastOk>>
     \/ /\ cursor \notin DOMAIN configs
        /\ configs' = With(cursor, 0)
        /\ shown' = Marked(configs', "pending")
        /\ Send("cursor", cursor, configs')
        /\ UNCHANGED <<target, added, paused, ran>>
  /\ UNCHANGED <<set, link, here, cursor, handler>>

-----------------------------------------------------------------------------
(* Answers *)

Moved(book) == \E l \in DOMAIN book : Resolve(l) # l

(* Mutant: what the request did not hold is dropped. *)
NormalisedToAnswer(book) ==
  LET asked == DOMAIN book \cap DOMAIN configs
      On(k) == {configs[l] : l \in {l \in asked : Resolve(l) = k}}
  IN  [k \in {Resolve(l) : l \in asked} |-> Max(On(k))]

(* The configurations under the lines the adapter chose; of two on one     *)
(* line the heavier stays.  What the request did not hold is kept.         *)
Normalised(book) ==
  LET asked == DOMAIN book \cap DOMAIN configs
      On(k) == {configs[l] : l \in {l \in asked : Resolve(l) = k}}
  IN  [k \in {Resolve(l) : l \in asked} \cup (DOMAIN configs \ DOMAIN book) |->
         IF On(k) # {} THEN Max(On(k)) ELSE configs[k]]

Tracked(l, book) == IF l \in DOMAIN book THEN Resolve(l) ELSE l

(* _set_breakpoints after the response, and what its caller does next. *)
Answered ==
  LET c == Head(calls)
      moves == Moved(c.book) /\ configs # NoBook
  IN
  /\ calls # <<>>
  /\ calls' = Tail(calls)
  /\ set' = c.book
  /\ shown' = [l \in DOMAIN c.book |-> [line |-> Resolve(l), mark |-> "set"]]
  /\ configs' = IF moves THEN Normalised(c.book) ELSE configs
  /\ cursor' = IF moves THEN Tracked(cursor, c.book) ELSE cursor
  /\ target' = IF c.why = "cursor" THEN c.line
               ELSE IF moves THEN Tracked(target, c.book) ELSE target
  /\ added' = (added \/ c.why = "cursor")
  /\ paused' \in IF c.why = "cursor" THEN {paused, FALSE} ELSE {paused}
  /\ ran' = IF c.why = "cursor" THEN paused /\ ~paused' ELSE ran
  /\ handler' = IF c.why = "clear" THEN "get" ELSE handler
  /\ lastOk' = TRUE
  /\ UNCHANGED <<link, here, ops>>

(* Refused, or answered after the deadline.  The connect command tears the *)
(* session down; the event task dies of it; the user is told.              *)
Failed ==
  LET c == Head(calls) IN
  /\ calls # <<>>
  /\ set' \in {set, c.book}
  /\ calls' = IF c.why = "sync" THEN <<>> ELSE Tail(calls)
  /\ link' = IF c.why = "sync" THEN "lost" ELSE link
  /\ handler' = IF c.why \in {"sync", "clear"} THEN "dead" ELSE handler
  /\ lastOk' = FALSE
  /\ UNCHANGED <<configs, shown, target, added, paused, here, cursor, ops, ran>>

-----------------------------------------------------------------------------
(* The session *)

Connect ==
  /\ link = "down"
  /\ link' = "fresh"
  /\ set' = NoBook
  /\ handler' = "get"
  /\ UNCHANGED <<configs, shown, calls, target, added, paused, here, cursor, ops, lastOk, ran>>

(* Mutant: the queued breakpoints are not applied. *)
SyncNothing ==
  /\ link = "fresh"
  /\ link' = "up"
  /\ UNCHANGED <<configs, shown, set, calls, target, added, paused, here, cursor, handler,
                 ops, lastOk, ran>>

(* _sync_all_breakpoints, once the adapter is initialized. *)
Sync ==
  /\ link = "fresh"
  /\ link' = "up"
  /\ \/ configs = NoBook /\ UNCHANGED <<calls, lastOk>>
     \/ configs # NoBook /\ Send("sync", 0, configs)
  /\ UNCHANGED <<configs, shown, set, target, added, paused, here, cursor, handler, ops, ran>>

(* The connection is lost or being closed: every request fails. *)
Ends ==
  /\ link \in {"fresh", "up"}
  /\ link' = "lost"
  /\ calls' = <<>>
  /\ handler' = "dead"
  /\ lastOk' = (lastOk /\ calls = <<>>)
  /\ UNCHANGED <<configs, shown, set, target, added, paused, here, cursor, ops, ran>>

(* _hard_disconnect after close(). *)
Reset ==
  /\ link = "lost"
  /\ link' = "down"
  /\ target' = 0 /\ added' = FALSE
  /\ paused' = FALSE /\ here' = 0 /\ cursor' = 0
  /\ shown' = [l \in DOMAIN shown |-> [shown[l] EXCEPT !.mark = "queued"]]
  /\ UNCHANGED <<configs, set, calls, handler, ops, lastOk, ran>>

(* "stopped", on a line with code or in another file, up to the check of   *)
(* the target: the user can move the cursor while the frames are fetched.  *)
Stopped(l) ==
  /\ link \in {"fresh", "up"}
  /\ handler = "get" /\ ~paused
  /\ handler' = "refresh"
  /\ paused' = TRUE /\ here' = l /\ cursor' = l
  /\ UNCHANGED <<configs, shown, set, calls, link, target, added, ops, lastOk, ran>>

Resume ==
  /\ link \in {"fresh", "up"} /\ paused
  /\ paused' = FALSE
  /\ ran' = TRUE
  /\ UNCHANGED <<configs, shown, set, calls, link, target, added, here, cursor, handler,
                 ops, lastOk>>

(* A failed request for the frames ends the event task. *)
RefreshFails ==
  /\ handler = "refresh"
  /\ handler' = "dead"
  /\ UNCHANGED <<configs, shown, set, calls, link, target, added, paused, here, cursor,
                 ops, lastOk, ran>>

(* _run_to_cursor_maybe_complete, _clear_breakpoint_line. *)
Checks ==
  /\ handler = "refresh"
  /\ \/ /\ ~(paused /\ target # 0 /\ cursor = target)
        /\ handler' = "get"
        /\ UNCHANGED <<configs, calls, target, added, lastOk>>
     \/ /\ paused /\ target # 0 /\ cursor = target
        /\ target' = 0
        /\ added' = FALSE
        /\ IF added /\ target \in DOMAIN configs
           THEN /\ configs' = Without(target)
                /\ Send("clear", 0, configs')
                /\ handler' = "clear"
           ELSE /\ handler' = "get"
                /\ UNCHANGED <<configs, calls, lastOk>>
  /\ UNCHANGED <<shown, set, link, paused, here, cursor, ops, ran>>

-----------------------------------------------------------------------------
Next ==
  \/ \E l \in Lines : Toggle(l) \/ MoveCursor(l)
  \/ \E l \in Lines, w \in Configs : Configure(l, w)
  \/ RunToCursor
  \/ Answered \/ Failed
  \/ Connect \/ Sync \/ Ends \/ Reset
  \/ \E l \in (Lines \ Blank) \cup {0} : Stopped(l)
  \/ Resume \/ RefreshFails \/ Checks

Spec == Init /\ [][Next]_vars
-----------------------------------------------------------------------------
(* Properties *)

TypeOK ==
  /\ configs \in Books
  /\ shown \in Shown
  /\ set \in Books
  /\ calls \in Seq(Call)
  /\ link \in {"down", "fresh", "up", "lost"}
  /\ target \in 0..MaxLine
  /\ added \in BOOLEAN
  /\ paused \in BOOLEAN
  /\ here \in 0..MaxLine
  /\ cursor \in 0..MaxLine
  /\ handler \in {"get", "refresh", "clear", "dead"}
  /\ ops \in 0..MaxOps
  /\ lastOk \in BOOLEAN
  /\ ran \in BOOLEAN

Settled == calls = <<>> /\ lastOk

ShownLines == {shown[l].line : l \in DOMAIN shown}

(* Once the last request was answered the store shows the breakpoints the  *)
(* manager keeps, whatever changes overtook each other and wherever the    *)
(* adapter moved them; without a session all are queued ("their            *)
(* verification resets on disconnect", docs/DESIGN_v2.md).                 *)
BookIsShown ==
  /\ Settled => ShownLines = DOMAIN configs
  /\ link = "down" => \A l \in DOMAIN shown : shown[l].mark = "queued"

(* And the adapter stops at those lines and no other, also those queued    *)
(* before the session began.                                               *)
BookIsSet ==
  Settled /\ link = "up" => {Resolve(l) : l \in DOMAIN set} = DOMAIN configs

(* "Preserve any configs that were not part of this setBreakpoints call"   *)
(* (debugpy.py: _set_breakpoints): an answer changes no configuration that *)
(* was made after its request.                                             *)
LaterConfigsPreserved ==
  [][\A l \in DOMAIN configs :
       Answered /\ l \notin DOMAIN Head(calls).book
       => l \in DOMAIN configs' /\ configs'[l] = configs[l]]_vars

(* "When the debuggee stops at the target line, yathaavat removes the      *)
(* temporary breakpoint (if it created it)" (docs/DESIGN_v2.md): when the  *)
(* debuggee went on after the run was ordered and stops on the line of     *)
(* that breakpoint, the handler of that stop ends the run.                 *)
ReachedRunIsOver ==
  [][/\ Checks /\ ran /\ paused /\ added
     /\ target # 0 /\ cursor = here /\ here = Resolve(target)
     => target' = 0]_vars
=============================================================================
