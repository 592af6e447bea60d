------------------------------ MODULE Traceback ------------------------------
(***************************************************************************)
(* How the text of a traceback is read back into a tree of exceptions      *)
(* (core/traceback_parser.py), and how the tree is shown                   *)
(* (app/exception.py).                                                     *)
(*                                                                         *)
(* The text is the debuggee's, as CPython prints it: Render is external.   *)
(* A line is its kind and what it names.  Its indentation and the bar      *)
(* before the lines of a group are left out: the parser strips them, but   *)
(* for the frames of the outermost group (ParseOutermost).  A group prints *)
(* the rule that closes it only if its last member is no group: the rule   *)
(* of that one closes both.                                                *)
(*                                                                         *)
(* An exception is a leaf, a group of exceptions, or a leaf raised from or *)
(* while handling another one.                                             *)
(*                                                                         *)
(* A definition whose comment begins "Mutant" belongs to no behaviour.     *)
(***************************************************************************)
EXTENDS Naturals, Sequences, SequencesExt

CONSTANTS None,       \* nothing raised
          Leaves,     \* exception types; Traced of them carry a frame
          Traced,
          GroupDepth, \* bound: groups inside groups
          MaxChain    \* bound: exceptions of a chain

VARIABLES
  tree,    \* what the debuggee raised
  inner,   \* whether the groups inside a group carry a frame
  info,    \* store: exception_info, or None
  exc_tree \* rows of the panel: the depth and text of each

vars == <<tree, inner, info, exc_tree>>

-----------------------------------------------------------------------------
(* Exceptions *)

Node(name, frames, kids, rel, group) ==
  [name |-> name, frames |-> frames, kids |-> kids, rel |-> rel, group |-> group]

Frames(name) == IF name \in Traced THEN <<name>> ELSE <<>>
Leaf(name)   == Node(name, Frames(name), <<>>, "root", FALSE)

As(node, rel) == [node EXCEPT !.rel = rel]

(* What a line names: an exception or the function of a frame.             *)
(* _extract_exception_line says "Exception" of a text that names none.     *)
Labels == Leaves \cup {"group", "Exception", ""}

(* What a text may be read as: trees no deeper than a text has separators, *)
(* of which the groups of one depth print at most four, or markers.        *)
TreeDepth == 4 * GroupDepth + MaxChain
AnyTree ==
  LET TreesTo[d \in Nat] ==
        [name : Labels, frames : Seq(Labels),
         kids : IF d = 0 THEN {<<>>} ELSE Seq(TreesTo[d - 1]),
         rel : {"root", "member", "cause", "context"}, group : BOOLEAN]
  IN TreesTo[TreeDepth]

(* Groups of one or two members, to depth d; of two, at least one is a     *)
(* leaf or a group of leaves.                                              *)
Nested[d \in Nat] ==
  IF d = 0 THEN {Leaf(l) : l \in Leaves}
  ELSE LET members == {As(t, "member") : t \in Nested[d - 1]}
           flat    == {As(t, "member") : t \in Nested[IF d = 1 THEN 0 ELSE 1]}
           kids    == {<<t>> : t \in members} \cup (members \X flat) \cup (flat \X members)
       IN Nested[0] \cup {Node("group", IF inner THEN <<"group">> ELSE <<>>, k, "root", TRUE) : k \in kids}

(* Chains of n exceptions. *)
Chains[n \in 1..MaxChain] ==
  IF n = 1 THEN Nested[0]
  ELSE {[l EXCEPT !.kids = <<As(t, r)>>] :
          l \in Nested[0], t \in Chains[n - 1], r \in {"cause", "context"}}

Trees == (UNION {Chains[n] : n \in 1..MaxChain})
         \cup {IF t.group THEN [t EXCEPT !.frames = <<"group">>] ELSE t : t \in Nested[GroupDepth]}

-----------------------------------------------------------------------------
(* The text *)

Line(kind, name) == [kind |-> kind, name |-> name]
AnyLine == [kind : {"open", "next", "close", "header", "frame", "error", "cause", "context"},
            name : Labels]
Lines == Seq(AnyLine)
Infos == [stack_trace : Lines, tree : AnyTree]

TracebackAssumption ==
  /\ GroupDepth \in Nat /\ MaxChain \in Nat \ {0}
  /\ "group" \notin Leaves /\ None \notin Infos

Opens   == Line("open", "")    \* +-+---- 1 ----
Next_   == Line("next", "")    \* +------ 2 ----
Closes  == Line("close", "")   \* +-------------
Headers == Line("header", "")  \* Traceback, Exception Group Traceback

FrameLines(t) == IF t.frames = <<>> THEN <<>>
                 ELSE <<Headers>> \o [i \in DOMAIN t.frames |-> Line("frame", t.frames[i])]

Render[t \in AnyTree] ==
  LET Member(i) ==
        <<IF i = 1 THEN Opens ELSE Next_>> \o Render[t.kids[i]] \o
        (IF i = Len(t.kids) /\ ~t.kids[i].group THEN <<Closes>> ELSE <<>>)
  IN IF t.group
     THEN FrameLines(t) \o <<Line("error", t.name)>> \o
          FlattenSeq([i \in DOMAIN t.kids |-> Member(i)])
     ELSE (IF t.kids = <<>> THEN <<>> ELSE Render[t.kids[1]] \o <<Line(t.kids[1].rel, "")>>)
          \o FrameLines(t) \o <<Line("error", t.name)>>

-----------------------------------------------------------------------------
(* The parser *)

(* All frames, and the last line that reads as an exception *)
ReadLine(s, l) ==
  CASE l.kind = "frame" -> [s EXCEPT !.frames = Append(@, l.name)]
    [] l.kind = "error" -> [s EXCEPT !.name = l.name]
    [] OTHER            -> s
Read(lines) == FoldLeft(ReadLine, [frames |-> <<>>, name |-> "Exception"], lines)

(* _parse_simple *)
ParseSimple(lines) ==
  LET read == Read(lines) IN Node(read.name, read.frames, <<>>, "root", FALSE)

(* _parse_chained: split at the markers, each part below the next one *)
ChainLine(s, l) ==
  IF l.kind \in {"cause", "context"}
  THEN [kid |-> <<As([ParseSimple(s.part) EXCEPT !.kids = s.kid], l.kind)>>, part |-> <<>>]
  ELSE [s EXCEPT !.part = Append(@, l)]
ParseChained(lines) ==
  LET end == FoldLeft(ChainLine, [kid |-> <<>>, part |-> <<>>], lines)
  IN [ParseSimple(end.part) EXCEPT !.kids = end.kid]

(* Mutant: the groups inside a member are not counted. *)
SplitFlat(lines) ==
  LET Put(s, l) ==
        IF l.kind \in {"open", "next", "close"}
        THEN [blocks |-> IF s.block = <<>> THEN s.blocks ELSE Append(s.blocks, s.block),
              block |-> <<>>, inside |-> l.kind # "close"]
        ELSE IF s.inside THEN [s EXCEPT !.block = Append(@, l)] ELSE s
      end == FoldLeft(Put, [blocks |-> <<>>, block |-> <<>>, inside |-> FALSE], lines)
  IN IF end.block = <<>> THEN end.blocks ELSE Append(end.blocks, end.block)

(* _split_group_children: the lines of each member; depth counts the       *)
(* groups that are open inside the member.                                 *)
Flush(s) == IF s.inside /\ s.block # <<>>
            THEN [s EXCEPT !.blocks = Append(@, s.block), !.block = <<>>] ELSE s
Keep(s, l, d) == [s EXCEPT !.block = Append(@, l), !.depth = d]
SplitLine(s, l) ==
  CASE l.kind = "open" /\ s.depth = 0 /\ ~s.inside -> [s EXCEPT !.inside = TRUE]
    [] l.kind = "next" /\ s.depth = 0              -> [Flush(s) EXCEPT !.inside = TRUE]
    [] l.kind = "open" /\ s.inside                 -> Keep(s, l, s.depth + 1)
    [] l.kind = "close" /\ s.inside /\ s.depth > 0 -> Keep(s, l, s.depth - 1)
    [] l.kind = "close" /\ s.inside /\ s.depth = 0 -> [Flush(s) EXCEPT !.inside = FALSE]
    [] OTHER -> IF s.inside THEN Keep(s, l, s.depth) ELSE s
Split(lines) ==
  LET end == FoldLeft(SplitLine, [blocks |-> <<>>, block |-> <<>>, depth |-> 0, inside |-> FALSE],
                      lines)
  IN IF end.block = <<>> THEN end.blocks ELSE Append(end.blocks, end.block)

(* _parse_group: the frames before the first line that names a group, and  *)
(* each member, itself a group if it holds a separator.                    *)
IsGroup(lines) == \E i \in DOMAIN lines : lines[i].kind \in {"open", "next"}

ParseGroup[lines \in Lines] ==
  LET named  == SelectInSeq(lines, LAMBDA l : l = Line("error", "group"))
      header == IF named = 0 THEN lines ELSE SubSeq(lines, 1, named)
      blocks == Split(lines)
      Member(b) == As(IF IsGroup(b) THEN ParseGroup[b] ELSE ParseSimple(b), "member")
  IN Node("group", Read(header).frames, [i \in DOMAIN blocks |-> Member(blocks[i])],
          "root", TRUE)

(* The outermost group is parsed from the text as it came: a frame behind  *)
(* a bar does not match _FRAME_RE.  The text of the members was stripped.  *)
ParseOutermost(lines) == [ParseGroup[lines] EXCEPT !.frames = <<>>]

(* _parse_stack_trace: without a text, what the adapter says of the        *)
(* exception.                                                              *)
ParseStackTrace(exceptionId, lines) ==
  IF lines = <<>> THEN Node(exceptionId, <<>>, <<>>, "root", FALSE)
  ELSE IF IsGroup(lines) THEN ParseOutermost(lines)
  ELSE IF \E i \in DOMAIN lines : lines[i].kind \in {"cause", "context"} THEN ParseChained(lines)
  ELSE ParseSimple(lines)

(* build_exception_tree; a text without an exception does not come.        *)
BuildExceptionTree(exceptionId, lines) ==
  [stack_trace |-> lines, tree |-> ParseStackTrace(exceptionId, lines)]

-----------------------------------------------------------------------------
(* The panel *)

(* _build_tree: the exception, its frames, then what it holds *)
Rows[p \in AnyTree \X Nat] ==
  LET t == p[1]
      d == p[2]
  IN <<<<d, t.rel, t.name>>>> \o [i \in DOMAIN t.frames |-> <<d + 1, "frame", t.frames[i]>>]
     \o FlattenSeq([i \in DOMAIN t.kids |-> Rows[<<t.kids[i], d + 1>>]])

Init == inner \in BOOLEAN /\ tree = None /\ info = None /\ exc_tree = <<>>

(* The debuggee stops at an exception. *)
Raised ==
  /\ tree = None
  /\ tree' \in Trees
  /\ UNCHANGED <<inner, info, exc_tree>>

(* The answer to exceptionInfo arrives, with a text or without; the panel  *)
(* is told and lists the tree.                                             *)
InfoArrives(lines) ==
  /\ tree # None /\ info = None
  /\ info' = BuildExceptionTree(tree.name, lines)
  /\ exc_tree' = Rows[<<info'.tree, 0>>]
  /\ UNCHANGED <<tree, inner>>

(* The debuggee goes on: the panel is empty. *)
Continued ==
  /\ info # None
  /\ tree' = None /\ info' = None /\ exc_tree' = <<>>
  /\ UNCHANGED inner

Next ==
  \/ Raised
  \/ tree # None /\ \E lines \in {<<>>, Render[tree]} : InfoArrives(lines)
  \/ Continued

Spec == Init /\ [][Next]_vars

-----------------------------------------------------------------------------
(* Properties *)

(* The types of the variables. *)
TypeOK ==
  /\ inner \in BOOLEAN
  /\ info \in Infos \cup {None}
  /\ exc_tree = <<>> <=> info = None

(* A group that is not the last of its group ends with a group: its rule   *)
(* closes two groups, and the parser counts one.                           *)
ClosesTwo[t \in AnyTree] ==
  \E i \in DOMAIN t.kids :
    \/ ClosesTwo[t.kids[i]]
    \/ t.group /\ i < Len(t.kids) /\ t.kids[i].group /\ Last(t.kids[i].kids).group

(* What is left of an exception whose own frames, of a group, are lost     *)
WithoutOuterFrames(t) == IF t.group THEN [t EXCEPT !.frames = <<>>] ELSE t

(* The tree shown is the one that was raised, with every exception below   *)
(* the one that holds it and every frame below the exception it belongs    *)
(* to, to any depth of groups and any mixture of causes and contexts,      *)
(* unless one rule closes two groups before another member follows.  Only  *)
(* the frames of an outermost group are missing (see ParseOutermost).      *)
TreeIsRead ==
  info # None =>
    /\ info.tree.name = tree.name
    /\ info.stack_trace # <<>> /\ ~ClosesTwo[tree]
       => exc_tree = Rows[<<WithoutOuterFrames(tree), 0>>]
=============================================================================
