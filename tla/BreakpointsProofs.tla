-------------------------- MODULE BreakpointsProofs --------------------------
(***************************************************************************)
(* Proofs about Breakpoints, for a file of any length with any lines       *)
(* without code, and for any number of changes and requests on their way.  *)
(***************************************************************************)
EXTENDS Breakpoints, SequenceTheorems, WellFoundedInduction, TLAPS

(* Without a connection nothing is on its way and no event is handled. *)
LinkInv == link \in {"down", "lost"} => calls = <<>> /\ handler = "dead"

(* The configurations differ from the book of a request only in lines that *)
(* an answer has moved.                                                    *)
Follows(book) ==
  /\ \A l \in DOMAIN configs : l \in DOMAIN book \/ \E k \in DOMAIN book : l = Resolve(k)
  /\ \A l \in DOMAIN book : l \in DOMAIN configs \/ Resolve(l) \in DOMAIN configs

LastInv == calls # <<>> => Follows(calls[Len(calls)].book)

SetLines == {Resolve(l) : l \in DOMAIN set}

(* What the adapter holds; before the synchronisation it may hold nothing. *)
SetInv ==
  Settled => /\ link = "up" => SetLines = DOMAIN configs
             /\ link = "fresh" => DOMAIN set = {} \/ SetLines = DOMAIN configs

BInv == TypeOK /\ LinkInv /\ LastInv /\ BookIsShown /\ SetInv

-----------------------------------------------------------------------------
(* Lines *)

LEMMA MinIsLeast ==
  ASSUME NEW S, S \subseteq Nat, S # {}
  PROVE  Min(S) \in S /\ \A y \in S : Min(S) <= y
<1>1. PICK x \in S : \A y \in S : ~ (<<y, x>> \in OpToRel(<, Nat))
  BY NatLessThanWellFounded, WFMin, Zenon
<1>2. \A y \in S : x <= y
  <2>1. SUFFICES ASSUME NEW y \in S, ~ (x <= y) PROVE FALSE
    OBVIOUS
  <2>2. <<y, x>> \in Nat \X Nat /\ <<y, x>>[1] < <<y, x>>[2]
    BY <2>1
  <2>3. <<y, x>> \in OpToRel(<, Nat)
    BY ONLY <2>2, Zenon DEF OpToRel
  <2>. QED BY <1>1, <2>3
<1>. QED
  BY <1>2 DEF Min

(* The heaviest of some configurations is one of them. *)
LEMMA MaxIsOne ==
  ASSUME NEW S, S \subseteq Configs, S # {}
  PROVE  Max(S) \in S
<1>. DEFINE T == {MaxWeight - w : w \in S}
<1>1. T \subseteq Nat /\ T # {}
  <2>1. \A w \in S : MaxWeight - w \in Nat
    BY FileAssumption DEF Configs
  <2>. QED BY <2>1
<1>2. Min(T) \in T /\ \A y \in T : Min(T) <= y
  <2>. HIDE DEF T
  <2>. QED BY <1>1, MinIsLeast
<1>3. PICK x \in S : Min(T) = MaxWeight - x
  BY <1>2
<1>4. \A y \in S : x >= y
  <2>1. \A y \in S : MaxWeight - x <= MaxWeight - y
    BY <1>2, <1>3
  <2>. QED BY <2>1, FileAssumption DEF Configs
<1>. QED
  BY <1>4 DEF Max

(* A breakpoint is moved to a line of the file, and no further from there. *)
LEMMA ResolveOnce ==
  ASSUME NEW l \in Lines
  PROVE  Resolve(l) \in Lines /\ Resolve(Resolve(l)) = Resolve(l)
<1>. DEFINE Code(k) == {j \in k..MaxLine : j \notin Blank}
            r == Resolve(l)
<1>1. Code(l) \subseteq Nat /\ MaxLine \in Code(l)
  BY FileAssumption DEF Lines
<1>2. r \in Code(l)
  BY <1>1, MinIsLeast DEF Resolve
<1>3. r \in Lines /\ r \notin Blank /\ r \in Code(r) /\ Code(r) \subseteq Nat
  BY <1>2, FileAssumption DEF Lines
<1>4. Resolve(r) \in Code(r) /\ Resolve(r) <= r
  <2>1. Min(Code(r)) \in Code(r) /\ \A y \in Code(r) : Min(Code(r)) <= y
    <3>. DEFINE C == Code(r)
    <3>1. C \subseteq Nat /\ C # {}
      BY <1>3
    <3>. HIDE DEF C
    <3>2. Min(C) \in C /\ \A y \in C : Min(C) <= y
      BY <3>1, MinIsLeast
    <3>. QED BY <3>2 DEF C
  <2>. QED BY <2>1, <1>3 DEF Resolve
<1>5. Resolve(r) = r
  BY <1>3, <1>4, FileAssumption DEF Lines
<1>. QED
  BY <1>3, <1>5

-----------------------------------------------------------------------------
(* Books *)

LEMMA BookType ==
  ASSUME NEW S, S \subseteq Lines, NEW f, f = [l \in S |-> f[l]], \A l \in S : f[l] \in Configs
  PROVE  f \in Books
<1>1. f \in [S -> Configs] /\ S \in SUBSET Lines
  OBVIOUS
<1>. QED
  BY <1>1 DEF Books

LEMMA BookShape ==
  ASSUME NEW b \in Books
  PROVE  DOMAIN b \subseteq Lines /\ \A l \in DOMAIN b : b[l] \in Configs
BY DEF Books

(* With, Without and the changes of the user give books. *)
LEMMA EditedBooks ==
  ASSUME configs \in Books, NEW l \in Lines, NEW w \in Configs
  PROVE  With(l, w) \in Books /\ Without(l) \in Books
<1>1. DOMAIN configs \subseteq Lines /\ \A k \in DOMAIN configs : configs[k] \in Configs
  BY BookShape
<1>2. With(l, w) \in Books
  BY <1>1, BookType, DOMAIN configs \cup {l} \subseteq Lines DEF With
<1>3. Without(l) \in Books
  BY <1>1, BookType, DOMAIN configs \ {l} \subseteq Lines DEF Without
<1>. QED
  BY <1>2, <1>3

(* A list for the store shows the lines of the book it is made from. *)
LEMMA MarkedLines ==
  ASSUME NEW b \in Books, NEW mark \in Marks
  PROVE  /\ Marked(b, mark) \in Shown
         /\ {Marked(b, mark)[l].line : l \in DOMAIN Marked(b, mark)} = DOMAIN b
         /\ \A l \in DOMAIN Marked(b, mark) : Marked(b, mark)[l].mark = mark
<1>1. DOMAIN b \subseteq Lines
  BY BookShape
<1>2. Marked(b, mark) \in [DOMAIN b -> [line : Lines, mark : Marks]]
  BY <1>1 DEF Marked
<1>. QED
  BY <1>1, <1>2 DEF Marked, Shown

(* What Normalised gives is a book over the lines that the adapter chose   *)
(* and those that the request did not hold.                                *)
LEMMA NormalisedBook ==
  ASSUME configs \in Books, NEW b \in Books
  PROVE  /\ Normalised(b) \in Books
         /\ DOMAIN Normalised(b) = {Resolve(l) : l \in DOMAIN b \cap DOMAIN configs}
                                     \cup (DOMAIN configs \ DOMAIN b)
<1>. DEFINE asked == DOMAIN b \cap DOMAIN configs
            On(k) == {configs[l] : l \in {l \in asked : Resolve(l) = k}}
            D == {Resolve(l) : l \in asked} \cup (DOMAIN configs \ DOMAIN b)
<1>1. /\ DOMAIN configs \subseteq Lines /\ DOMAIN b \subseteq Lines
      /\ \A k \in DOMAIN configs : configs[k] \in Configs
  BY BookShape
<1>2. D \subseteq Lines
  BY <1>1, ResolveOnce
<1>3. \A k \in D : On(k) # {} => Max(On(k)) \in Configs
  <2>1. \A k \in D : On(k) \subseteq Configs
    BY <1>1
  <2>. HIDE DEF On
  <2>. QED BY <2>1, MaxIsOne
<1>4. \A k \in D : On(k) = {} => configs[k] \in Configs
  BY <1>1
<1>5. Normalised(b) = [k \in D |-> IF On(k) # {} THEN Max(On(k)) ELSE configs[k]]
  BY DEF Normalised
<1>6. [k \in D |-> IF On(k) # {} THEN Max(On(k)) ELSE configs[k]] \in Books
  <2>. HIDE DEF D, On
  <2>. QED BY <1>2, <1>3, <1>4 DEF Books
<1>. QED
  BY <1>5, <1>6

-----------------------------------------------------------------------------
(* Requests *)

(* What a change of the configurations, and the request for it, keep. *)
LEMMA SendKeeps ==
  ASSUME BInv, NEW why \in {"user", "cursor", "sync", "clear"}, NEW l \in 0..MaxLine,
         NEW book \in Books, configs' = book, link' = link, link # "down",
         Send(why, l, book)
  PROVE  /\ calls' \in Seq(Call) /\ lastOk' \in BOOLEAN
         /\ (link = "lost" => calls' = <<>>)
         /\ LastInv' /\ ~Settled'
<1>1. CASE link = "lost"
  BY <1>1 DEF Send, BInv, TypeOK, LinkInv, LastInv, Settled
<1>2. CASE link # "lost"
  <2>. DEFINE c == [why |-> why, line |-> l, book |-> book]
  <2>1. c \in Call
    BY DEF Call
  <2>2. calls \in Seq(Call) /\ lastOk \in BOOLEAN /\ lastOk' = lastOk
    BY <1>2 DEF Send, BInv, TypeOK
  <2>3. calls' = Append(calls, c)
    BY <1>2 DEF Send
  <2>4. /\ calls' \in Seq(Call) /\ calls' # <<>>
        /\ Len(calls') = Len(calls) + 1 /\ calls'[Len(calls) + 1] = c
    <3>. HIDE DEF c
    <3>. QED BY <2>1, <2>2, <2>3, AppendProperties
  <2>5. calls'[Len(calls')].book = book
    BY <2>4
  <2>6. LastInv'
    BY <2>5 DEF LastInv, Follows
  <2>. QED BY <1>2, <2>2, <2>4, <2>6 DEF Settled
<1>. QED
  BY <1>1, <1>2

LEMMA BInit == Init => BInv
<1>1. NoBook \in Books /\ DOMAIN NoBook = {}
  <2>1. NoBook \in [{} -> Configs]
    BY DEF NoBook
  <2>. QED BY <2>1 DEF Books
<1>2. [l \in {} |-> [line |-> 1, mark |-> "queued"]] \in Shown
  <2>1. [l \in {} |-> [line |-> 1, mark |-> "queued"]] \in [{} -> [line : Lines, mark : Marks]]
    OBVIOUS
  <2>. QED BY <2>1 DEF Shown
<1>3. SUFFICES ASSUME Init PROVE BInv
  OBVIOUS
<1>4. /\ configs \in Books /\ DOMAIN configs = {}
      /\ set \in Books /\ DOMAIN set = {}
      /\ shown \in Shown /\ DOMAIN shown = {}
      /\ calls = <<>> /\ calls \in Seq(Call) /\ link = "down" /\ handler = "dead"
  BY <1>1, <1>2, <1>3 DEF Init
<1>5. TypeOK
  <2>1. added \in BOOLEAN /\ paused \in BOOLEAN /\ lastOk \in BOOLEAN /\ ran \in BOOLEAN
    BY <1>3, Zenon DEF Init
  <2>2. target \in 0..MaxLine /\ here \in 0..MaxLine /\ cursor \in 0..MaxLine /\ ops \in 0..MaxOps
    BY <1>3, FileAssumption DEF Init
  <2>. QED BY <1>4, <2>1, <2>2 DEF TypeOK
<1>6. LinkInv /\ LastInv /\ BookIsShown /\ SetInv
  BY <1>4 DEF LinkInv, LastInv, BookIsShown, ShownLines, SetInv
<1>. QED
  BY <1>5, <1>6 DEF BInv

LEMMA ChangeKeeps ==
  ASSUME BInv, NEW book \in Books, Change(book)
  PROVE  BInv'
<1>1. /\ configs' = book /\ ops' \in 0..MaxOps
      /\ UNCHANGED <<set, link, target, added, paused, here, cursor, handler, ran>>
  BY FileAssumption DEF Change, sessionVars, BInv, TypeOK
<1>2. CASE link = "down"
  <2>1. shown' = Marked(book, "queued") /\ lastOk' = TRUE /\ calls' = calls
    BY <1>2 DEF Change
  <2>2. calls = <<>>
    BY <1>2 DEF BInv, LinkInv
  <2>3. /\ shown' \in Shown /\ ShownLines' = DOMAIN configs'
        /\ \A l \in DOMAIN shown' : shown'[l].mark = "queued"
    <3>. DEFINE m == Marked(book, "queued")
    <3>1. /\ m \in Shown /\ {m[l].line : l \in DOMAIN m} = DOMAIN book
          /\ \A l \in DOMAIN m : m[l].mark = "queued"
      BY MarkedLines DEF Marks
    <3>2. shown' = m
      BY <2>1
    <3>. HIDE DEF m
    <3>. QED BY <1>1, <3>1, <3>2 DEF ShownLines
  <2>4. TypeOK'
    BY <1>1, <2>1, <2>3 DEF BInv, TypeOK
  <2>. QED BY <1>1, <1>2, <2>1, <2>2, <2>3, <2>4
           DEF BInv, LinkInv, LastInv, BookIsShown, SetInv
<1>3. CASE link # "down"
  <2>1. shown' = Marked(book, "pending") /\ Send("user", 0, book)
    BY <1>3 DEF Change
  <2>2. /\ calls' \in Seq(Call) /\ lastOk' \in BOOLEAN /\ (link = "lost" => calls' = <<>>)
        /\ LastInv' /\ ~Settled'
    BY <1>1, <1>3, <2>1, SendKeeps, FileAssumption
  <2>3. shown' \in Shown
    BY <2>1, MarkedLines DEF Marks
  <2>4. TypeOK'
    BY <1>1, <2>2, <2>3 DEF BInv, TypeOK
  <2>. QED BY <1>1, <1>3, <2>2, <2>4 DEF BInv, LinkInv, BookIsShown, SetInv
<1>. QED
  BY <1>2, <1>3

LEMMA RunKeeps ==
  ASSUME BInv, RunToCursor
  PROVE  BInv'
<1>1. /\ ops' \in 0..MaxOps /\ link # "down" /\ cursor \in Lines
      /\ UNCHANGED <<set, link, here, cursor, handler>>
  BY FileAssumption DEF RunToCursor, BInv, TypeOK, Lines
<1>2. CASE cursor \in DOMAIN configs
  <2>1. /\ target' = cursor /\ added' = FALSE /\ paused' \in BOOLEAN
        /\ UNCHANGED <<configs, shown, calls, lastOk>>
    BY <1>2 DEF RunToCursor
  <2>3. ran' \in BOOLEAN
    BY <1>2, Zenon DEF RunToCursor
  <2>2. TypeOK'
    BY <1>1, <2>1, <2>3 DEF BInv, TypeOK
  <2>. QED BY <1>1, <2>1, <2>2
           DEF BInv, LinkInv, LastInv, Follows, BookIsShown, ShownLines, Settled, SetInv, SetLines
<1>3. CASE cursor \notin DOMAIN configs
  <2>1. /\ configs' = With(cursor, 0) /\ shown' = Marked(configs', "pending")
        /\ Send("cursor", cursor, configs') /\ UNCHANGED <<target, added, paused, ran>>
    BY <1>3 DEF RunToCursor
  <2>2. configs' \in Books
    BY <1>1, <2>1, EditedBooks, FileAssumption DEF BInv, TypeOK, Configs
  <2>3. cursor \in 0..MaxLine
    BY DEF BInv, TypeOK
  <2>4. /\ calls' \in Seq(Call) /\ lastOk' \in BOOLEAN /\ (link = "lost" => calls' = <<>>)
        /\ LastInv' /\ ~Settled'
    BY <1>1, <2>1, <2>2, <2>3, SendKeeps
  <2>5. shown' \in Shown
    BY <2>1, <2>2, MarkedLines DEF Marks
  <2>6. TypeOK'
    BY <1>1, <2>1, <2>2, <2>4, <2>5 DEF BInv, TypeOK
  <2>. QED BY <1>1, <2>4, <2>6 DEF BInv, LinkInv, BookIsShown, SetInv
<1>. QED
  BY <1>2, <1>3

LEMMA ChecksKeeps ==
  ASSUME BInv, Checks
  PROVE  BInv'
<1>1. /\ UNCHANGED <<shown, set, link, paused, here, cursor, ops, ran>>
      /\ handler' \in {"get", "clear"} /\ link \notin {"down", "lost"}
  BY DEF Checks, BInv, LinkInv
<1>4. target' \in 0..MaxLine
  <2>1. target' = target \/ target' = 0
    BY DEF Checks
  <2>. QED BY <2>1, FileAssumption DEF BInv, TypeOK
<1>5. added' \in BOOLEAN
  <2>1. added' = added \/ added' = FALSE
    BY DEF Checks
  <2>. QED BY <2>1, Zenon DEF BInv, TypeOK
<1>2. CASE UNCHANGED <<configs, calls, lastOk>>
  <2>1. TypeOK'
    BY <1>1, <1>2, <1>4, <1>5 DEF BInv, TypeOK
  <2>. QED BY <1>1, <1>2, <2>1
           DEF BInv, LinkInv, LastInv, Follows, BookIsShown, ShownLines, Settled, SetInv, SetLines
<1>3. CASE ~ UNCHANGED <<configs, calls, lastOk>>
  <2>1. target \in DOMAIN configs /\ configs' = Without(target) /\ Send("clear", 0, configs')
    BY <1>3 DEF Checks
  <2>2. configs' \in Books
    BY <2>1, BookShape, EditedBooks, FileAssumption DEF BInv, TypeOK, Configs
  <2>3. /\ calls' \in Seq(Call) /\ lastOk' \in BOOLEAN /\ LastInv' /\ ~Settled'
    BY <1>1, <2>1, <2>2, SendKeeps, FileAssumption
  <2>4. TypeOK'
    BY <1>1, <1>4, <1>5, <2>2, <2>3 DEF BInv, TypeOK
  <2>. QED BY <1>1, <2>3, <2>4 DEF BInv, LinkInv, BookIsShown, SetInv
<1>. QED
  BY <1>2, <1>3

LEMMA SyncKeeps ==
  ASSUME BInv, Sync
  PROVE  BInv'
<1>1. /\ link = "fresh" /\ link' = "up"
      /\ UNCHANGED <<configs, shown, set, target, added, paused, here, cursor, handler, ops, ran>>
  BY DEF Sync
<1>2. CASE configs = NoBook /\ UNCHANGED <<calls, lastOk>>
  <2>1. TypeOK'
    BY <1>1, <1>2 DEF BInv, TypeOK
  <2>2. SetInv'
    BY <1>1, <1>2 DEF BInv, SetInv, SetLines, Settled, NoBook
  <2>. QED BY <1>1, <1>2, <2>1, <2>2
           DEF BInv, LinkInv, LastInv, Follows, BookIsShown, ShownLines, Settled
<1>3. CASE configs # NoBook
  <2>1. configs \in Books /\ configs' = configs /\ Send("sync", 0, configs)
    BY <1>1, <1>3 DEF Sync, BInv, TypeOK
  <2>. DEFINE c == [why |-> "sync", line |-> 0, book |-> configs]
  <2>2. calls' = Append(calls, c) /\ c \in Call /\ calls \in Seq(Call) /\ lastOk' = lastOk
    BY <1>1, <2>1, FileAssumption DEF Send, Call, BInv, TypeOK
  <2>3. /\ calls' \in Seq(Call) /\ calls' # <<>> /\ Len(calls') = Len(calls) + 1
        /\ calls'[Len(calls) + 1] = c
    <3>. HIDE DEF c
    <3>. QED BY <2>2, AppendProperties
  <2>4. LastInv'
    BY <2>1, <2>3 DEF LastInv, Follows
  <2>5. TypeOK'
    BY <1>1, <2>2, <2>3 DEF BInv, TypeOK
  <2>. QED BY <1>1, <2>3, <2>4, <2>5 DEF BInv, LinkInv, BookIsShown, Settled, SetInv
<1>. QED
  BY <1>2, <1>3 DEF Sync

-----------------------------------------------------------------------------
(* Answers *)

(* After an answer the configurations stand on the lines that were moved   *)
(* to, and on those that the request did not hold.                         *)
LEMMA AnsweredLines ==
  ASSUME BInv, NEW b \in Books,
         configs' = IF Moved(b) /\ configs # NoBook THEN Normalised(b) ELSE configs
  PROVE  /\ configs' \in Books
         /\ DOMAIN configs' = {Resolve(l) : l \in DOMAIN b \cap DOMAIN configs}
                                 \cup (DOMAIN configs \ DOMAIN b)
<1>. configs \in Books
  BY DEF BInv, TypeOK
<1>1. CASE Moved(b) /\ configs # NoBook
  BY <1>1, NormalisedBook
<1>2. CASE ~Moved(b)
  BY <1>2 DEF Moved
<1>3. CASE configs = NoBook
  BY <1>3 DEF NoBook
<1>. QED
  BY <1>1, <1>2, <1>3

(* A book that the configurations follow is followed after any answer. *)
LEMMA StillFollows ==
  ASSUME NEW b \in Books, NEW c \in Books, Follows(c), configs \in Books,
         DOMAIN configs' = {Resolve(l) : l \in DOMAIN b \cap DOMAIN configs}
                              \cup (DOMAIN configs \ DOMAIN b)
  PROVE  Follows(c)'
<1>1. DOMAIN configs \subseteq Lines /\ DOMAIN c \subseteq Lines
  BY BookShape
<1>2. ASSUME NEW l \in DOMAIN configs'
      PROVE  l \in DOMAIN c \/ \E k \in DOMAIN c : l = Resolve(k)
  <2>1. CASE l \in DOMAIN configs \ DOMAIN b
    BY <2>1 DEF Follows
  <2>2. ASSUME NEW d \in DOMAIN configs, l = Resolve(d)
        PROVE  \E k \in DOMAIN c : l = Resolve(k)
    <3>1. CASE d \in DOMAIN c
      BY <2>2, <3>1
    <3>2. ASSUME NEW k \in DOMAIN c, d = Resolve(k) PROVE l = Resolve(k)
      BY <1>1, <2>2, <3>2, ResolveOnce
    <3>. QED BY <3>1, <3>2 DEF Follows
  <2>. QED BY <2>1, <2>2
<1>3. ASSUME NEW l \in DOMAIN c
      PROVE  l \in DOMAIN configs' \/ Resolve(l) \in DOMAIN configs'
  <2>1. Resolve(Resolve(l)) = Resolve(l)
    BY <1>1, ResolveOnce
  <2>. QED BY <2>1 DEF Follows
<1>4. c' = c
  OBVIOUS
<1>. QED
  BY <1>2, <1>3 DEF Follows

(* After the answer to a request that they followed, the configurations    *)
(* are on the lines that the adapter chose.                                *)
LEMMA FollowedAgrees ==
  ASSUME NEW b \in Books, Follows(b), configs \in Books,
         DOMAIN configs' = {Resolve(l) : l \in DOMAIN b \cap DOMAIN configs}
                              \cup (DOMAIN configs \ DOMAIN b)
  PROVE  {Resolve(l) : l \in DOMAIN b} = DOMAIN configs'
<1>1. DOMAIN b \subseteq Lines
  BY BookShape
<1>2. ASSUME NEW l \in DOMAIN b PROVE Resolve(l) \in DOMAIN configs'
  <2>1. Resolve(Resolve(l)) = Resolve(l)
    BY <1>1, ResolveOnce
  <2>. QED BY <2>1 DEF Follows
<1>3. ASSUME NEW l \in DOMAIN configs' PROVE l \in {Resolve(k) : k \in DOMAIN b}
  BY DEF Follows
<1>. QED
  BY <1>2, <1>3

(* The line of the run and of the cursor move with their breakpoint. *)
LEMMA TrackedLine ==
  ASSUME NEW b \in Books, NEW l \in 0..MaxLine
  PROVE  Tracked(l, b) \in 0..MaxLine
<1>1. \A k \in DOMAIN b : Resolve(k) \in 0..MaxLine
  BY BookShape, ResolveOnce DEF Lines
<1>. QED
  BY <1>1 DEF Tracked

(* What is on its way after the first request has been answered or failed. *)
LEMMA Popped ==
  ASSUME BInv, calls # <<>>
  PROVE  /\ Head(calls) \in Call /\ Tail(calls) \in Seq(Call)
         /\ Tail(calls) = <<>> => Head(calls) = calls[Len(calls)]
         /\ Tail(calls) # <<>> => Tail(calls)[Len(Tail(calls))] = calls[Len(calls)]
         /\ calls[Len(calls)] \in Call
         /\ link \notin {"down", "lost"}
<1>1. calls \in Seq(Call)
  BY DEF BInv, TypeOK
<1>2. /\ Head(calls) \in Call /\ Tail(calls) \in Seq(Call) /\ Len(Tail(calls)) = Len(calls) - 1
      /\ \A i \in 1..Len(Tail(calls)) : Tail(calls)[i] = calls[i + 1]
  BY <1>1, HeadTailProperties
<1>3. Len(calls) \in Nat /\ Len(calls) # 0 /\ Head(calls) = calls[1]
  BY <1>1
<1>4. Tail(calls) = <<>> => Head(calls) = calls[Len(calls)]
  <2>1. Tail(calls) = <<>> => Len(Tail(calls)) = 0
    <3>1. Len(<<>>) = 0
      OBVIOUS
    <3>. QED BY <3>1, Zenon
  <2>2. Tail(calls) = <<>> => Len(calls) = 1
    BY <1>2, <1>3, <2>1
  <2>. QED BY <1>3, <2>2
<1>5. Tail(calls) # <<>> => Tail(calls)[Len(Tail(calls))] = calls[Len(calls)]
  <2>1. SUFFICES ASSUME Tail(calls) # <<>>
                 PROVE  Tail(calls)[Len(Tail(calls))] = calls[Len(calls)]
    OBVIOUS
  <2>2. Len(Tail(calls)) \in Nat /\ Len(Tail(calls)) # 0
    <3>. DEFINE t == Tail(calls)
    <3>1. t \in Seq(Call) /\ t # <<>>
      BY <1>2, <2>1
    <3>. HIDE DEF t
    <3>2. Len(t) \in Nat /\ Len(t) # 0
      BY <3>1
    <3>. QED BY <3>2 DEF t
  <2>. QED BY <1>2, <1>3, <2>2
<1>6. calls[Len(calls)] \in Call
  BY <1>1, <1>3
<1>. QED
  BY <1>2, <1>4, <1>5, <1>6 DEF BInv, LinkInv

LEMMA AnsweredKeeps ==
  ASSUME BInv, Answered
  PROVE  BInv'
<1>1. /\ calls # <<>> /\ calls' = Tail(calls) /\ lastOk' = TRUE
      /\ UNCHANGED <<link, here, ops>>
  BY DEF Answered
<1>. DEFINE c == Head(calls)
<1>2. c \in Call /\ calls[Len(calls)] \in Call
  BY <1>1, Popped
<1>3. PICK b \in Books : b = c.book
  BY <1>2 DEF Call
<1>4. PICK e \in Books : e = calls[Len(calls)].book
  BY <1>2 DEF Call
<1>5. Follows(e)
  BY <1>1, <1>4 DEF BInv, LastInv
<1>6. /\ configs' \in Books
      /\ DOMAIN configs' = {Resolve(l) : l \in DOMAIN b \cap DOMAIN configs}
                              \cup (DOMAIN configs \ DOMAIN b)
  <2>1. configs' = IF Moved(b) /\ configs # NoBook THEN Normalised(b) ELSE configs
    BY <1>3 DEF Answered
  <2>. QED BY <2>1, AnsweredLines
<1>7. set' = b /\ shown' = [l \in DOMAIN b |-> [line |-> Resolve(l), mark |-> "set"]]
  BY <1>3 DEF Answered
<1>8. shown' \in Shown /\ {shown'[l].line : l \in DOMAIN shown'} = {Resolve(l) : l \in DOMAIN b}
  <2>1. DOMAIN b \subseteq Lines /\ \A l \in DOMAIN b : Resolve(l) \in Lines
    BY BookShape, ResolveOnce
  <2>2. shown' \in [DOMAIN b -> [line : Lines, mark : Marks]]
    BY <1>7, <2>1 DEF Marks
  <2>. QED BY <1>7, <2>1, <2>2 DEF Shown
<1>9. TypeOK'
  <2>1. target' \in 0..MaxLine /\ cursor' \in 0..MaxLine
    <3>1. target \in 0..MaxLine /\ cursor \in 0..MaxLine
      BY DEF BInv, TypeOK
    <3>2. Tracked(target, b) \in 0..MaxLine /\ Tracked(cursor, b) \in 0..MaxLine
      BY <3>1, TrackedLine
    <3>3. target' \in {c.line, target, Tracked(target, b)} /\ cursor' \in {cursor, Tracked(cursor, b)}
      BY <1>3 DEF Answered
    <3>. QED BY <1>2, <3>1, <3>2, <3>3 DEF Call
  <2>2. added' \in BOOLEAN
    BY Zenon DEF Answered
  <2>3. paused' \in BOOLEAN
    <3>1. paused' = paused \/ paused' = FALSE
      BY DEF Answered
    <3>. QED BY <3>1, Zenon DEF BInv, TypeOK
  <2>7. ran' \in BOOLEAN
    <3>1. ran' = ran \/ ran' = (paused /\ ~paused')
      BY DEF Answered
    <3>. QED BY <3>1, Zenon DEF BInv, TypeOK
  <2>4. handler' \in {"get", "refresh", "clear", "dead"}
    BY DEF Answered, BInv, TypeOK
  <2>5. calls' \in Seq(Call)
    BY <1>1, Popped
  <2>6. set' \in Books /\ lastOk' \in BOOLEAN /\ here' \in 0..MaxLine /\ ops' \in 0..MaxOps
        /\ link' \in {"down", "fresh", "up", "lost"}
    BY <1>1, <1>7 DEF BInv, TypeOK
  <2>. QED BY <1>6, <1>8, <2>1, <2>2, <2>3, <2>4, <2>5, <2>6, <2>7 DEF TypeOK
<1>10. LinkInv'
  BY <1>1, Popped DEF LinkInv
<1>11. LastInv'
  <2>1. Follows(e)'
    BY <1>5, <1>6, StillFollows DEF BInv, TypeOK
  <2>2. calls' # <<>> => calls'[Len(calls')].book = e
    BY <1>1, <1>4, Popped
  <2>. QED BY <2>1, <2>2 DEF LastInv, Follows
<1>12. calls' = <<>> => {Resolve(l) : l \in DOMAIN b} = DOMAIN configs'
  <2>1. SUFFICES ASSUME calls' = <<>> PROVE {Resolve(l) : l \in DOMAIN b} = DOMAIN configs'
    OBVIOUS
  <2>2. b = e
    BY <1>1, <1>3, <1>4, <2>1, Popped
  <2>. QED BY <1>5, <1>6, <2>2, FollowedAgrees DEF BInv, TypeOK
<1>13. BookIsShown'
  BY <1>1, <1>8, <1>12, Popped DEF BookIsShown, ShownLines, Settled
<1>14. SetInv'
  BY <1>7, <1>12 DEF SetInv, SetLines, Settled
<1>. QED
  BY <1>9, <1>10, <1>11, <1>13, <1>14 DEF BInv

LEMMA FailedKeeps ==
  ASSUME BInv, Failed
  PROVE  BInv'
<1>1. /\ calls # <<>> /\ lastOk' = FALSE
      /\ UNCHANGED <<configs, shown, target, added, paused, here, cursor, ops, ran>>
  BY DEF Failed
<1>2. /\ Head(calls) \in Call /\ calls' \in Seq(Call)
      /\ calls' # <<>> => calls' = Tail(calls)
      /\ link' = "lost" => calls' = <<>>
      /\ link' \in {"lost", link} /\ link \notin {"down", "lost"}
      /\ link' = "lost" => handler' = "dead"
  BY <1>1, Popped DEF Failed
<1>3. set' \in Books
  BY <1>2 DEF Failed, BInv, TypeOK, Call
<1>4. handler' \in {"get", "refresh", "clear", "dead"}
  BY DEF Failed, BInv, TypeOK
<1>5. TypeOK'
  BY <1>1, <1>2, <1>3, <1>4 DEF BInv, TypeOK
<1>6. LastInv'
  <2>1. calls' # <<>> => calls'[Len(calls')] = calls[Len(calls)]
    BY <1>1, <1>2, Popped
  <2>. QED BY <1>1, <2>1 DEF BInv, LastInv, Follows
<1>. QED
  BY <1>1, <1>2, <1>5, <1>6 DEF BInv, LinkInv, BookIsShown, Settled, SetInv

-----------------------------------------------------------------------------
(* The session *)

LEMMA SessionKeeps ==
  ASSUME BInv, Connect \/ Ends \/ Reset
  PROVE  BInv'
<1>1. CASE Connect
  <2>1. NoBook \in Books /\ DOMAIN NoBook = {}
    <3>1. NoBook \in [{} -> Configs]
      BY DEF NoBook
    <3>. QED BY <3>1 DEF Books
  <2>2. TypeOK'
    BY <1>1, <2>1 DEF Connect, BInv, TypeOK
  <2>. QED BY <1>1, <2>1, <2>2
           DEF Connect, BInv, LinkInv, LastInv, BookIsShown, ShownLines, Settled, SetInv
<1>2. CASE Ends
  <2>1. lastOk' \in BOOLEAN
    BY <1>2, Zenon DEF Ends
  <2>2. TypeOK'
    BY <1>2, <2>1 DEF Ends, BInv, TypeOK
  <2>3. Settled' => Settled
    BY <1>2 DEF Ends, Settled
  <2>. QED BY <1>2, <2>2, <2>3
           DEF Ends, BInv, LinkInv, LastInv, BookIsShown, ShownLines, SetInv
<1>3. CASE Reset
  <2>1. /\ DOMAIN shown' = DOMAIN shown /\ shown' \in Shown
        /\ \A l \in DOMAIN shown : shown'[l].line = shown[l].line /\ shown'[l].mark = "queued"
    <3>1. PICK S \in SUBSET Lines : shown \in [S -> [line : Lines, mark : Marks]]
      BY DEF BInv, TypeOK, Shown
    <3>2. \A l \in S : [shown[l] EXCEPT !.mark = "queued"] \in [line : Lines, mark : Marks]
                       /\ [shown[l] EXCEPT !.mark = "queued"].line = shown[l].line
                       /\ [shown[l] EXCEPT !.mark = "queued"].mark = "queued"
      BY <3>1 DEF Marks
    <3>3. shown' = [l \in S |-> [shown[l] EXCEPT !.mark = "queued"]]
      BY <1>3, <3>1 DEF Reset
    <3>4. shown' \in [S -> [line : Lines, mark : Marks]]
      BY <3>2, <3>3
    <3>. QED BY <3>1, <3>2, <3>3, <3>4 DEF Shown
  <2>2. ShownLines' = ShownLines
    BY <2>1 DEF ShownLines
  <2>4. added' \in BOOLEAN /\ paused' \in BOOLEAN
    BY <1>3, Zenon DEF Reset
  <2>5. target' \in 0..MaxLine /\ here' \in 0..MaxLine /\ cursor' \in 0..MaxLine
    BY <1>3, FileAssumption DEF Reset
  <2>3. TypeOK'
    BY <1>3, <2>1, <2>4, <2>5 DEF Reset, BInv, TypeOK
  <2>. QED BY <1>3, <2>1, <2>2, <2>3
           DEF Reset, BInv, LinkInv, LastInv, BookIsShown, Settled, SetInv
<1>. QED
  BY <1>1, <1>2, <1>3

(* Steps that touch neither the breakpoints nor the requests. *)
LEMMA OthersKeep ==
  ASSUME BInv, UNCHANGED <<configs, shown, set, calls, link, ops, lastOk>>, TypeOK', LinkInv'
  PROVE  BInv'
BY DEF BInv, LastInv, Follows, BookIsShown, ShownLines, Settled, SetInv, SetLines

LEMMA BStep == BInv /\ [Next]_vars => BInv'
<1>. SUFFICES ASSUME BInv, [Next]_vars PROVE BInv'
  OBVIOUS
<1>1. ASSUME NEW l \in Lines, Toggle(l) PROVE BInv'
  <2>1. 0 \in Configs /\ configs \in Books
    BY FileAssumption DEF Configs, BInv, TypeOK
  <2>2. With(l, 0) \in Books /\ Without(l) \in Books
    BY <2>1, EditedBooks
  <2>. QED BY <1>1, <2>2, ChangeKeeps DEF Toggle
<1>2. ASSUME NEW l \in Lines, NEW w \in Configs, Configure(l, w) PROVE BInv'
  BY <1>2, EditedBooks, ChangeKeeps DEF Configure, BInv, TypeOK
<1>3. ASSUME NEW l \in Lines, MoveCursor(l) PROVE BInv'
  BY <1>3, OthersKeep DEF MoveCursor, BInv, TypeOK, LinkInv, Lines
<1>4. ASSUME NEW l \in (Lines \ Blank) \cup {0}, Stopped(l) PROVE BInv'
  BY <1>4, OthersKeep, FileAssumption DEF Stopped, BInv, TypeOK, LinkInv, Lines
<1>5. CASE Resume
  BY <1>5, OthersKeep DEF Resume, BInv, TypeOK, LinkInv
<1>6. CASE RefreshFails
  BY <1>6, OthersKeep DEF RefreshFails, BInv, TypeOK, LinkInv
<1>7. CASE UNCHANGED vars
  BY <1>7, OthersKeep DEF vars, sessionVars, BInv, TypeOK, LinkInv
<1>. QED
  BY <1>1, <1>2, <1>3, <1>4, <1>5, <1>6, <1>7, RunKeeps, AnsweredKeeps, FailedKeeps,
     SessionKeeps, SyncKeeps, ChecksKeeps
  DEF Next

LEMMA BInvariance == Spec => []BInv
  BY BInit, BStep, PTL DEF Spec

-----------------------------------------------------------------------------
(* Every variable keeps its type: no line outside the file, no              *)
(* configuration but the given ones, whatever answers and changes overtake. *)
THEOREM BreakpointsTypeCorrect == Spec => []TypeOK
<1>1. BInv => TypeOK
  BY DEF BInv
<1>. QED
  BY <1>1, BInvariance, PTL

(* Once the last request was answered the store shows the breakpoints that *)
(* the manager keeps, and without a session all of them are queued.        *)
THEOREM StoreShowsBook == Spec => []BookIsShown
<1>1. BInv => BookIsShown
  BY DEF BInv
<1>. QED
  BY <1>1, BInvariance, PTL

(* And the adapter has breakpoints on those lines and on no other. *)
THEOREM AdapterHasBook == Spec => []BookIsSet
<1>1. BInv => BookIsSet
  BY DEF BInv, SetInv, SetLines, BookIsSet
<1>. QED
  BY <1>1, BInvariance, PTL
=============================================================================
