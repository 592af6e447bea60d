--------------------------- MODULE InspectorProofs ---------------------------
(***************************************************************************)
(* Proofs about Inspector, for any number of stops, user actions, message  *)
(* pumps and Select.Changed messages, any length of the lists, page size   *)
(* and depth.                                                              *)
(***************************************************************************)
EXTENDS Inspector, FiniteSetTheorems, TLAPS

-----------------------------------------------------------------------------
(* Lists *)

(* Consecutive variables of the list under r, each plain or with the       *)
(* reference of its own list *)
IsRun(list, r) ==
  /\ list \in Seq(Variable)
  /\ \A i \in DOMAIN list : /\ list[i].ref \in {None, Child(r)}
                            /\ list[i].n = list[1].n + (i - 1)

(* Where the list goes on: after its last variable, or nowhere; an adapter *)
(* that does not page sends whole lists. *)
GoesOn(list, more, m) ==
  /\ more \in 0..Total
  /\ more # 0 => m # "whole" /\ list # <<>> /\ more = list[Len(list)].n

(* A beginning of the list under r that goes on at `more` *)
IsBeginning(list, more, r, m) ==
  IsRun(list, r) /\ GoesOn(list, more, m) /\ IsPrefix(list, more)

(* r is of the scope that is shown. *)
IsBelow(r, shown) == shown # None /\ r[1] = shown[1] /\ r[2] = shown[2]

-----------------------------------------------------------------------------
(* The inductive invariant *)

IsFcn(f) == f = [x \in DOMAIN f |-> f[x]]

(* The fields of a table *)
IsTable(t) ==
  /\ t = [gen |-> t.gen, root |-> t.root, rootRef |-> t.rootRef, rootNext |-> t.rootNext,
          expanded |-> t.expanded, cache |-> t.cache, next |-> t.next,
          visible |-> t.visible, fetching |-> t.fetching]
  /\ t.rootRef \in Refs \cup {None}
  /\ IsFcn(t.cache) /\ IsFcn(t.next) /\ IsFcn(t.visible) /\ IsFcn(t.fetching)
  /\ DOMAIN t.cache \subseteq Refs /\ t.expanded \subseteq DOMAIN t.cache
  /\ DOMAIN t.next = DOMAIN t.cache /\ DOMAIN t.visible = DOMAIN t.cache

(* A cached list has no gap, is of the scope that is shown unless it is    *)
(* empty, and is a beginning unless an edit brought it back.               *)
CacheInv(t, back, m) ==
  \A r \in DOMAIN t.cache :
    /\ IsRun(t.cache[r], r) /\ GoesOn(t.cache[r], t.next[r], m)
    /\ t.visible[r] \in 0..Len(t.cache[r])
    /\ t.cache[r] # <<>> => IsBelow(r, t.rootRef)
    /\ r \in back \/ IsPrefix(t.cache[r], t.next[r])

(* The root list is a beginning; while it is not there nothing is open and *)
(* nothing is fetched.                                                     *)
RootInv(t, m) ==
  \/ t.rootNext = None /\ t.root = <<>> /\ t.expanded = {} /\ DOMAIN t.fetching = {}
  \/ t.rootRef \in Refs /\ IsBeginning(t.root, t.rootNext, t.rootRef, m)

(* A request of the table that is still the current one for its list goes  *)
(* on where the list ends. *)
Ask == [at : {"expand", "more", "root"}, ref : Refs, start : 0..Total]

Continues(t, o, m) ==
  /\ o.at = "expand" => o.start = 0
  /\ o.at # "expand" => o.start # 0 /\ m # "whole"
  /\ (o.at = "more" /\ o.ref \in DOMAIN t.cache /\ t.cache[o.ref] # <<>>) =>
       o.start = t.cache[o.ref][Len(t.cache[o.ref])].n
  /\ o.at = "root" => o.ref = t.rootRef /\ o.start = t.rootNext

FetchInv(t, ops, m) ==
  \A r \in DOMAIN t.fetching :
    /\ r \in Refs /\ IsBelow(r, t.rootRef)
    /\ t.fetching[r] \in Pumps
    /\ ops[t.fetching[r]] \in Ask /\ ops[t.fetching[r]].ref = r
    /\ Continues(t, ops[t.fetching[r]], m)

TableInv(t, ops, back, m) ==
  IsTable(t) /\ CacheInv(t, back, m) /\ RootInv(t, m) /\ FetchInv(t, ops, m)

(* The pages in the store are of its scopes. *)
PagesInv ==
  /\ pages = [n \in Names |-> pages[n]]
  /\ \A n \in Names :
       \/ pages[n] = None
       \/ /\ pages[n] \in Page /\ scopes # 0
          /\ IsBeginning(pages[n].vars, pages[n].next, ScopeRef(scopes, n), mode)

(* A load whose answer may still be used is newer than what is shown, or   *)
(* of the same stop. *)
LoadInv(l) ==
  \/ loads[l] = Idle
  \/ loads[l] = [at |-> "scopes", frame |-> loads[l].frame] /\ loads[l].frame \in 1..stop
  \/ /\ loads[l] = [at |-> "page", frame |-> loads[l].frame, gen |-> loads[l].gen,
                    prev |-> loads[l].prev, pick |-> loads[l].pick]
     /\ loads[l].frame \in 1..stop /\ loads[l].gen \in 0..MaxGen /\ loads[l].pick \in Names
     /\ loads[l].prev \in {None, loads[l].pick}
     /\ (loads[l].frame = frame /\ loads[l].gen = gen /\ scopes # 0) => scopes = frame

(* The last of the messages of the Select is what it shows. *)
SelectInv(sel, msgs, sh) ==
  sel = IF msgs = <<>> THEN sh ELSE msgs[Len(msgs)]

(* The scope that is shown: the store, the panel, the Select and the table *)
ShownInv ==
  /\ pGen = gen /\ table.gen = gen
  /\ IF scopes = 0
     THEN selName = None /\ pSel = None /\ select = None /\ task = None /\ table.rootNext = None
     ELSE /\ pSel \in Names /\ selName = pSel /\ select \in Names
          /\ table.rootRef = ScopeRef(scopes, pSel)
          /\ SelectInv(select, changes, pSel)
  /\ task # None => /\ task = [key |-> <<pSel, gen>>, ref |-> ScopeRef(scopes, pSel)]
                    /\ scopes # 0 /\ table.rootNext = None
  /\ NoStuckLoading

BoundsInv ==
  /\ stop \in 0..MaxStop /\ frame \in 0..stop /\ scopes \in 0..stop /\ gen \in 0..MaxGen
  /\ mode \in {"counted", "uncounted", "whole"}
  /\ plain \subseteq Refs /\ crossed \subseteq Refs
  /\ changes \in Seq(Names)
  /\ loads = [l \in Loaders |-> loads[l]]
  /\ op = [p \in Pumps |-> op[p]]
  /\ \A p \in Pumps : op[p] = Idle \/ op[p] \in Ask
  /\ edit = None \/ edit \in Editing

IInv ==
  /\ BoundsInv /\ ShownInv /\ PagesInv
  /\ \A l \in Loaders : LoadInv(l)
  /\ TableInv(table, op, crossed, mode)
-----------------------------------------------------------------------------
(* Lists and pages *)

LEMMA NamesAre == Names = {"Locals", "Globals"}
BY DEF Names, Order, Range

(* None is none of the values that it stands beside. *)
LEMMA NoneIsNoValue ==
  ASSUME InspectorAssumption
  PROVE  None \notin Nat /\ None \notin Names /\ None \notin Refs /\ None \notin Page
         /\ None \notin Task /\ None \notin Editing
BY DEF InspectorAssumption

LEMMA NoneIsNoNext ==
  ASSUME InspectorAssumption
  PROVE  None \notin 0..Total /\ None \notin Refs
BY NoneIsNoValue DEF InspectorAssumption

(* A list read at all its places is the list. *)
LEMMA AllPlaces ==
  ASSUME NEW S, NEW list \in Seq(S)
  PROVE  AtPlaces(list, DOMAIN list) = list
<1> DEFINE n == Len(list)
           upto(i) == {j \in DOMAIN list : j <= i}
<1>1. n \in Nat /\ DOMAIN list = 1..n
  OBVIOUS
<1>2. ASSUME NEW i \in 1..n PROVE Cardinality(upto(i)) = i
  <2>1. upto(i) = 1..i
    BY <1>1
  <2>2. Cardinality(1..i) = i
    BY <1>1, FS_Interval
  <2> QED
    BY <2>1, <2>2
<1>3. Cardinality(DOMAIN list) = n
  BY <1>1, FS_Interval
<1>4. ASSUME NEW k \in 1..n
      PROVE  (CHOOSE i \in DOMAIN list : Cardinality(upto(i)) = k) = k
  <2>1. \A i \in DOMAIN list : Cardinality(upto(i)) = k <=> i = k
    BY <1>1, <1>2
  <2> HIDE DEF upto
  <2> QED
    BY <1>1, <2>1
<1>5. AtPlaces(list, DOMAIN list) =
        [k \in 1..n |-> list[CHOOSE i \in DOMAIN list : Cardinality(upto(i)) = k]]
  BY <1>3 DEF AtPlaces
<1>6. AtPlaces(list, DOMAIN list) = [k \in 1..n |-> list[k]]
  BY <1>4, <1>5
<1> QED
  BY <1>1, <1>6

(* What a list does not hold yet, of a run that comes after it, is all.    *)
LEMMA AllNew ==
  ASSUME NEW r, NEW list, IsRun(list, r), NEW more, IsRun(more, r),
         (list # <<>> /\ more # <<>>) => list[Len(list)].n < more[1].n
  PROVE  NewVariables(list, more) = more
<1> DEFINE known == {list[i].n : i \in DOMAIN list}
<1>1. ASSUME NEW j \in DOMAIN more PROVE more[j].n \notin known
  <2> SUFFICES ASSUME NEW i \in DOMAIN list, list[i].n = more[j].n PROVE FALSE
    OBVIOUS
  <2>1. /\ list \in Seq(Variable) /\ more \in Seq(Variable)
        /\ i \in 1..Len(list) /\ j \in 1..Len(more)
        /\ Len(list) \in Nat /\ Len(more) \in Nat
    BY DEF IsRun
  <2>2. list[1].n \in Nat /\ more[1].n \in Nat
    <3>1. list[1] \in Variable /\ more[1] \in Variable
      BY <2>1
    <3> QED
      BY <3>1 DEF Variable
  <2>3. list[i].n = list[1].n + (i - 1) /\ list[Len(list)].n = list[1].n + (Len(list) - 1)
    BY <2>1 DEF IsRun
  <2>4. more[j].n = more[1].n + (j - 1)
    BY <2>1 DEF IsRun
  <2>5. list[Len(list)].n < more[1].n
    BY <2>1
  <2>6. list[i].n \in Int /\ list[Len(list)].n \in Int /\ list[i].n <= list[Len(list)].n
    BY <2>1, <2>2, <2>3
  <2>7. more[j].n \in Int /\ more[1].n <= more[j].n
    BY <2>1, <2>2, <2>4
  <2> QED
    BY <2>2, <2>5, <2>6, <2>7
<1>2. {j \in DOMAIN more : more[j].n \notin known} = DOMAIN more
  BY <1>1
<1> QED
  BY <1>2, AllPlaces DEF NewVariables, IsRun

(* A page is a run of the list from where it was asked for on, and says    *)
(* where the list goes on. *)
LEMMA PageIsRun ==
  ASSUME InspectorAssumption, mode \in {"counted", "uncounted", "whole"},
         NEW r \in Refs, NEW start \in 0..Total, start = 0 \/ mode # "whole"
  PROVE  LET page == GetPage(r, start) IN
         /\ page = [vars |-> page.vars, next |-> page.next]
         /\ IsRun(page.vars, r)
         /\ page.vars # <<>> => page.vars[1].n = start + 1
         /\ start + Len(page.vars) <= Total
         /\ page.vars = <<>> => start = Total
         /\ mode = "whole" => page.next = 0
         /\ page.next = IF mode = "whole" THEN 0 ELSE NextStart(start, PageSize, Len(page.vars))
         /\ page.next = 0 => start + Len(page.vars) = Total
         /\ page.next # 0 => page.vars # <<>> /\ page.next = start + Len(page.vars)
         /\ Len(page.vars) < PageSize => start + Len(page.vars) = Total
<1> DEFINE page == GetPage(r, start)
           all == Content(r)
<1>1. Total \in Nat /\ Total > 0 /\ PageSize \in Nat /\ PageSize > 0 /\ Depth \in Nat
  BY DEF InspectorAssumption
<1>2. \A i \in 1..Total : all[i].n = i /\ all[i].ref \in {None, Child(r)} /\ all[i] \in Variable
  <2>1. r[3] < Depth => Child(r) \in Refs
    BY <1>1 DEF Refs, Child
  <2> QED
    BY <2>1 DEF Content, Variable
<1>3. all \in Seq(Variable) /\ Len(all) = Total
  <2>1. all = [i \in 1..Total |-> all[i]]
    BY DEF Content
  <2> HIDE DEF all
  <2> QED
    BY <1>1, <1>2, <2>1
<1> HIDE DEF all
<1>4. CASE mode = "whole"
  <2>1. page = [vars |-> all, next |-> 0] /\ start = 0
    BY <1>4 DEF GetPage, all
  <2>2. IsRun(all, r)
    BY <1>1, <1>2, <1>3 DEF IsRun
  <2> QED
    BY <1>1, <1>2, <1>3, <1>4, <2>1, <2>2
<1>5. CASE mode # "whole"
  <2> DEFINE to == MinOf(start + PageSize, Total)
             slice == SubSeq(all, start + 1, to)
  <2>1. to \in Nat /\ to <= Total /\ start <= to /\ to <= start + PageSize
        /\ (to < start + PageSize => to = Total)
        /\ (start = to => start = Total)
    BY <1>1 DEF MinOf
  <2> HIDE DEF to
  <2>2. slice \in Seq(Variable) /\ Len(slice) = to - start
        /\ \A i \in 1..(to - start) : slice[i] = all[start + i]
    BY <1>1, <1>3, <2>1
  <2>3. page = [vars |-> slice, next |-> NextStart(start, PageSize, Len(slice))]
    BY <1>5 DEF GetPage, to, all
  <2> HIDE DEF slice
  <2>4. IsRun(slice, r)
    <3>1. DOMAIN slice = 1..(to - start)
      BY <1>1, <2>1, <2>2
    <3>2. ASSUME NEW i \in 1..(to - start)
          PROVE  slice[i].ref \in {None, Child(r)} /\ slice[i].n = start + i
      BY <1>1, <1>2, <2>1, <2>2
    <3>3. \A i \in 1..(to - start) : slice[i].n = slice[1].n + (i - 1)
      BY <1>1, <2>1, <3>2
    <3> QED
      BY <2>2, <3>1, <3>2, <3>3 DEF IsRun
  <2>5. slice # <<>> => slice[1].n = start + 1
    BY <1>1, <1>2, <2>1, <2>2
  <2>6. slice = <<>> <=> Len(slice) = 0
    BY <2>2
  <2>7. page.vars = slice /\ page.next = NextStart(start, PageSize, Len(slice))
    BY <2>3
  <2>8. start + Len(slice) = to
    BY <1>1, <2>1, <2>2
  <2>9. /\ page.next = 0 => to = Total
        /\ page.next # 0 => Len(slice) # 0 /\ page.next = to
    BY <1>1, <1>5, <2>1, <2>2, <2>7, <2>8 DEF NextStart
  <2>10. Len(page.vars) < PageSize => start + Len(page.vars) = Total
    BY <1>1, <2>1, <2>2, <2>7
  <2>11. page = [vars |-> page.vars, next |-> page.next]
    BY <2>3, <2>7
  <2> HIDE DEF page
  <2> QED
    BY <1>1, <1>5, <2>1, <2>4, <2>5, <2>6, <2>7, <2>8, <2>9, <2>10, <2>11 DEF page
<1> QED
  BY <1>4, <1>5

(* A beginning is not empty and ends with the variable of its length. *)
LEMMA BeginningFacts ==
  ASSUME InspectorAssumption, NEW list, NEW more, NEW r, NEW m, IsBeginning(list, more, r, m)
  PROVE  /\ list \in Seq(Variable) /\ Len(list) \in 1..Total /\ list # <<>>
         /\ list[1].n = 1 /\ list[Len(list)].n = Len(list)
         /\ more \in {0, Len(list)}
<1>1. list \in Seq(Variable) /\ Total \in Nat /\ Total > 0
  BY DEF IsBeginning, IsRun, InspectorAssumption
<1>2. \A i \in 1..Len(list) : list[i].n = i
  BY <1>1 DEF IsBeginning, IsPrefix
<1>3. list # <<>>
  BY <1>1 DEF IsBeginning, IsPrefix, GoesOn
<1>4. Len(list) \in Nat /\ Len(list) > 0
  BY <1>1, <1>3
<1>5. list[Len(list)] \in Variable
  BY <1>1, <1>4
<1>6. list[Len(list)].n \in 1..Total
  BY <1>5 DEF Variable
<1> QED
  BY <1>1, <1>2, <1>3, <1>4, <1>6 DEF IsBeginning, GoesOn

(* A run and a run that follows it are one. *)
AreOneRun(list, more, r) ==
  LET all == list \o more IN
  /\ IsRun(all, r) /\ Len(all) = Len(list) + Len(more)
  /\ list # <<>> => all[1] = list[1]
  /\ list = <<>> => all = more
  /\ more = <<>> => all = list
  /\ more # <<>> => all[Len(all)] = more[Len(more)]

LEMMA JoinedRuns ==
  ASSUME NEW r, NEW list, IsRun(list, r), NEW more, IsRun(more, r),
         (list # <<>> /\ more # <<>>) => more[1].n = list[Len(list)].n + 1
  PROVE  AreOneRun(list, more, r)
<1> DEFINE all == list \o more
<1>1. list \in Seq(Variable) /\ more \in Seq(Variable)
  BY DEF IsRun
<1>2. /\ all \in Seq(Variable) /\ Len(all) = Len(list) + Len(more)
      /\ \A i \in 1..Len(list) : all[i] = list[i]
      /\ \A i \in 1..Len(more) : all[Len(list) + i] = more[i]
  BY <1>1
<1>3. (list = <<>> => all = more) /\ (more = <<>> => all = list)
  BY <1>1
<1> HIDE DEF all
<1>4. Len(list) \in Nat /\ Len(more) \in Nat /\ Len(all) \in Nat
  BY <1>1, <1>2
<1>5. CASE list = <<>> \/ more = <<>>
  <2>1. IsRun(all, r)
    BY <1>3, <1>5
  <2> QED
    BY <1>1, <1>2, <1>3, <1>4, <1>5, <2>1 DEF AreOneRun, all
<1>6. CASE list # <<>> /\ more # <<>>
  <2>1. Len(list) > 0 /\ Len(more) > 0
    BY <1>1, <1>6
  <2>2. all[1] = list[1] /\ all[Len(all)] = more[Len(more)]
    BY <1>2, <1>4, <2>1
  <2>3. list[1] \in Variable /\ list[Len(list)] \in Variable
    BY <1>1, <1>4, <2>1
  <2>4. list[1].n \in Int
    BY <2>3 DEF Variable
  <2>5. list[Len(list)].n = list[1].n + (Len(list) - 1)
    BY <1>1, <1>4, <2>1 DEF IsRun
  <2>6. ASSUME NEW i \in 1..Len(all)
        PROVE  all[i].ref \in {None, Child(r)} /\ all[i].n = all[1].n + (i - 1)
    <3>1. CASE i <= Len(list)
      <4>1. i \in DOMAIN list /\ all[i] = list[i]
        BY <1>1, <1>2, <1>4, <3>1
      <4> QED
        BY <2>2, <4>1 DEF IsRun
    <3>2. CASE i > Len(list)
      <4> DEFINE j == i - Len(list)
      <4>1. j \in 1..Len(more) /\ i = Len(list) + j
        BY <1>2, <1>4, <3>2
      <4> HIDE DEF j
      <4>2. all[i] = more[j]
        BY <1>2, <4>1
      <4>3. more[j].ref \in {None, Child(r)} /\ more[j].n = more[1].n + (j - 1)
        <5>1. j \in DOMAIN more
          BY <1>1, <1>4, <4>1
        <5> QED
          BY <5>1 DEF IsRun
      <4>4. more[1].n = list[1].n + Len(list)
        BY <1>4, <1>6, <2>4, <2>5
      <4>5. list[1].n + Len(list) + (j - 1) = list[1].n + (i - 1)
        BY <1>4, <2>4, <4>1
      <4>6. all[i].n = list[1].n + (i - 1)
        BY <4>2, <4>3, <4>4, <4>5
      <4> QED
        BY <2>2, <4>2, <4>3, <4>6
    <3> QED
      BY <1>4, <3>1, <3>2
  <2>7. IsRun(all, r)
    <3>1. all \in Seq(Variable) /\ DOMAIN all = 1..Len(all)
      BY <1>2
    <3> QED
      BY <2>6, <3>1 DEF IsRun
  <2> QED
    BY <1>2, <1>6, <2>2, <2>7 DEF AreOneRun, all
<1> QED
  BY <1>5, <1>6

(* The first page of a list is a beginning. *)
LEMMA FirstPage ==
  ASSUME InspectorAssumption, mode \in {"counted", "uncounted", "whole"}, NEW r \in Refs
  PROVE  LET page == GetPage(r, 0) IN
         /\ page = [vars |-> page.vars, next |-> page.next] /\ page \in Page
         /\ IsBeginning(page.vars, page.next, r, mode)
<1> DEFINE page == GetPage(r, 0)
<1>1. Total \in Nat /\ Total > 0
  BY DEF InspectorAssumption
<1>2. /\ page = [vars |-> page.vars, next |-> page.next]
      /\ IsRun(page.vars, r)
      /\ page.vars # <<>> => page.vars[1].n = 0 + 1
      /\ 0 + Len(page.vars) <= Total
      /\ page.vars = <<>> => 0 = Total
      /\ mode = "whole" => page.next = 0
      /\ page.next = 0 => 0 + Len(page.vars) = Total
      /\ page.next # 0 => page.vars # <<>> /\ page.next = 0 + Len(page.vars)
  BY <1>1, PageIsRun
<1> HIDE DEF page
<1>3. page.vars \in Seq(Variable) /\ Len(page.vars) \in Nat /\ page.vars # <<>>
  BY <1>1, <1>2 DEF IsRun
<1>4. \A i \in DOMAIN page.vars : page.vars[i].n = i
  BY <1>2, <1>3 DEF IsRun
<1>5. Len(page.vars) > 0 /\ page.vars[Len(page.vars)].n = Len(page.vars)
  BY <1>3, <1>4
<1>6. page.next \in 0..Total
  BY <1>1, <1>2, <1>3
<1>7. page \in Page
  BY <1>2, <1>3, <1>6 DEF Page
<1>8. IsBeginning(page.vars, page.next, r, mode)
  BY <1>1, <1>2, <1>3, <1>4, <1>5, <1>6 DEF IsBeginning, GoesOn, IsPrefix
<1> QED
  BY <1>2, <1>7, <1>8 DEF page

(* What a root list that has grown goes on at *)
LEMMA GrownRoot ==
  ASSUME InspectorAssumption, mode \in {"counted", "uncounted", "whole"},
         NEW r \in Refs, NEW start \in 0..Total, start = 0 \/ mode # "whole",
         NEW all, IsRun(all, r), all # <<>>, all[1].n = 1,
         Len(all) = start + Len(GetPage(r, start).vars)
  PROVE  LET root == RootPage(all, GetPage(r, start)) IN
         /\ root.vars = all /\ root \in Page
         /\ IsBeginning(all, root.next, r, mode)
<1> DEFINE page == GetPage(r, start)
           root == RootPage(all, page)
<1>1. Total \in Nat /\ Total > 0 /\ PageSize \in Nat /\ PageSize > 0
  BY DEF InspectorAssumption
<1>2. /\ IsRun(page.vars, r)
      /\ start + Len(page.vars) <= Total
      /\ mode = "whole" => page.next = 0
      /\ page.next = 0 => start + Len(page.vars) = Total
      /\ Len(page.vars) < PageSize => start + Len(page.vars) = Total
  BY PageIsRun
<1>3. Len(all) = start + Len(page.vars)
  OBVIOUS
<1> HIDE DEF page
<1>4. /\ all \in Seq(Variable) /\ Len(all) \in Nat /\ Len(all) > 0
      /\ DOMAIN all = 1..Len(all) /\ Len(page.vars) \in Nat
  <2>1. all \in Seq(Variable) /\ page.vars \in Seq(Variable)
    BY <1>2 DEF IsRun
  <2> QED
    BY <2>1
<1>5. \A i \in DOMAIN all : all[i].n = i
  <2>1. \A i \in 1..Len(all) : all[i].n = 1 + (i - 1)
    BY <1>4 DEF IsRun
  <2> QED
    BY <1>4, <2>1
<1>6. all[Len(all)].n = Len(all)
  BY <1>4, <1>5
<1>7. root.vars = all /\ root = [vars |-> root.vars, next |-> root.next]
  BY DEF RootPage
<1>8. /\ root.next \in {0, Len(all)}
      /\ mode = "whole" => root.next = 0
      /\ root.next = 0 => Len(all) = Total
  <2>1. CASE mode = "whole"
    <3>1. root.next = 0
      BY <2>1 DEF RootPage
    <3> QED
      BY <1>2, <1>3, <2>1, <3>1
  <2>2. CASE mode = "uncounted" /\ Len(page.vars) < PageSize
    <3>1. root.next = 0
      BY <1>4, <2>2 DEF RootPage, NextStart
    <3> QED
      BY <1>2, <1>3, <2>2, <3>1
  <2>3. CASE mode = "uncounted" /\ Len(page.vars) >= PageSize
    <3>1. root.next = NextStart(0, PageSize, Len(all))
      BY <1>1, <1>4, <2>3 DEF RootPage
    <3> QED
      BY <1>1, <1>3, <1>4, <2>3, <3>1 DEF NextStart
  <2>4. CASE mode = "counted"
    <3>1. root.next = NextStart(0, PageSize, Len(all))
      BY <2>4 DEF RootPage
    <3> QED
      BY <1>1, <1>2, <1>3, <1>4, <2>4, <3>1 DEF NextStart
  <2> QED
    BY <1>1, <1>4, <2>1, <2>2, <2>3, <2>4
<1> HIDE DEF root
<1>9. root.next \in 0..Total
  BY <1>1, <1>2, <1>3, <1>4, <1>8
<1>10. root \in Page
  BY <1>4, <1>7, <1>9 DEF Page
<1>11. IsBeginning(all, root.next, r, mode)
  BY <1>1, <1>4, <1>5, <1>6, <1>8, <1>9 DEF IsBeginning, GoesOn, IsPrefix
<1> QED
  BY <1>7, <1>10, <1>11 DEF root, page

-----------------------------------------------------------------------------
(* The table *)

(* A table that has lost lists and requests of t, and nothing else *)
IsLess(u, t) ==
  /\ u = [gen |-> t.gen, root |-> t.root, rootRef |-> t.rootRef, rootNext |-> t.rootNext,
          expanded |-> u.expanded, cache |-> u.cache, next |-> u.next,
          visible |-> u.visible, fetching |-> u.fetching]
  /\ u.expanded \subseteq t.expanded \cap DOMAIN u.cache
  /\ DOMAIN u.cache \subseteq DOMAIN t.cache /\ DOMAIN u.fetching \subseteq DOMAIN t.fetching
  /\ u.cache = [r \in DOMAIN u.cache |-> t.cache[r]]
  /\ u.next = [r \in DOMAIN u.cache |-> t.next[r]]
  /\ u.visible = [r \in DOMAIN u.cache |-> t.visible[r]]
  /\ u.fetching = [r \in DOMAIN u.fetching |-> t.fetching[r]]

LEMMA LessKeeps ==
  ASSUME NEW t, NEW ops, NEW back, NEW m, TableInv(t, ops, back, m), NEW u, IsLess(u, t)
  PROVE  TableInv(u, ops, back, m)
<1>1. IsTable(t) /\ CacheInv(t, back, m) /\ RootInv(t, m) /\ FetchInv(t, ops, m)
  BY DEF TableInv
<1>2. u.gen = t.gen /\ u.root = t.root /\ u.rootRef = t.rootRef /\ u.rootNext = t.rootNext
  BY DEF IsLess
<1>3. /\ DOMAIN u.cache \subseteq DOMAIN t.cache
      /\ DOMAIN u.next = DOMAIN u.cache /\ DOMAIN u.visible = DOMAIN u.cache
      /\ \A r \in DOMAIN u.cache : /\ u.cache[r] = t.cache[r] /\ u.next[r] = t.next[r]
                                   /\ u.visible[r] = t.visible[r]
  BY DEF IsLess
<1>4. /\ DOMAIN u.fetching \subseteq DOMAIN t.fetching
      /\ \A r \in DOMAIN u.fetching : u.fetching[r] = t.fetching[r]
  BY DEF IsLess
<1>5. IsFcn(u.cache) /\ IsFcn(u.next) /\ IsFcn(u.visible) /\ IsFcn(u.fetching)
  BY <1>3 DEF IsLess, IsFcn
<1>6. IsTable(u)
  BY <1>1, <1>2, <1>3, <1>5 DEF IsTable, IsLess
<1>7. CacheInv(u, back, m)
  BY <1>1, <1>2, <1>3 DEF CacheInv
<1>8. RootInv(u, m)
  BY <1>1, <1>2, <1>4 DEF RootInv, IsLess
<1>9. FetchInv(u, ops, m)
  BY <1>1, <1>2, <1>3, <1>4 DEF FetchInv, Continues
<1> QED
  BY <1>6, <1>7, <1>8, <1>9 DEF TableInv

LEMMA ClearIsLess ==
  ASSUME NEW t, IsTable(t), NEW r
  PROVE  IsLess(ClearTree(t, r), t)
<1> DEFINE S == Subtree(t, r)
           u == ClearTree(t, r)
<1>1. u = [t EXCEPT !.expanded = t.expanded \ S, !.cache = Without(t.cache, S),
                    !.next = Without(t.next, S), !.visible = Without(t.visible, S),
                    !.fetching = Without(t.fetching, S)]
  BY DEF ClearTree
<1> HIDE DEF S, u
<1>2. /\ u = [gen |-> t.gen, root |-> t.root, rootRef |-> t.rootRef, rootNext |-> t.rootNext,
              expanded |-> u.expanded, cache |-> u.cache, next |-> u.next,
              visible |-> u.visible, fetching |-> u.fetching]
      /\ u.expanded = t.expanded \ S /\ u.cache = Without(t.cache, S)
      /\ u.next = Without(t.next, S) /\ u.visible = Without(t.visible, S)
      /\ u.fetching = Without(t.fetching, S)
  BY <1>1 DEF IsTable
<1> QED
  BY <1>2 DEF IsLess, IsTable, Without, Restrict, u

(* A new root list: nothing of another one is left, and the same one is    *)
(* only set again while it is not there. *)
LEMMA SetRootKeeps ==
  ASSUME InspectorAssumption, NEW t, NEW ops, NEW back, NEW m, TableInv(t, ops, back, m),
         NEW list, NEW r, NEW next, NEW g,
         (g = t.gen /\ r = t.rootRef) => t.rootNext = None,
         \/ list = <<>> /\ next = None /\ r \in Refs \cup {None}
         \/ r \in Refs /\ IsBeginning(list, next, r, m)
  PROVE  LET u == SetRoot(t, list, r, next, g) IN
         /\ TableInv(u, ops, back, m)
         /\ u.gen = g /\ u.root = list /\ u.rootRef = r /\ u.rootNext = next
<1> DEFINE same == g = t.gen /\ r = t.rootRef
           old  == IF same THEN t ELSE EmptyTable
           u    == SetRoot(t, list, r, next, g)
<1>1. IsTable(t) /\ CacheInv(t, back, m) /\ RootInv(t, m) /\ FetchInv(t, ops, m)
  BY DEF TableInv
<1>2. same => t.root = <<>> /\ t.expanded = {} /\ DOMAIN t.fetching = {}
  <2>1. None \notin 0..Total
    BY NoneIsNoValue DEF InspectorAssumption
  <2> QED
    BY <1>1, <2>1 DEF RootInv, IsBeginning, GoesOn
<1>3. u = [old EXCEPT !.gen = g, !.root = list, !.rootRef = r, !.rootNext = next]
  <2>1. CASE same
    <3>1. t.root = <<>>
      BY <1>2, <2>1
    <3>2. ChangedRef(t.root, list) = None
      BY <3>1 DEF ChangedRef
    <3> QED
      BY <2>1, <3>2 DEF SetRoot
  <2>2. CASE ~same
    BY <2>2 DEF SetRoot
  <2> QED
    BY <2>1, <2>2
<1> HIDE DEF u
<1>4. IsTable(old) /\ old.expanded = {} /\ DOMAIN old.fetching = {}
  <2>1. IsTable(EmptyTable) /\ EmptyTable.expanded = {} /\ DOMAIN EmptyTable.fetching = {}
    BY DEF IsTable, EmptyTable, Nothing, IsFcn
  <2> QED
    BY <1>1, <1>2, <2>1
<1>5. \A x \in DOMAIN old.cache : same /\ old = t
  BY DEF EmptyTable, Nothing
<1> HIDE DEF old
<1>6. /\ u = [gen |-> g, root |-> list, rootRef |-> r, rootNext |-> next,
              expanded |-> old.expanded, cache |-> old.cache, next |-> old.next,
              visible |-> old.visible, fetching |-> old.fetching]
  BY <1>3, <1>4 DEF IsTable
<1>7. /\ u.gen = g /\ u.root = list /\ u.rootRef = r /\ u.rootNext = next
      /\ u.expanded = old.expanded /\ u.cache = old.cache /\ u.next = old.next
      /\ u.visible = old.visible /\ u.fetching = old.fetching
  BY <1>6
<1>8. IsTable(u)
  BY <1>4, <1>6, <1>7 DEF IsTable
<1>9. CacheInv(u, back, m)
  BY <1>1, <1>5, <1>7 DEF CacheInv
<1>10. RootInv(u, m)
  BY <1>4, <1>7 DEF RootInv
<1>11. FetchInv(u, ops, m)
  BY <1>4, <1>7 DEF FetchInv
<1> QED
  BY <1>7, <1>8, <1>9, <1>10, <1>11 DEF TableInv, u

(* A request for the list r is sent by pump p, which was idle. *)
LEMMA AskKeeps ==
  ASSUME NEW t, NEW ops, NEW back, NEW m, TableInv(t, ops, back, m),
         ops = [q \in Pumps |-> ops[q]], NEW p \in Pumps, ops[p] = Idle,
         NEW o \in Ask, IsBelow(o.ref, t.rootRef), Continues(t, o, m), t.rootNext # None
  PROVE  TableInv([t EXCEPT !.fetching = With(@, o.ref, p)], [ops EXCEPT ![p] = o], back, m)
<1> DEFINE u    == [t EXCEPT !.fetching = With(t.fetching, o.ref, p)]
           ops2 == [ops EXCEPT ![p] = o]
<1>1. IsTable(t) /\ CacheInv(t, back, m) /\ RootInv(t, m) /\ FetchInv(t, ops, m)
  BY DEF TableInv
<1>2. u = [gen |-> t.gen, root |-> t.root, rootRef |-> t.rootRef, rootNext |-> t.rootNext,
           expanded |-> t.expanded, cache |-> t.cache, next |-> t.next,
           visible |-> t.visible, fetching |-> With(t.fetching, o.ref, p)]
  BY <1>1 DEF IsTable
<1> HIDE DEF u
<1>3. /\ u.gen = t.gen /\ u.root = t.root /\ u.rootRef = t.rootRef /\ u.rootNext = t.rootNext
      /\ u.expanded = t.expanded /\ u.cache = t.cache /\ u.next = t.next
      /\ u.visible = t.visible /\ u.fetching = With(t.fetching, o.ref, p)
  BY <1>2
<1>4. IsFcn(u.fetching) /\ DOMAIN u.fetching = DOMAIN t.fetching \cup {o.ref}
      /\ u.fetching[o.ref] = p
      /\ \A r \in DOMAIN t.fetching : r # o.ref => u.fetching[r] = t.fetching[r]
  BY <1>3 DEF With, IsFcn
<1>5. IsTable(u) /\ CacheInv(u, back, m) /\ RootInv(u, m)
  BY <1>1, <1>2, <1>3, <1>4 DEF IsTable, CacheInv, RootInv
<1>6. ops2[p] = o /\ \A q \in Pumps \ {p} : ops2[q] = ops[q]
  OBVIOUS
<1>7. o.ref \in Refs
  BY DEF Ask
<1>8. ASSUME NEW r \in DOMAIN t.fetching, r # o.ref
      PROVE  t.fetching[r] \in Pumps \ {p}
  <2>1. ops[t.fetching[r]] \in Ask /\ t.fetching[r] \in Pumps
    BY <1>1 DEF FetchInv
  <2>2. Idle \notin Ask
    BY DEF Idle, Ask
  <2> QED
    BY <2>1, <2>2
<1> HIDE DEF ops2
<1>9. ASSUME NEW r \in DOMAIN u.fetching
      PROVE  /\ r \in Refs /\ IsBelow(r, u.rootRef)
             /\ u.fetching[r] \in Pumps
             /\ ops2[u.fetching[r]] \in Ask /\ ops2[u.fetching[r]].ref = r
             /\ Continues(u, ops2[u.fetching[r]], m)
  <2>1. CASE r = o.ref
    BY <1>3, <1>4, <1>6, <1>7, <2>1 DEF Continues
  <2>2. CASE r # o.ref
    <3>1. r \in DOMAIN t.fetching /\ u.fetching[r] = t.fetching[r]
      BY <1>4, <2>2
    <3>2. ops2[u.fetching[r]] = ops[t.fetching[r]] /\ t.fetching[r] \in Pumps
      BY <1>6, <1>8, <2>2, <3>1
    <3>3. /\ r \in Refs /\ IsBelow(r, t.rootRef)
          /\ ops[t.fetching[r]] \in Ask /\ ops[t.fetching[r]].ref = r
          /\ Continues(t, ops[t.fetching[r]], m)
      BY <1>1, <3>1 DEF FetchInv
    <3>4. Continues(u, ops[t.fetching[r]], m)
      BY <1>3, <3>3 DEF Continues
    <3> QED
      BY <1>3, <3>1, <3>2, <3>3, <3>4
  <2> QED
    BY <2>1, <2>2
<1>10. FetchInv(u, ops2, m)
  BY <1>9 DEF FetchInv
<1> QED
  BY <1>5, <1>10 DEF TableInv, u, ops2

(* A request has been answered: what is left is as before, and if it was   *)
(* the current one for its list there is none for that list any more. *)
LEMMA DoneKeeps ==
  ASSUME InspectorAssumption, NEW t, NEW ops, NEW back, NEW m, TableInv(t, ops, back, m),
         ops = [q \in Pumps |-> ops[q]], NEW p \in Pumps, ops[p] \in Ask
  PROVE  LET u == Finished(t, ops[p].ref, p) IN
         /\ TableInv(u, [ops EXCEPT ![p] = Idle], back, m)
         /\ u.gen = t.gen /\ u.root = t.root /\ u.rootRef = t.rootRef /\ u.rootNext = t.rootNext
         /\ u.expanded = t.expanded /\ u.cache = t.cache /\ u.next = t.next
         /\ u.visible = t.visible
         /\ UsesFetch(t, ops[p].ref, p) =>
              /\ ops[p].ref \notin DOMAIN u.fetching
              /\ IsBelow(ops[p].ref, t.rootRef) /\ Continues(t, ops[p], m)
              /\ t.rootNext # None
<1> DEFINE r    == ops[p].ref
           u    == Finished(t, r, p)
           ops2 == [ops EXCEPT ![p] = Idle]
<1>1. IsTable(t) /\ CacheInv(t, back, m) /\ RootInv(t, m) /\ FetchInv(t, ops, m)
  BY DEF TableInv
<1>2. u = IF UsesFetch(t, r, p) THEN [t EXCEPT !.fetching = Without(t.fetching, {r})] ELSE t
  BY DEF Finished
<1> HIDE DEF u
<1>3. /\ u = [gen |-> t.gen, root |-> t.root, rootRef |-> t.rootRef, rootNext |-> t.rootNext,
              expanded |-> t.expanded, cache |-> t.cache, next |-> t.next,
              visible |-> t.visible, fetching |-> u.fetching]
      /\ u.fetching = IF UsesFetch(t, r, p) THEN Without(t.fetching, {r}) ELSE t.fetching
  BY <1>1, <1>2 DEF IsTable
<1>4. /\ u.gen = t.gen /\ u.root = t.root /\ u.rootRef = t.rootRef /\ u.rootNext = t.rootNext
      /\ u.expanded = t.expanded /\ u.cache = t.cache /\ u.next = t.next
      /\ u.visible = t.visible
  BY <1>3
<1>5. IsLess(u, t)
  BY <1>1, <1>3, <1>4 DEF IsLess, IsTable, IsFcn, Without, Restrict
<1>6. TableInv(u, ops, back, m)
  BY <1>5, LessKeeps
<1>7. ASSUME NEW x \in DOMAIN u.fetching PROVE u.fetching[x] # p
  <2>1. x \in DOMAIN t.fetching /\ u.fetching[x] = t.fetching[x]
    BY <1>5 DEF IsLess
  <2>2. ops[t.fetching[x]].ref = x
    BY <1>1, <2>1 DEF FetchInv
  <2>3. CASE t.fetching[x] = p
    <3>1. x = r /\ UsesFetch(t, r, p)
      BY <2>1, <2>2, <2>3 DEF UsesFetch
    <3> QED
      BY <1>3, <3>1 DEF Without, Restrict
  <2> QED
    BY <2>1, <2>3
<1>8. FetchInv(u, ops2, m)
  <2>1. FetchInv(u, ops, m)
    BY <1>6 DEF TableInv
  <2>2. \A q \in Pumps \ {p} : ops2[q] = ops[q]
    OBVIOUS
  <2> HIDE DEF ops2
  <2> QED
    BY <1>7, <2>1, <2>2 DEF FetchInv
<1>9. UsesFetch(t, r, p) => /\ r \notin DOMAIN u.fetching
                            /\ IsBelow(r, t.rootRef) /\ Continues(t, ops[p], m)
                            /\ t.rootNext # None
  <2> SUFFICES ASSUME UsesFetch(t, r, p)
               PROVE  /\ r \notin DOMAIN u.fetching
                      /\ IsBelow(r, t.rootRef) /\ Continues(t, ops[p], m)
                      /\ t.rootNext # None
    OBVIOUS
  <2>1. r \in DOMAIN t.fetching /\ t.fetching[r] = p
    BY DEF UsesFetch
  <2>2. r \notin DOMAIN u.fetching
    BY <1>3 DEF Without, Restrict
  <2>3. IsBelow(r, t.rootRef) /\ Continues(t, ops[p], m)
    BY <1>1, <2>1 DEF FetchInv
  <2>4. None \notin 0..Total
    BY NoneIsNoValue DEF InspectorAssumption
  <2>5. t.rootNext # None
    BY <1>1, <2>1, <2>4 DEF RootInv, IsBeginning, GoesOn
  <2> QED
    BY <2>2, <2>3, <2>5
<1> QED
  BY <1>4, <1>6, <1>8, <1>9 DEF TableInv, u, ops2

(* The first page of r opens it. *)
LEMMA OpenedKeeps ==
  ASSUME InspectorAssumption, NEW t, NEW ops, NEW back, NEW m, TableInv(t, ops, back, m),
         NEW r \in Refs, IsBelow(r, t.rootRef), r \notin DOMAIN t.fetching, t.rootNext # None,
         NEW page, IsBeginning(page.vars, page.next, r, m)
  PROVE  LET u == Opened(t, r, page) IN
         /\ TableInv(u, ops, back, m)
         /\ u.gen = t.gen /\ u.rootRef = t.rootRef /\ u.rootNext = t.rootNext
<1> DEFINE u == Opened(t, r, page)
           shown == MinOf(Len(page.vars), PageSize)
<1>1. IsTable(t) /\ CacheInv(t, back, m) /\ RootInv(t, m) /\ FetchInv(t, ops, m)
  BY DEF TableInv
<1>2. u = [gen |-> t.gen, root |-> t.root, rootRef |-> t.rootRef, rootNext |-> t.rootNext,
           expanded |-> t.expanded \cup {r}, cache |-> With(t.cache, r, page.vars),
           next |-> With(t.next, r, page.next), visible |-> With(t.visible, r, shown),
           fetching |-> t.fetching]
  <2>1. u = [t EXCEPT !.cache = With(t.cache, r, page.vars), !.next = With(t.next, r, page.next),
                      !.visible = With(t.visible, r, shown), !.expanded = t.expanded \cup {r}]
    BY DEF Opened
  <2> HIDE DEF u, shown
  <2> QED
    BY <1>1, <2>1 DEF IsTable
<1> HIDE DEF u
<1>3. /\ u.gen = t.gen /\ u.root = t.root /\ u.rootRef = t.rootRef /\ u.rootNext = t.rootNext
      /\ u.expanded = t.expanded \cup {r} /\ u.cache = With(t.cache, r, page.vars)
      /\ u.next = With(t.next, r, page.next) /\ u.visible = With(t.visible, r, shown)
      /\ u.fetching = t.fetching
  BY <1>2
<1>4. shown \in 0..Len(page.vars)
  <2>1. Len(page.vars) \in Nat /\ PageSize \in Nat
    BY DEF IsBeginning, IsRun, InspectorAssumption
  <2> QED
    BY <2>1 DEF MinOf
<1> HIDE DEF shown
<1>5. /\ DOMAIN u.cache = DOMAIN t.cache \cup {r}
      /\ u.cache[r] = page.vars /\ u.next[r] = page.next /\ u.visible[r] = shown
      /\ \A x \in DOMAIN t.cache \ {r} : /\ u.cache[x] = t.cache[x] /\ u.next[x] = t.next[x]
                                         /\ u.visible[x] = t.visible[x]
  BY <1>1, <1>3 DEF With, IsTable
<1>6. IsTable(u)
  BY <1>1, <1>2, <1>3 DEF IsTable, IsFcn, With
<1>7. CacheInv(u, back, m)
  <2>1. ASSUME NEW x \in DOMAIN u.cache
        PROVE  /\ IsRun(u.cache[x], x) /\ GoesOn(u.cache[x], u.next[x], m)
               /\ u.visible[x] \in 0..Len(u.cache[x])
               /\ u.cache[x] # <<>> => IsBelow(x, u.rootRef)
               /\ x \in back \/ IsPrefix(u.cache[x], u.next[x])
    <3>1. CASE x = r
      BY <1>3, <1>4, <1>5, <3>1 DEF IsBeginning
    <3>2. CASE x # r
      BY <1>1, <1>3, <1>5, <3>2 DEF CacheInv
    <3> QED
      BY <3>1, <3>2
  <2> QED
    BY <2>1 DEF CacheInv
<1>8. RootInv(u, m)
  BY <1>1, <1>3 DEF RootInv
<1>9. FetchInv(u, ops, m)
  <2>1. ASSUME NEW x \in DOMAIN t.fetching PROVE Continues(u, ops[t.fetching[x]], m)
    <3>1. Continues(t, ops[t.fetching[x]], m) /\ ops[t.fetching[x]].ref = x
      BY <1>1 DEF FetchInv
    <3>2. x # r
      OBVIOUS
    <3> QED
      BY <1>3, <1>5, <3>1, <3>2 DEF Continues
  <2> QED
    BY <1>1, <1>3, <2>1 DEF FetchInv
<1> QED
  BY <1>3, <1>6, <1>7, <1>8, <1>9 DEF TableInv, u

(* A further page of r, asked for where the list ends, is added to it. *)
LEMMA ExtendedKeeps ==
  ASSUME InspectorAssumption, mode \in {"counted", "uncounted", "whole"}, mode # "whole",
         NEW t, NEW ops, NEW back, TableInv(t, ops, back, mode),
         NEW r \in t.expanded, IsBelow(r, t.rootRef), r \notin DOMAIN t.fetching,
         NEW start \in 0..Total, start # 0,
         t.cache[r] # <<>> => start = t.cache[r][Len(t.cache[r])].n
  PROVE  LET u == Extended(t, r, GetPage(r, start)) IN
         /\ TableInv(u, ops, back, mode)
         /\ u.gen = t.gen /\ u.rootRef = t.rootRef /\ u.rootNext = t.rootNext
<1> DEFINE page == GetPage(r, start)
           list == t.cache[r]
           all  == list \o page.vars
           u    == Extended(t, r, page)
<1>1. IsTable(t) /\ CacheInv(t, back, mode) /\ RootInv(t, mode) /\ FetchInv(t, ops, mode)
  BY DEF TableInv
<1>2. r \in DOMAIN t.cache /\ r \in Refs
  BY <1>1 DEF IsTable
<1>3. /\ IsRun(page.vars, r)
      /\ page.vars # <<>> => page.vars[1].n = start + 1
      /\ start + Len(page.vars) <= Total
      /\ page.next = 0 => start + Len(page.vars) = Total
      /\ page.next # 0 => page.vars # <<>> /\ page.next = start + Len(page.vars)
  BY <1>2, PageIsRun
<1> HIDE DEF page
<1>4. IsRun(list, r) /\ GoesOn(list, t.next[r], mode) /\ (r \in back \/ IsPrefix(list, t.next[r]))
  BY <1>1, <1>2 DEF CacheInv
<1>5. start \in Nat /\ Total \in Nat
  BY DEF InspectorAssumption
<1> HIDE DEF list
<1>6. (list # <<>> /\ page.vars # <<>>) => page.vars[1].n = list[Len(list)].n + 1
  BY <1>3 DEF list
<1>7. NewVariables(list, page.vars) = page.vars
  <2>1. (list # <<>> /\ page.vars # <<>>) => list[Len(list)].n < page.vars[1].n
    BY <1>3, <1>5 DEF list
  <2> QED
    BY <1>3, <1>4, <2>1, AllNew
<1>8. /\ IsRun(all, r) /\ Len(all) = Len(list) + Len(page.vars)
      /\ list # <<>> => all[1] = list[1]
      /\ list = <<>> => all = page.vars
      /\ page.vars = <<>> => all = list
      /\ page.vars # <<>> => all[Len(all)] = page.vars[Len(page.vars)]
  <2>1. AreOneRun(list, page.vars, r)
    BY <1>3, <1>4, <1>6, JoinedRuns
  <2> QED
    BY <2>1 DEF AreOneRun
<1> HIDE DEF all
<1>9. list \in Seq(Variable) /\ page.vars \in Seq(Variable) /\ all \in Seq(Variable)
  BY <1>3, <1>4, <1>8 DEF IsRun
<1>10. u = [gen |-> t.gen, root |-> t.root, rootRef |-> t.rootRef, rootNext |-> t.rootNext,
            expanded |-> t.expanded, cache |-> With(t.cache, r, all),
            next |-> With(t.next, r, page.next), visible |-> With(t.visible, r, Len(all)),
            fetching |-> t.fetching]
  <2>1. ~(Len(page.vars) < Len(page.vars))
    BY <1>9
  <2>2. u = [t EXCEPT !.cache = With(t.cache, r, all), !.visible = With(t.visible, r, Len(all)),
                      !.next = With(t.next, r, page.next)]
    BY <1>7, <2>1 DEF Extended, list, all
  <2> QED
    BY <1>1, <2>2 DEF IsTable
<1> HIDE DEF u
<1>11. /\ u.gen = t.gen /\ u.root = t.root /\ u.rootRef = t.rootRef /\ u.rootNext = t.rootNext
       /\ u.expanded = t.expanded /\ u.cache = With(t.cache, r, all)
       /\ u.next = With(t.next, r, page.next) /\ u.visible = With(t.visible, r, Len(all))
       /\ u.fetching = t.fetching
  BY <1>10
<1>12. /\ DOMAIN u.cache = DOMAIN t.cache
       /\ u.cache[r] = all /\ u.next[r] = page.next /\ u.visible[r] = Len(all)
       /\ \A x \in DOMAIN t.cache \ {r} : /\ u.cache[x] = t.cache[x] /\ u.next[x] = t.next[x]
                                          /\ u.visible[x] = t.visible[x]
  BY <1>1, <1>2, <1>11 DEF With, IsTable
<1>13. IsTable(u)
  BY <1>1, <1>2, <1>10, <1>11, <1>12 DEF IsTable, IsFcn, With
<1>14. GoesOn(all, page.next, mode)
  <2>1. CASE page.next = 0
    BY <1>5, <2>1 DEF GoesOn
  <2>2. CASE page.next # 0
    <3>1. page.vars # <<>> /\ page.next = start + Len(page.vars) /\ Len(page.vars) \in Nat
      BY <1>3, <1>9, <2>2
    <3>2. Len(page.vars) > 0
      BY <1>9, <3>1
    <3>3. page.vars[Len(page.vars)].n = page.vars[1].n + (Len(page.vars) - 1)
      BY <1>3, <1>9, <3>2 DEF IsRun
    <3>4. all[Len(all)].n = page.next
      BY <1>3, <1>5, <1>8, <3>1, <3>2, <3>3
    <3>5. all # <<>>
      BY <1>8, <1>9, <3>1, <3>2
    <3>6. page.next \in 0..Total
      BY <1>3, <1>5, <3>1
    <3> QED
      BY <3>4, <3>5, <3>6 DEF GoesOn
  <2> QED
    BY <2>1, <2>2
<1>15. IsPrefix(list, t.next[r]) => IsPrefix(all, page.next)
  <2> SUFFICES ASSUME IsPrefix(list, t.next[r]) PROVE IsPrefix(all, page.next)
    OBVIOUS
  <2>1. IsBeginning(list, t.next[r], r, mode)
    BY <1>4 DEF IsBeginning
  <2>2. /\ Len(list) \in 1..Total /\ list # <<>>
        /\ list[1].n = 1 /\ list[Len(list)].n = Len(list)
    BY <2>1, BeginningFacts
  <2>3. start = Len(list) /\ all[1] = list[1]
    BY <1>8, <2>2 DEF list
  <2>4. \A i \in DOMAIN all : all[i].n = i
    <3>1. \A i \in 1..Len(all) : all[i].n = 1 + (i - 1)
      BY <1>8, <1>9, <2>2, <2>3 DEF IsRun
    <3> QED
      BY <1>9, <3>1
  <2>5. page.next = 0 => Len(all) = Total
    BY <1>3, <1>8, <2>3
  <2> QED
    BY <2>4, <2>5 DEF IsPrefix
<1>16. CacheInv(u, back, mode)
  <2>1. ASSUME NEW x \in DOMAIN u.cache
        PROVE  /\ IsRun(u.cache[x], x) /\ GoesOn(u.cache[x], u.next[x], mode)
               /\ u.visible[x] \in 0..Len(u.cache[x])
               /\ u.cache[x] # <<>> => IsBelow(x, u.rootRef)
               /\ x \in back \/ IsPrefix(u.cache[x], u.next[x])
    <3>1. CASE x = r
      <4>1. Len(all) \in 0..Len(all)
        BY <1>9
      <4> QED
        BY <1>4, <1>8, <1>11, <1>12, <1>14, <1>15, <3>1, <4>1
    <3>2. CASE x # r
      BY <1>1, <1>11, <1>12, <3>2 DEF CacheInv
    <3> QED
      BY <3>1, <3>2
  <2> QED
    BY <2>1 DEF CacheInv
<1>17. RootInv(u, mode)
  BY <1>1, <1>11 DEF RootInv
<1>18. FetchInv(u, ops, mode)
  <2>1. ASSUME NEW x \in DOMAIN t.fetching PROVE Continues(u, ops[t.fetching[x]], mode)
    <3>1. Continues(t, ops[t.fetching[x]], mode) /\ ops[t.fetching[x]].ref = x
      BY <1>1 DEF FetchInv
    <3>2. x # r
      OBVIOUS
    <3> QED
      BY <1>11, <1>12, <3>1, <3>2 DEF Continues
  <2> QED
    BY <1>1, <1>11, <2>1 DEF FetchInv
<1> QED
  BY <1>11, <1>13, <1>16, <1>17, <1>18 DEF TableInv, u, page

(* The root list that is there is replaced by one of the same scope, while *)
(* it is not being fetched. *)
LEMMA RootKeeps ==
  ASSUME NEW t, NEW ops, NEW back, NEW m, TableInv(t, ops, back, m),
         NEW list, NEW next, IsBeginning(list, next, t.rootRef, m), t.rootRef \in Refs,
         t.rootRef \notin DOMAIN t.fetching \/ next = t.rootNext,
         NEW u, u = [t EXCEPT !.root = list, !.rootNext = next]
  PROVE  /\ TableInv(u, ops, back, m)
         /\ u.gen = t.gen /\ u.rootRef = t.rootRef /\ u.rootNext = next
<1>1. IsTable(t) /\ CacheInv(t, back, m) /\ RootInv(t, m) /\ FetchInv(t, ops, m)
  BY DEF TableInv
<1>2. u = [gen |-> t.gen, root |-> list, rootRef |-> t.rootRef, rootNext |-> next,
           expanded |-> t.expanded, cache |-> t.cache, next |-> t.next,
           visible |-> t.visible, fetching |-> t.fetching]
  BY <1>1 DEF IsTable
<1>3. /\ u.gen = t.gen /\ u.root = list /\ u.rootRef = t.rootRef /\ u.rootNext = next
      /\ u.expanded = t.expanded /\ u.cache = t.cache /\ u.next = t.next
      /\ u.visible = t.visible /\ u.fetching = t.fetching
  BY <1>2
<1>4. IsTable(u) /\ CacheInv(u, back, m) /\ RootInv(u, m)
  BY <1>1, <1>2, <1>3 DEF IsTable, CacheInv, RootInv
<1>5. ASSUME NEW x \in DOMAIN t.fetching PROVE Continues(u, ops[t.fetching[x]], m)
  <2>1. Continues(t, ops[t.fetching[x]], m) /\ ops[t.fetching[x]].ref = x
    BY <1>1 DEF FetchInv
  <2> QED
    BY <1>3, <2>1 DEF Continues
<1>6. FetchInv(u, ops, m)
  BY <1>1, <1>3, <1>5 DEF FetchInv
<1> QED
  BY <1>3, <1>4, <1>6 DEF TableInv

(* What is open is of the scope that is shown, and so are the nodes. *)
LEMMA OpenIsBelow ==
  ASSUME InspectorAssumption, NEW t, NEW ops, NEW back, NEW m, TableInv(t, ops, back, m),
         NEW r \in OpenLists(t)
  PROVE  /\ r \in Refs /\ r \in t.expanded /\ r \in DOMAIN t.cache /\ t.rootNext # None
         /\ t.cache[r] # <<>> => IsBelow(r, t.rootRef)
<1>1. IsTable(t) /\ CacheInv(t, back, m) /\ RootInv(t, m)
  BY DEF TableInv
<1>2. r \in t.expanded /\ r \in DOMAIN t.cache
  BY DEF OpenLists
<1>3. t.rootNext # None \/ t.expanded = {}
  BY <1>1, NoneIsNoNext DEF RootInv, IsBeginning, GoesOn
<1> QED
  BY <1>1, <1>2, <1>3 DEF IsTable, CacheInv

LEMMA NodeIsBelow ==
  ASSUME InspectorAssumption, NEW t, NEW ops, NEW back, NEW m, TableInv(t, ops, back, m),
         NEW x \in NodeRefs(t)
  PROVE  x \in Refs /\ IsBelow(x, t.rootRef) /\ t.rootNext # None
<1>1. IsTable(t) /\ CacheInv(t, back, m) /\ RootInv(t, m)
  BY DEF TableInv
<1>2. x # None
  BY DEF NodeRefs
<1>3. CASE \E i \in DOMAIN t.root : x = t.root[i].ref
  <2>1. PICK i \in DOMAIN t.root : x = t.root[i].ref
    BY <1>3
  <2>2. t.root # <<>>
    BY <2>1
  <2>3. t.rootRef \in Refs /\ IsRun(t.root, t.rootRef) /\ t.rootNext \in 0..Total
    BY <1>1, <2>2 DEF RootInv, IsBeginning, GoesOn
  <2>4. x = Child(t.rootRef) /\ t.root[i] \in Variable
    BY <1>2, <2>1, <2>3 DEF IsRun
  <2>5. x \in Refs
    BY <1>2, <2>1, <2>4 DEF Variable
  <2>6. IsBelow(x, t.rootRef)
    BY <2>3, <2>4, NoneIsNoNext DEF IsBelow, Child
  <2> QED
    BY <2>3, <2>5, <2>6, NoneIsNoNext
<1>4. CASE \E r \in OpenLists(t) : \E i \in DOMAIN Shown(t, r) : x = Shown(t, r)[i].ref
  <2>1. PICK r \in OpenLists(t) : \E i \in DOMAIN Shown(t, r) : x = Shown(t, r)[i].ref
    BY <1>4
  <2>2. PICK i \in DOMAIN Shown(t, r) : x = Shown(t, r)[i].ref
    BY <2>1
  <2>3. /\ r \in Refs /\ r \in DOMAIN t.cache /\ t.rootNext # None
        /\ t.cache[r] # <<>> => IsBelow(r, t.rootRef)
    BY OpenIsBelow
  <2>4. IsRun(t.cache[r], r) /\ t.visible[r] \in 0..Len(t.cache[r])
    BY <1>1, <2>3 DEF CacheInv
  <2> DEFINE list == t.cache[r]
  <2>5. list \in Seq(Variable) /\ Len(list) \in Nat
    BY <2>4 DEF IsRun
  <2>6. i \in 1..t.visible[r] /\ Shown(t, r)[i] = list[i]
    BY <2>2, <2>4, <2>5 DEF Shown
  <2>7. i \in DOMAIN list /\ list # <<>>
    BY <2>4, <2>5, <2>6
  <2>8. list[i].ref \in {None, Child(r)} /\ list[i] \in Variable
    BY <2>4, <2>5, <2>7 DEF IsRun
  <2>9. x = Child(r) /\ x \in Refs
    BY <1>2, <2>2, <2>6, <2>8 DEF Variable
  <2>10. IsBelow(r, t.rootRef)
    BY <2>3, <2>7
  <2>11. IsBelow(x, t.rootRef)
    BY <2>9, <2>10 DEF IsBelow, Child
  <2> QED
    BY <2>3, <2>9, <2>11
<1> QED
  BY <1>3, <1>4 DEF NodeRefs

(* Requests go on as before while the lists they are for are the same. *)
LEMMA FetchKeeps ==
  ASSUME NEW t, NEW u, NEW ops, NEW m, FetchInv(t, ops, m),
         u.fetching = t.fetching, u.rootRef = t.rootRef, u.rootNext = t.rootNext,
         \A x \in DOMAIN t.fetching \cap DOMAIN u.cache :
           u.cache[x] # <<>> =>
             /\ x \in DOMAIN t.cache /\ t.cache[x] # <<>>
             /\ u.cache[x][Len(u.cache[x])].n = t.cache[x][Len(t.cache[x])].n
  PROVE  FetchInv(u, ops, m)
<1>1. ASSUME NEW x \in DOMAIN t.fetching PROVE Continues(u, ops[t.fetching[x]], m)
  <2>1. Continues(t, ops[t.fetching[x]], m) /\ ops[t.fetching[x]].ref = x
    BY DEF FetchInv
  <2> QED
    BY <2>1 DEF Continues
<1> QED
  BY <1>1 DEF FetchInv

(* More of a cached list is shown. *)
LEMMA ShowMoreKeeps ==
  ASSUME NEW t, NEW ops, NEW back, NEW m, TableInv(t, ops, back, m),
         NEW r \in DOMAIN t.cache, NEW v \in 0..Len(t.cache[r])
  PROVE  LET u == [t EXCEPT !.visible = With(@, r, v)] IN
         /\ TableInv(u, ops, back, m)
         /\ u.gen = t.gen /\ u.rootRef = t.rootRef /\ u.rootNext = t.rootNext
<1> DEFINE u == [t EXCEPT !.visible = With(t.visible, r, v)]
<1>1. IsTable(t) /\ CacheInv(t, back, m) /\ RootInv(t, m) /\ FetchInv(t, ops, m)
  BY DEF TableInv
<1>2. u = [gen |-> t.gen, root |-> t.root, rootRef |-> t.rootRef, rootNext |-> t.rootNext,
           expanded |-> t.expanded, cache |-> t.cache, next |-> t.next,
           visible |-> With(t.visible, r, v), fetching |-> t.fetching]
  BY <1>1 DEF IsTable
<1> HIDE DEF u
<1>3. /\ u.gen = t.gen /\ u.root = t.root /\ u.rootRef = t.rootRef /\ u.rootNext = t.rootNext
      /\ u.expanded = t.expanded /\ u.cache = t.cache /\ u.next = t.next
      /\ u.visible = With(t.visible, r, v) /\ u.fetching = t.fetching
  BY <1>2
<1>4. /\ IsFcn(u.visible) /\ DOMAIN u.visible = DOMAIN t.cache /\ u.visible[r] = v
      /\ \A x \in DOMAIN t.cache : x # r => u.visible[x] = t.visible[x]
  BY <1>1, <1>3 DEF With, IsTable, IsFcn
<1>5. IsTable(u)
  BY <1>1, <1>2, <1>3, <1>4 DEF IsTable
<1>6. CacheInv(u, back, m)
  BY <1>1, <1>3, <1>4 DEF CacheInv
<1>7. RootInv(u, m) /\ FetchInv(u, ops, m)
  BY <1>1, <1>3, FetchKeeps DEF RootInv
<1> QED
  BY <1>3, <1>5, <1>6, <1>7 DEF TableInv, u

(* A list that is cached is opened again. *)
LEMMA OpenKeeps ==
  ASSUME NEW t, NEW ops, NEW back, NEW m, TableInv(t, ops, back, m),
         NEW r \in DOMAIN t.cache, t.rootNext # None
  PROVE  LET u == [t EXCEPT !.expanded = @ \cup {r}] IN
         /\ TableInv(u, ops, back, m)
         /\ u.gen = t.gen /\ u.rootRef = t.rootRef /\ u.rootNext = t.rootNext
<1> DEFINE u == [t EXCEPT !.expanded = t.expanded \cup {r}]
<1>1. IsTable(t) /\ CacheInv(t, back, m) /\ RootInv(t, m) /\ FetchInv(t, ops, m)
  BY DEF TableInv
<1>2. u = [gen |-> t.gen, root |-> t.root, rootRef |-> t.rootRef, rootNext |-> t.rootNext,
           expanded |-> t.expanded \cup {r}, cache |-> t.cache, next |-> t.next,
           visible |-> t.visible, fetching |-> t.fetching]
  BY <1>1 DEF IsTable
<1> HIDE DEF u
<1>3. /\ u.gen = t.gen /\ u.root = t.root /\ u.rootRef = t.rootRef /\ u.rootNext = t.rootNext
      /\ u.expanded = t.expanded \cup {r} /\ u.cache = t.cache /\ u.next = t.next
      /\ u.visible = t.visible /\ u.fetching = t.fetching
  BY <1>2
<1>4. IsTable(u)
  BY <1>1, <1>2, <1>3 DEF IsTable
<1>5. CacheInv(u, back, m) /\ RootInv(u, m)
  BY <1>1, <1>3 DEF CacheInv, RootInv
<1>6. FetchInv(u, ops, m)
  BY <1>1, <1>3, FetchKeeps
<1> QED
  BY <1>3, <1>4, <1>5, <1>6 DEF TableInv, u

(* A list whose first variable has become plain goes on as before. *)
LEMMA PlainIsRun ==
  ASSUME InspectorAssumption, NEW list, NEW r, IsRun(list, r)
  PROVE  /\ IsRun(Plain(list), r) /\ Len(Plain(list)) = Len(list)
         /\ DOMAIN Plain(list) = DOMAIN list
         /\ \A i \in DOMAIN list : Plain(list)[i].n = list[i].n
         /\ Plain(list) = <<>> <=> list = <<>>
<1> DEFINE new == [list EXCEPT ![1].ref = None]
<1>1. CASE list = <<>>
  <2>1. Plain(list) = <<>>
    BY <1>1 DEF Plain
  <2> QED
    BY <1>1, <2>1
<1>2. CASE list # <<>>
  <2>1. list \in Seq(Variable) /\ Len(list) \in Nat /\ Len(list) > 0 /\ DOMAIN list = 1..Len(list)
    BY <1>2 DEF IsRun
  <2>2. /\ list[1] \in Variable /\ 1 \in DOMAIN list
    BY <2>1
  <2>3. new = [list EXCEPT ![1] = [list[1] EXCEPT !.ref = None]]
    OBVIOUS
  <2> DEFINE v == [list[1] EXCEPT !.ref = None]
  <2>4. v \in Variable /\ v.n = list[1].n /\ v.ref = None
    BY <2>2 DEF Variable
  <2> HIDE DEF v
  <2>5. new = [list EXCEPT ![1] = v]
    BY <2>3 DEF v
  <2> HIDE DEF new
  <2>6. new \in Seq(Variable) /\ Len(new) = Len(list) /\ DOMAIN new = DOMAIN list
    BY <2>1, <2>4, <2>5
  <2>7. new[1] = v /\ \A i \in DOMAIN list : i # 1 => new[i] = list[i]
    BY <2>2, <2>5
  <2>8. \A i \in DOMAIN list : new[i].n = list[i].n /\ new[i].ref \in {None, Child(r)}
    BY <2>4, <2>7 DEF IsRun
  <2>9. IsRun(new, r)
    <3>1. \A i \in DOMAIN list : list[i].n = list[1].n + (i - 1)
      BY DEF IsRun
    <3> QED
      BY <2>2, <2>6, <2>8, <3>1 DEF IsRun
  <2>10. Plain(list) = new
    BY <1>2 DEF Plain, new
  <2>11. new # <<>>
    BY <2>1, <2>6
  <2> QED
    BY <1>2, <2>6, <2>8, <2>9, <2>10, <2>11
<1> QED
  BY <1>1, <1>2

LEMMA PlainGoesOn ==
  ASSUME InspectorAssumption, NEW list, NEW more, NEW r, NEW m,
         IsRun(list, r), GoesOn(list, more, m)
  PROVE  /\ IsRun(Plain(list), r) /\ GoesOn(Plain(list), more, m)
         /\ Len(Plain(list)) = Len(list)
         /\ IsPrefix(list, more) => IsPrefix(Plain(list), more)
         /\ Plain(list) = <<>> <=> list = <<>>
         /\ list # <<>> => Plain(list)[Len(Plain(list))].n = list[Len(list)].n
<1>1. /\ IsRun(Plain(list), r) /\ Len(Plain(list)) = Len(list)
      /\ DOMAIN Plain(list) = DOMAIN list
      /\ \A i \in DOMAIN list : Plain(list)[i].n = list[i].n
      /\ Plain(list) = <<>> <=> list = <<>>
  BY PlainIsRun
<1>2. list # <<>> => Len(list) \in DOMAIN list
  BY DEF IsRun
<1>3. list # <<>> => Plain(list)[Len(Plain(list))].n = list[Len(list)].n
  BY <1>1, <1>2
<1>4. GoesOn(Plain(list), more, m)
  BY <1>1, <1>3 DEF GoesOn
<1>5. IsPrefix(list, more) => IsPrefix(Plain(list), more)
  BY <1>1 DEF IsPrefix
<1> QED
  BY <1>1, <1>3, <1>4, <1>5

(* A variable of a cached list has become plain. *)
LEMMA CachedPlainKeeps ==
  ASSUME InspectorAssumption, NEW t, NEW ops, NEW back, NEW m, TableInv(t, ops, back, m),
         NEW r \in DOMAIN t.cache
  PROVE  LET u == [t EXCEPT !.cache[r] = Plain(t.cache[r])] IN
         /\ TableInv(u, ops, back, m)
         /\ u.gen = t.gen /\ u.root = t.root /\ u.rootRef = t.rootRef /\ u.rootNext = t.rootNext
<1> DEFINE list == Plain(t.cache[r])
           u == [t EXCEPT !.cache[r] = list]
<1>1. IsTable(t) /\ CacheInv(t, back, m) /\ RootInv(t, m) /\ FetchInv(t, ops, m)
  BY DEF TableInv
<1>2. /\ IsRun(list, r) /\ GoesOn(list, t.next[r], m) /\ Len(list) = Len(t.cache[r])
      /\ IsPrefix(t.cache[r], t.next[r]) => IsPrefix(list, t.next[r])
      /\ list = <<>> <=> t.cache[r] = <<>>
      /\ t.cache[r] # <<>> => list[Len(list)].n = t.cache[r][Len(t.cache[r])].n
  <2>1. IsRun(t.cache[r], r) /\ GoesOn(t.cache[r], t.next[r], m)
    BY <1>1 DEF CacheInv
  <2> QED
    BY <2>1, PlainGoesOn
<1> HIDE DEF list
<1>3. u = [gen |-> t.gen, root |-> t.root, rootRef |-> t.rootRef, rootNext |-> t.rootNext,
           expanded |-> t.expanded, cache |-> [t.cache EXCEPT ![r] = list], next |-> t.next,
           visible |-> t.visible, fetching |-> t.fetching]
  <2>1. u = [t EXCEPT !.cache = [t.cache EXCEPT ![r] = list]]
    OBVIOUS
  <2> HIDE DEF u
  <2> QED
    BY <1>1, <2>1 DEF IsTable
<1> HIDE DEF u
<1>4. /\ u.gen = t.gen /\ u.root = t.root /\ u.rootRef = t.rootRef /\ u.rootNext = t.rootNext
      /\ u.expanded = t.expanded /\ u.cache = [t.cache EXCEPT ![r] = list]
      /\ u.next = t.next /\ u.visible = t.visible /\ u.fetching = t.fetching
  BY <1>3
<1>5. /\ IsFcn(u.cache) /\ DOMAIN u.cache = DOMAIN t.cache /\ u.cache[r] = list
      /\ \A x \in DOMAIN t.cache : x # r => u.cache[x] = t.cache[x]
  BY <1>4 DEF IsFcn
<1>6. IsTable(u)
  BY <1>1, <1>3, <1>4, <1>5 DEF IsTable
<1>7. CacheInv(u, back, m)
  <2>1. ASSUME NEW x \in DOMAIN u.cache
        PROVE  /\ IsRun(u.cache[x], x) /\ GoesOn(u.cache[x], u.next[x], m)
               /\ u.visible[x] \in 0..Len(u.cache[x])
               /\ u.cache[x] # <<>> => IsBelow(x, u.rootRef)
               /\ x \in back \/ IsPrefix(u.cache[x], u.next[x])
    <3>1. CASE x = r
      BY <1>1, <1>2, <1>4, <1>5, <3>1 DEF CacheInv
    <3>2. CASE x # r
      BY <1>1, <1>4, <1>5, <3>2 DEF CacheInv
    <3> QED
      BY <3>1, <3>2
  <2> QED
    BY <2>1 DEF CacheInv
<1>8. RootInv(u, m)
  BY <1>1, <1>4 DEF RootInv
<1>9. FetchInv(u, ops, m)
  BY <1>1, <1>2, <1>4, <1>5, FetchKeeps
<1> QED
  BY <1>4, <1>6, <1>7, <1>8, <1>9 DEF TableInv, u, list

(* An edit brings a list back that is not there any more: it is empty.     *)
LEMMA BroughtBackKeeps ==
  ASSUME InspectorAssumption, NEW t, NEW ops, NEW back, NEW m, TableInv(t, ops, back, m),
         NEW r \in Refs, r \notin DOMAIN t.cache
  PROVE  LET u == [t EXCEPT !.cache = With(@, r, <<>>), !.next = With(@, r, 0),
                            !.visible = With(@, r, 0)] IN
         /\ TableInv(u, ops, back \cup {r}, m)
         /\ u.gen = t.gen /\ u.root = t.root /\ u.rootRef = t.rootRef /\ u.rootNext = t.rootNext
<1> DEFINE u == [t EXCEPT !.cache = With(t.cache, r, <<>>), !.next = With(t.next, r, 0),
                          !.visible = With(t.visible, r, 0)]
<1>1. IsTable(t) /\ CacheInv(t, back, m) /\ RootInv(t, m) /\ FetchInv(t, ops, m)
  BY DEF TableInv
<1>2. u = [gen |-> t.gen, root |-> t.root, rootRef |-> t.rootRef, rootNext |-> t.rootNext,
           expanded |-> t.expanded, cache |-> With(t.cache, r, <<>>),
           next |-> With(t.next, r, 0), visible |-> With(t.visible, r, 0),
           fetching |-> t.fetching]
  <2>1. u = [t EXCEPT !.cache = With(t.cache, r, <<>>), !.next = With(t.next, r, 0),
                      !.visible = With(t.visible, r, 0)]
    OBVIOUS
  <2> HIDE DEF u
  <2> QED
    BY <1>1, <2>1 DEF IsTable
<1> HIDE DEF u
<1>3. /\ u.gen = t.gen /\ u.root = t.root /\ u.rootRef = t.rootRef /\ u.rootNext = t.rootNext
      /\ u.expanded = t.expanded /\ u.cache = With(t.cache, r, <<>>)
      /\ u.next = With(t.next, r, 0) /\ u.visible = With(t.visible, r, 0)
      /\ u.fetching = t.fetching
  BY <1>2
<1>4. /\ DOMAIN u.cache = DOMAIN t.cache \cup {r}
      /\ u.cache[r] = <<>> /\ u.next[r] = 0 /\ u.visible[r] = 0
      /\ \A x \in DOMAIN t.cache : /\ u.cache[x] = t.cache[x] /\ u.next[x] = t.next[x]
                                   /\ u.visible[x] = t.visible[x]
  BY <1>1, <1>3 DEF With, IsTable
<1>5. IsTable(u)
  BY <1>1, <1>2, <1>3, <1>4 DEF IsTable, IsFcn, With
<1>6. CacheInv(u, back \cup {r}, m)
  <2>1. ASSUME NEW x \in DOMAIN u.cache
        PROVE  /\ IsRun(u.cache[x], x) /\ GoesOn(u.cache[x], u.next[x], m)
               /\ u.visible[x] \in 0..Len(u.cache[x])
               /\ u.cache[x] # <<>> => IsBelow(x, u.rootRef)
               /\ x \in back \cup {r} \/ IsPrefix(u.cache[x], u.next[x])
    <3>1. CASE x = r
      <4>1. IsRun(<<>>, r) /\ GoesOn(<<>>, 0, m)
        BY DEF IsRun, GoesOn, InspectorAssumption
      <4> QED
        BY <1>4, <3>1, <4>1
    <3>2. CASE x # r
      BY <1>1, <1>3, <1>4, <3>2 DEF CacheInv
    <3> QED
      BY <3>1, <3>2
  <2> QED
    BY <2>1 DEF CacheInv
<1>7. RootInv(u, m)
  BY <1>1, <1>3 DEF RootInv
<1>8. FetchInv(u, ops, m)
  BY <1>1, <1>3, <1>4, FetchKeeps
<1> QED
  BY <1>3, <1>5, <1>6, <1>7, <1>8 DEF TableInv, u

(* Lists are closed and forgotten. *)
LEMMA ForgottenIsLess ==
  ASSUME NEW t, IsTable(t), NEW S
  PROVE  IsLess([t EXCEPT !.cache = Without(@, S), !.next = Without(@, S),
                          !.visible = Without(@, S), !.expanded = @ \ S], t)
<1> DEFINE u == [t EXCEPT !.cache = Without(t.cache, S), !.next = Without(t.next, S),
                          !.visible = Without(t.visible, S), !.expanded = t.expanded \ S]
<1>1. /\ u = [gen |-> t.gen, root |-> t.root, rootRef |-> t.rootRef, rootNext |-> t.rootNext,
              expanded |-> u.expanded, cache |-> u.cache, next |-> u.next,
              visible |-> u.visible, fetching |-> t.fetching]
      /\ u.expanded = t.expanded \ S /\ u.cache = Without(t.cache, S)
      /\ u.next = Without(t.next, S) /\ u.visible = Without(t.visible, S)
  <2>1. u = [t EXCEPT !.cache = Without(t.cache, S), !.next = Without(t.next, S),
                      !.visible = Without(t.visible, S), !.expanded = t.expanded \ S]
    OBVIOUS
  <2> HIDE DEF u
  <2> QED
    BY <2>1 DEF IsTable
<1> HIDE DEF u
<1>2. u.fetching = t.fetching
  BY <1>1
<1> QED
  BY <1>1, <1>2 DEF IsLess, IsTable, IsFcn, Without, Restrict, u

-----------------------------------------------------------------------------
(* The Select *)

LEMMA SelectsKeeps ==
  ASSUME InspectorAssumption, changes \in Seq(Names), NEW n \in Names, Selects(n),
         select \in Names => \E sh : SelectInv(select, changes, sh)
  PROVE  changes' \in Seq(Names) /\ select' = n /\ SelectInv(select', changes', n)
<1>1. n # None
  BY NoneIsNoValue
<1>2. CASE n # select
  <2>1. changes' = Append(changes, n) /\ select' = n
    BY <1>1, <1>2 DEF Selects
  <2>2. changes' \in Seq(Names) /\ changes' # <<>> /\ changes'[Len(changes')] = n
    BY <2>1
  <2> QED
    BY <2>1, <2>2 DEF SelectInv
<1>3. CASE n = select
  <2>1. changes' = changes /\ select' = n
    BY <1>3 DEF Selects
  <2> QED
    BY <1>3, <2>1 DEF SelectInv
<1> QED
  BY <1>2, <1>3

(* What every step leaves of the Select and its messages *)
SelectStands ==
  /\ changes \in Seq(Names)
  /\ IF scopes = 0 THEN select = None
     ELSE select \in Names /\ SelectInv(select, changes, pSel)

(* An update puts the Select back to the panel's scope. *)
LEMMA PutBack ==
  ASSUME InspectorAssumption, IInv, Selects(pSel), UNCHANGED <<scopes, pSel>>
  PROVE  SelectStands'
<1>1. ShownInv /\ changes \in Seq(Names)
  BY DEF IInv, BoundsInv
<1>2. CASE scopes = 0
  <2>1. select' = None /\ changes' = changes /\ scopes' = 0
    BY <1>1, <1>2 DEF ShownInv, Selects
  <2> QED
    BY <1>1, <2>1 DEF SelectStands
<1>3. CASE scopes # 0
  <2>1. pSel \in Names /\ SelectInv(select, changes, pSel)
    BY <1>1, <1>3 DEF ShownInv
  <2>2. changes' \in Seq(Names) /\ select' = pSel /\ SelectInv(select', changes', pSel)
    BY <1>1, <2>1, SelectsKeeps
  <2> QED
    BY <1>3, <2>1, <2>2 DEF SelectStands
<1> QED
  BY <1>2, <1>3

LEMMA LeftAlone ==
  ASSUME IInv, UNCHANGED <<scopes, pSel, select, changes>>
  PROVE  SelectStands'
BY DEF IInv, BoundsInv, ShownInv, SelectStands

-----------------------------------------------------------------------------
(* The steps of the table *)

(* What a step of the table must keep *)
LEMMA TableStep ==
  ASSUME InspectorAssumption, IInv,
         UNCHANGED <<stop, mode, frame, scopes, selName, gen, loads, pSel, pGen, task, failed>>,
         SelectStands',
         plain' \subseteq Refs, crossed' \subseteq Refs,
         op' = [p \in Pumps |-> op'[p]], \A p \in Pumps : op'[p] = Idle \/ op'[p] \in Ask,
         edit' = None \/ edit' \in Editing,
         PagesInv', TableInv(table', op', crossed', mode),
         table'.gen = table.gen, table'.rootRef = table.rootRef,
         table'.rootNext = None <=> table.rootNext = None
  PROVE  IInv'
<1>1. BoundsInv'
  BY DEF IInv, BoundsInv, SelectStands
<1>2. ShownInv'
  BY DEF IInv, ShownInv, NoStuckLoading, SelectStands
<1>3. \A l \in Loaders : LoadInv(l)'
  BY DEF IInv, LoadInv
<1>4. TableInv(table, op, crossed, mode)'
  OBVIOUS
<1> QED
  BY <1>1, <1>2, <1>3, <1>4 DEF IInv

LEMMA AskFacts ==
  ASSUME IInv, NEW p \in Pumps, op[p] # Idle
  PROVE  op[p] \in Ask
BY DEF IInv, BoundsInv

(* A request is sent. *)
LEMMA AskStep ==
  ASSUME InspectorAssumption, IInv, NEW p \in Pumps, op[p] = Idle,
         NEW o \in Ask, IsBelow(o.ref, table.rootRef), Continues(table, o, mode),
         table.rootNext # None,
         table' = [table EXCEPT !.fetching = With(@, o.ref, p)],
         op' = [op EXCEPT ![p] = o], OnTable(p), Unsaved
  PROVE  IInv'
<1>1. TableInv(table, op, crossed, mode) /\ op = [q \in Pumps |-> op[q]]
  BY DEF IInv, BoundsInv
<1>2. TableInv(table', op', crossed, mode)
  BY <1>1, AskKeeps
<1>3. table'.gen = table.gen /\ table'.rootRef = table.rootRef /\ table'.rootNext = table.rootNext
  BY <1>1 DEF TableInv, IsTable
<1>4. op' = [q \in Pumps |-> op'[q]] /\ \A q \in Pumps : op'[q] = Idle \/ op'[q] \in Ask
  BY <1>1 DEF IInv, BoundsInv
<1>5. PagesInv'
  BY DEF IInv, PagesInv, IsBeginning, GoesOn, OnTable, Unsaved
<1>6. plain' \subseteq Refs /\ crossed' \subseteq Refs /\ crossed' = crossed
      /\ (edit' = None \/ edit' \in Editing)
  BY DEF IInv, BoundsInv, OnTable, history
<1>7. UNCHANGED <<stop, mode, frame, scopes, selName, gen, loads, pSel, pGen, task, failed>>
  BY DEF OnTable, history
<1>8. SelectStands'
  BY LeftAlone DEF OnTable, Unsaved
<1> QED
  BY <1>2, <1>3, <1>4, <1>5, <1>6, <1>7, <1>8, TableStep

(* Lists are opened, closed or shown further: no request is involved. *)
LEMMA QuietStep ==
  ASSUME InspectorAssumption, IInv, NEW p \in Pumps, OnTable(p), Unsaved, UNCHANGED op,
         TableInv(table', op, crossed, mode),
         table'.gen = table.gen, table'.rootRef = table.rootRef,
         table'.rootNext = table.rootNext
  PROVE  IInv'
<1>1. PagesInv'
  BY DEF IInv, PagesInv, IsBeginning, GoesOn, OnTable, Unsaved
<1>2. /\ plain' \subseteq Refs /\ crossed' \subseteq Refs /\ crossed' = crossed
      /\ edit' = None \/ edit' \in Editing
      /\ op' = [q \in Pumps |-> op'[q]] /\ \A q \in Pumps : op'[q] = Idle \/ op'[q] \in Ask
  BY DEF IInv, BoundsInv, OnTable, history
<1>3. UNCHANGED <<stop, mode, frame, scopes, selName, gen, loads, pSel, pGen, task, failed>>
  BY DEF OnTable, history
<1>4. SelectStands'
  BY LeftAlone DEF OnTable, Unsaved
<1> QED
  BY <1>1, <1>2, <1>3, <1>4, TableStep

LEMMA ToggleStep ==
  ASSUME InspectorAssumption, IInv, NEW p \in Pumps, Toggle(p)
  PROVE  IInv'
<1>1. TableInv(table, op, crossed, mode) /\ IsTable(table)
  BY DEF IInv, TableInv
<1>2. PICK r \in NodeRefs(table) :
        \/ r \in table.expanded /\ table' = ClearTree(table, r)
        \/ /\ r \notin table.expanded /\ r \in DOMAIN table.cache
           /\ table' = [table EXCEPT !.expanded = @ \cup {r}]
  BY DEF Toggle
<1>3. table.rootNext # None
  BY <1>1, NodeIsBelow
<1>4. /\ TableInv(table', op, crossed, mode)
      /\ table'.gen = table.gen /\ table'.rootRef = table.rootRef
      /\ table'.rootNext = table.rootNext
  <2>1. CASE table' = ClearTree(table, r)
    <3>1. IsLess(table', table)
      BY <1>1, <2>1, ClearIsLess
    <3>2. TableInv(table', op, crossed, mode)
      BY <1>1, <3>1, LessKeeps
    <3> QED
      BY <3>1, <3>2 DEF IsLess
  <2>2. CASE r \in DOMAIN table.cache /\ table' = [table EXCEPT !.expanded = @ \cup {r}]
    BY <1>1, <1>3, <2>2, OpenKeeps
  <2> QED
    BY <1>2, <2>1, <2>2
<1> QED
  BY <1>4, QuietStep DEF Toggle

LEMMA ExpandStep ==
  ASSUME InspectorAssumption, IInv, NEW p \in Pumps, Expand(p)
  PROVE  IInv'
<1>1. TableInv(table, op, crossed, mode)
  BY DEF IInv
<1>2. PICK r \in NodeRefs(table) :
        /\ table' = [table EXCEPT !.fetching = With(@, r, p)]
        /\ op' = [op EXCEPT ![p] = [at |-> "expand", ref |-> r, start |-> 0]]
  BY DEF Expand
<1>3. r \in Refs /\ IsBelow(r, table.rootRef) /\ table.rootNext # None
  BY <1>1, NodeIsBelow
<1> DEFINE o == [at |-> "expand", ref |-> r, start |-> 0]
<1>4. o \in Ask /\ o.ref = r /\ Continues(table, o, mode)
  <2>1. 0 \in 0..Total
    BY DEF InspectorAssumption
  <2> QED
    BY <1>3, <2>1 DEF Ask, Continues
<1>5. op[p] = Idle /\ OnTable(p) /\ Unsaved
  BY DEF Expand
<1> HIDE DEF o
<1>6. table' = [table EXCEPT !.fetching = With(@, o.ref, p)] /\ op' = [op EXCEPT ![p] = o]
  BY <1>2, <1>4 DEF o
<1> QED
  BY <1>3, <1>4, <1>5, <1>6, AskStep

(* Where "Load more..." goes on in a list *)
LEMMA MoreFacts ==
  ASSUME InspectorAssumption, NEW t, NEW ops, NEW back, NEW m, TableInv(t, ops, back, m),
         NEW r \in OpenLists(t), MoreStart(t, r) # 0
  PROVE  LET start == MoreStart(t, r) IN
         /\ start < Len(t.cache[r]) =>
              MinOf(start + PageSize, Len(t.cache[r])) \in 0..Len(t.cache[r])
         /\ start >= Len(t.cache[r]) =>
              /\ start \in 0..Total /\ m # "whole" /\ t.cache[r] # <<>>
              /\ start = t.cache[r][Len(t.cache[r])].n
<1>1. /\ r \in DOMAIN t.cache
      /\ IsRun(t.cache[r], r) /\ GoesOn(t.cache[r], t.next[r], m)
      /\ t.visible[r] \in 0..Len(t.cache[r])
  BY OpenIsBelow DEF TableInv, CacheInv
<1>2. Len(t.cache[r]) \in Nat /\ PageSize \in Nat
  BY <1>1 DEF IsRun, InspectorAssumption
<1>3. CASE t.visible[r] < Len(t.cache[r])
  <2>1. MoreStart(t, r) = t.visible[r]
    BY <1>3 DEF MoreStart
  <2> QED
    BY <1>1, <1>2, <1>3, <2>1 DEF MinOf
<1>4. CASE ~(t.visible[r] < Len(t.cache[r]))
  <2>1. MoreStart(t, r) = t.next[r]
    BY <1>4 DEF MoreStart
  <2>2. t.next[r] \in Nat
    BY <1>1 DEF GoesOn, InspectorAssumption
  <2> QED
    BY <1>1, <1>2, <2>1, <2>2 DEF GoesOn, MinOf
<1> QED
  BY <1>3, <1>4

LEMMA ShowMoreStep ==
  ASSUME InspectorAssumption, IInv, NEW p \in Pumps, ShowMore(p)
  PROVE  IInv'
<1>1. TableInv(table, op, crossed, mode)
  BY DEF IInv
<1>2. PICK r \in OpenLists(table) :
        /\ MoreStart(table, r) # 0 /\ MoreStart(table, r) < Len(table.cache[r])
        /\ table' = [table EXCEPT !.visible =
             With(@, r, MinOf(MoreStart(table, r) + PageSize, Len(table.cache[r])))]
  BY DEF ShowMore
<1>3. /\ r \in DOMAIN table.cache
      /\ MinOf(MoreStart(table, r) + PageSize, Len(table.cache[r])) \in 0..Len(table.cache[r])
  BY <1>1, <1>2, OpenIsBelow, MoreFacts
<1>4. /\ TableInv(table', op, crossed, mode)
      /\ table'.gen = table.gen /\ table'.rootRef = table.rootRef
      /\ table'.rootNext = table.rootNext
  BY <1>1, <1>2, <1>3, ShowMoreKeeps
<1> QED
  BY <1>4, QuietStep DEF ShowMore

LEMMA FetchMoreStep ==
  ASSUME InspectorAssumption, IInv, NEW p \in Pumps, FetchMore(p)
  PROVE  IInv'
<1>1. TableInv(table, op, crossed, mode)
  BY DEF IInv
<1>2. PICK r \in OpenLists(table) :
        /\ MoreStart(table, r) # 0 /\ MoreStart(table, r) >= Len(table.cache[r])
        /\ op' = [op EXCEPT ![p] = [at |-> "more", ref |-> r, start |-> MoreStart(table, r)]]
        /\ table' = [table EXCEPT !.fetching = With(@, r, p)]
  BY DEF FetchMore
<1> DEFINE o == [at |-> "more", ref |-> r, start |-> MoreStart(table, r)]
<1>3. /\ MoreStart(table, r) \in 0..Total /\ mode # "whole" /\ table.cache[r] # <<>>
      /\ MoreStart(table, r) = table.cache[r][Len(table.cache[r])].n
  BY <1>1, <1>2, MoreFacts
<1>4. r \in Refs /\ IsBelow(r, table.rootRef) /\ table.rootNext # None
  BY <1>1, <1>3, OpenIsBelow
<1>5. o \in Ask /\ o.ref = r /\ Continues(table, o, mode)
  BY <1>2, <1>3, <1>4 DEF Ask, Continues
<1>6. op[p] = Idle /\ OnTable(p) /\ Unsaved
  BY DEF FetchMore
<1> HIDE DEF o
<1>7. table' = [table EXCEPT !.fetching = With(@, o.ref, p)] /\ op' = [op EXCEPT ![p] = o]
  BY <1>2, <1>5 DEF o
<1> QED
  BY <1>4, <1>5, <1>6, <1>7, AskStep

LEMMA FetchRootStep ==
  ASSUME InspectorAssumption, IInv, NEW p \in Pumps, FetchRoot(p)
  PROVE  IInv'
<1>1. RootInv(table, mode)
  BY DEF IInv, TableInv
<1> DEFINE o == [at |-> "root", ref |-> table.rootRef, start |-> table.rootNext]
<1>2. table.root # <<>> /\ table.rootNext # None /\ table.rootNext # 0
  BY DEF FetchRoot
<1>3. table.rootRef \in Refs /\ IsBeginning(table.root, table.rootNext, table.rootRef, mode)
  BY <1>1, <1>2 DEF RootInv
<1>4. table.rootNext \in 0..Total /\ mode # "whole"
  BY <1>2, <1>3 DEF IsBeginning, GoesOn
<1>5. o \in Ask /\ o.ref = table.rootRef /\ Continues(table, o, mode)
  BY <1>2, <1>3, <1>4 DEF Ask, Continues
<1>6. IsBelow(table.rootRef, table.rootRef)
  BY <1>3, NoneIsNoNext DEF IsBelow
<1>7. op[p] = Idle /\ OnTable(p) /\ Unsaved
  BY DEF FetchRoot
<1>8. /\ table' = [table EXCEPT !.fetching = With(@, o.ref, p)]
      /\ op' = [op EXCEPT ![p] = o]
  BY DEF FetchRoot
<1> HIDE DEF o
<1> QED
  BY <1>2, <1>5, <1>6, <1>7, <1>8, AskStep

(* A request of pump p is over. *)
LEMMA AnsweredStep ==
  ASSUME InspectorAssumption, IInv, NEW p \in Pumps, OnTable(p),
         op' = [op EXCEPT ![p] = Idle], PagesInv', SelectStands',
         TableInv(table', op', crossed, mode),
         table'.gen = table.gen, table'.rootRef = table.rootRef,
         table'.rootNext = None <=> table.rootNext = None
  PROVE  IInv'
<1>1. op = [q \in Pumps |-> op[q]] /\ \A q \in Pumps : op[q] = Idle \/ op[q] \in Ask
  BY DEF IInv, BoundsInv
<1>2. op' = [q \in Pumps |-> op'[q]] /\ \A q \in Pumps : op'[q] = Idle \/ op'[q] \in Ask
  BY <1>1
<1>3. /\ plain' \subseteq Refs /\ crossed' \subseteq Refs /\ crossed' = crossed
      /\ edit' = None \/ edit' \in Editing
  BY DEF IInv, BoundsInv, OnTable, history
<1>4. UNCHANGED <<stop, mode, frame, scopes, selName, gen, loads, pSel, pGen, task, failed>>
  BY DEF OnTable, history
<1> QED
  BY <1>2, <1>3, <1>4, TableStep

(* The pages in the store when none comes *)
LEMMA PagesStay ==
  ASSUME IInv, UNCHANGED <<pages, scopes, mode>>
  PROVE  PagesInv'
BY DEF IInv, PagesInv, IsBeginning, GoesOn

LEMMA FetchFailsStep ==
  ASSUME InspectorAssumption, IInv, NEW p \in Pumps, FetchFails(p)
  PROVE  IInv'
<1>1. TableInv(table, op, crossed, mode) /\ op = [q \in Pumps |-> op[q]] /\ op[p] \in Ask
  BY AskFacts DEF IInv, BoundsInv, FetchFails
<1>2. /\ OnTable(p) /\ op' = [op EXCEPT ![p] = Idle] /\ Unsaved
      /\ table' = Finished(table, op[p].ref, p)
  BY DEF FetchFails
<1>3. /\ TableInv(table', op', crossed, mode)
      /\ table'.gen = table.gen /\ table'.rootRef = table.rootRef
      /\ table'.rootNext = table.rootNext
  BY <1>1, <1>2, DoneKeeps
<1>4. PagesInv' /\ SelectStands'
  BY <1>2, PagesStay, LeftAlone DEF OnTable, Unsaved
<1> QED
  BY <1>2, <1>3, <1>4, AnsweredStep

(* The root list grows by the page that was asked for, in the table and in *)
(* the store. *)
LEMMA RootFetched ==
  ASSUME InspectorAssumption, IInv, NEW p \in Pumps, op[p] # Idle, op[p].at = "root",
         UsesFetch(table, op[p].ref, p)
  PROVE  LET r == op[p].ref
             page == GetPage(r, op[p].start)
             all == table.root \o NewVariables(table.root, page.vars)
             root == RootPage(all, page) IN
         /\ r = table.rootRef /\ r \in Refs
         /\ root \in Page /\ root.vars = all
         /\ IsBeginning(all, root.next, r, mode)
<1> DEFINE r == op[p].ref
           start == op[p].start
           page == GetPage(r, start)
           all == table.root \o NewVariables(table.root, page.vars)
<1>1. /\ TableInv(table, op, crossed, mode) /\ op = [q \in Pumps |-> op[q]] /\ op[p] \in Ask
      /\ mode \in {"counted", "uncounted", "whole"}
  BY AskFacts DEF IInv, BoundsInv
<1>2. r \in Refs /\ start \in 0..Total
  BY <1>1 DEF Ask
<1>3. Continues(table, op[p], mode) /\ table.rootNext # None
  BY <1>1, DoneKeeps
<1>4. start # 0 /\ mode # "whole" /\ r = table.rootRef /\ start = table.rootNext
  BY <1>3 DEF Continues
<1>5. IsBeginning(table.root, table.rootNext, r, mode)
  BY <1>1, <1>3, <1>4 DEF TableInv, RootInv
<1>6. /\ table.root \in Seq(Variable) /\ Len(table.root) \in 1..Total /\ table.root # <<>>
      /\ table.root[1].n = 1 /\ table.root[Len(table.root)].n = Len(table.root)
      /\ start = Len(table.root) /\ IsRun(table.root, r)
  <2>1. IsRun(table.root, r)
    BY <1>5 DEF IsBeginning
  <2> QED
    BY <1>4, <1>5, <2>1, BeginningFacts
<1>7. /\ IsRun(page.vars, r) /\ page.vars \in Seq(Variable)
      /\ page.vars # <<>> => page.vars[1].n = start + 1
  <2>1. IsRun(page.vars, r) /\ (page.vars # <<>> => page.vars[1].n = start + 1)
    BY <1>1, <1>2, <1>4, PageIsRun
  <2> QED
    BY <2>1 DEF IsRun
<1> HIDE DEF page
<1>8. NewVariables(table.root, page.vars) = page.vars
  <2>1. (table.root # <<>> /\ page.vars # <<>>) =>
          table.root[Len(table.root)].n < page.vars[1].n
    BY <1>6, <1>7
  <2> QED
    BY <1>6, <1>7, <2>1, AllNew
<1>9. /\ IsRun(all, r) /\ Len(all) = Len(table.root) + Len(page.vars)
      /\ all[1] = table.root[1]
  <2>1. AreOneRun(table.root, page.vars, r)
    BY <1>6, <1>7, JoinedRuns
  <2>2. all = table.root \o page.vars
    BY <1>8
  <2> QED
    BY <1>6, <2>1, <2>2 DEF AreOneRun
<1> HIDE DEF all
<1>10. all # <<>> /\ all[1].n = 1 /\ Len(all) = start + Len(page.vars)
  <2>1. Len(all) # 0
    <3>1. Len(table.root) \in Nat /\ Len(table.root) # 0 /\ Len(page.vars) \in Nat
      BY <1>6, <1>7
    <3>2. Len(all) = Len(table.root) + Len(page.vars)
      BY <1>9
    <3>3. \A a, b \in Nat : a # 0 => a + b # 0
      OBVIOUS
    <3> QED
      BY <3>1, <3>2, <3>3, Zenon
  <2>2. all # <<>>
    BY <2>1
  <2> QED
    BY <1>6, <1>9, <2>2
<1>11. /\ RootPage(all, page).vars = all /\ RootPage(all, page) \in Page
       /\ IsBeginning(all, RootPage(all, page).next, r, mode)
  BY <1>1, <1>2, <1>4, <1>9, <1>10, GrownRoot DEF page
<1> QED
  BY <1>2, <1>4, <1>11 DEF page, all

LEMMA FetchedStep ==
  ASSUME InspectorAssumption, IInv, NEW p \in Pumps, Fetched(p)
  PROVE  IInv'
<1> DEFINE r == op[p].ref
           start == op[p].start
           page == GetPage(r, start)
           done == Finished(table, r, p)
           all == table.root \o NewVariables(table.root, page.vars)
           root == RootPage(all, page)
<1>1. /\ TableInv(table, op, crossed, mode) /\ op = [q \in Pumps |-> op[q]] /\ op[p] \in Ask
      /\ mode \in {"counted", "uncounted", "whole"}
  BY AskFacts DEF IInv, BoundsInv, Fetched
<1>2. OnTable(p) /\ op' = [op EXCEPT ![p] = Idle]
  BY DEF Fetched
<1>3. r \in Refs /\ start \in 0..Total /\ op[p].at \in {"expand", "more", "root"}
  BY <1>1 DEF Ask
<1>4. /\ TableInv(done, op', crossed, mode)
      /\ done.gen = table.gen /\ done.root = table.root /\ done.rootRef = table.rootRef
      /\ done.rootNext = table.rootNext /\ done.expanded = table.expanded
      /\ done.cache = table.cache
      /\ UsesFetch(table, r, p) =>
           /\ r \notin DOMAIN done.fetching
           /\ IsBelow(r, table.rootRef) /\ Continues(table, op[p], mode)
           /\ table.rootNext # None
  BY <1>1, <1>2, DoneKeeps
<1>5. /\ mode' = mode /\ scopes' = scopes /\ pSel' = pSel
      /\ Unsaved => PagesInv' /\ SelectStands'
  BY <1>2, PagesStay, LeftAlone DEF OnTable, Unsaved
<1> HIDE DEF done
<1>6. CASE ~UsesFetch(table, r, p) /\ table' = done /\ Unsaved
  <2>1. PagesInv' /\ SelectStands'
    BY <1>5, <1>6
  <2> QED
    BY <1>2, <1>4, <1>6, <2>1, AnsweredStep
<1>7. CASE UsesFetch(table, r, p) /\ op[p].at = "expand" /\ table' = Opened(done, r, page)
           /\ Unsaved
  <2>1. PagesInv' /\ SelectStands'
    BY <1>5, <1>7
  <2>2. start = 0
    BY <1>4, <1>7 DEF Continues
  <2>3. IsBeginning(page.vars, page.next, r, mode)
    BY <1>1, <1>3, <2>2, FirstPage
  <2> HIDE DEF page
  <2>4. /\ TableInv(table', op', crossed, mode)
        /\ table'.gen = done.gen /\ table'.rootRef = done.rootRef
        /\ table'.rootNext = done.rootNext
    BY <1>3, <1>4, <1>7, <2>3, OpenedKeeps
  <2> QED
    BY <1>2, <1>4, <2>1, <2>4, AnsweredStep
<1>8. CASE UsesFetch(table, r, p) /\ op[p].at = "more"
           /\ table' = (IF r \in table.expanded THEN Extended(done, r, page) ELSE done)
           /\ Unsaved
  <2>1. PagesInv' /\ SelectStands'
    BY <1>5, <1>8
  <2>2. start # 0 /\ mode # "whole"
    BY <1>4, <1>8 DEF Continues
  <2>3. /\ TableInv(table', op', crossed, mode)
        /\ table'.gen = done.gen /\ table'.rootRef = done.rootRef
        /\ table'.rootNext = done.rootNext
    <3>1. CASE r \in table.expanded
      <4>1. r \in DOMAIN table.cache
        BY <1>1, <3>1 DEF TableInv, IsTable
      <4>2. done.cache[r] # <<>> => start = done.cache[r][Len(done.cache[r])].n
        BY <1>4, <1>8, <4>1 DEF Continues
      <4>3. table' = Extended(done, r, page)
        BY <1>8, <3>1
      <4> HIDE DEF r, start
      <4> QED
        BY <1>1, <1>3, <1>4, <1>8, <2>2, <3>1, <4>2, <4>3, ExtendedKeeps
    <3>2. CASE r \notin table.expanded
      BY <1>4, <1>8, <3>2
    <3> QED
      BY <3>1, <3>2
  <2> QED
    BY <1>2, <1>4, <2>1, <2>3, AnsweredStep
<1>9. CASE /\ UsesFetch(table, r, p) /\ op[p].at = "root"
           /\ table' = [done EXCEPT !.root = all, !.rootNext = root.next]
           /\ Persists(r, root)
  <2>1. /\ r = table.rootRef /\ r \in Refs
        /\ root \in Page /\ root.vars = all
        /\ IsBeginning(all, root.next, r, mode)
    BY <1>3, <1>9, RootFetched DEF Fetched
  <2> HIDE DEF all, root, page, r
  <2>2. /\ TableInv(table', op', crossed, mode)
        /\ table'.gen = done.gen /\ table'.rootRef = done.rootRef
        /\ table'.rootNext = root.next
    <3>1. /\ IsBeginning(all, root.next, done.rootRef, mode) /\ done.rootRef \in Refs
          /\ done.rootRef \notin DOMAIN done.fetching
      BY <1>4, <1>9, <2>1
    <3>2. table' = [done EXCEPT !.root = all, !.rootNext = root.next]
      BY <1>9
    <3>3. TableInv(done, op', crossed, mode)
      BY <1>4
    <3>4. TableInv(table', op', crossed, mode)
      BY <3>1, <3>2, <3>3, RootKeeps
    <3>5. /\ table'.gen = done.gen /\ table'.rootRef = done.rootRef
          /\ table'.rootNext = root.next
      BY <3>2, <3>3 DEF TableInv, IsTable
    <3> QED
      BY <3>4, <3>5
  <2>3. root.next # None
    BY <2>1, NoneIsNoNext DEF IsBeginning, GoesOn
  <2>4. PagesInv'
    <3>1. scopes # 0 => r = ScopeRef(scopes, pSel) /\ pSel \in Names
      BY <2>1 DEF IInv, ShownInv
    <3>2. scopes # 0
      BY <1>4, <1>9 DEF IInv, ShownInv
    <3>3. r[1] = scopes /\ r[2] = pSel
      BY <3>1, <3>2 DEF ScopeRef
    <3>4. pages' = [pages EXCEPT ![pSel] = root] /\ r = ScopeRef(scopes, pSel) /\ pSel \in Names
      BY <1>9, <3>1, <3>2, <3>3 DEF Persists
    <3> QED
      BY <1>5, <2>1, <3>2, <3>4 DEF IInv, PagesInv
  <2>5. SelectStands'
    BY <1>5, <1>9, PutBack DEF Persists
  <2> QED
    BY <1>2, <1>4, <1>9, <2>2, <2>3, <2>4, <2>5, AnsweredStep
<1> QED
  BY <1>3, <1>6, <1>7, <1>8, <1>9 DEF Fetched, done, page, all, root

LEMMA EditStep ==
  ASSUME InspectorAssumption, IInv, Edit
  PROVE  IInv'
<1>1. TableInv(table, op, crossed, mode) /\ mode' = mode
  BY DEF IInv, Edit
<1>2. PICK r \in (OpenLists(table) \cup {table.rootRef}) \ {None} :
        LET list == IF r = table.rootRef THEN table.root ELSE Shown(table, r) IN
        /\ list # <<>>
        /\ edit' = [parent |-> r, ref |-> list[1].ref]
  BY DEF Edit
<1> DEFINE list == IF r = table.rootRef THEN table.root ELSE Shown(table, r)
<1>3. list \in Seq(Variable) /\ r \in Refs
  <2>1. CASE r = table.rootRef
    <3>1. list = table.root /\ list # <<>> /\ r \in Refs
      BY <1>1, <1>2, <2>1 DEF TableInv, IsTable
    <3>2. IsRun(table.root, table.rootRef)
      BY <1>1, <3>1 DEF TableInv, RootInv, IsBeginning
    <3> QED
      BY <3>1, <3>2 DEF IsRun
  <2>2. CASE r # table.rootRef
    <3>1. r \in OpenLists(table)
      BY <1>2, <2>2
    <3>2. r \in Refs /\ r \in DOMAIN table.cache
      BY <1>1, <3>1, OpenIsBelow
    <3>3. table.cache[r] \in Seq(Variable) /\ table.visible[r] \in 0..Len(table.cache[r])
      BY <1>1, <3>2 DEF TableInv, CacheInv, IsRun
    <3>4. list = SubSeq(table.cache[r], 1, table.visible[r])
      BY <2>2 DEF Shown
    <3> HIDE DEF list
    <3> QED
      BY <3>2, <3>3, <3>4
  <2> QED
    BY <2>1, <2>2
<1>4. list # <<>> /\ edit' = [parent |-> r, ref |-> list[1].ref]
  BY <1>2
<1> HIDE DEF list
<1>5. list[1] \in Variable
  BY <1>3, <1>4
<1>6. edit' \in Editing
  BY <1>3, <1>4, <1>5 DEF Editing, Variable
<1>7. /\ plain' \subseteq Refs /\ crossed' \subseteq Refs /\ crossed' = crossed
      /\ op' = [q \in Pumps |-> op'[q]] /\ \A q \in Pumps : op'[q] = Idle \/ op'[q] \in Ask
      /\ UNCHANGED <<stop, mode, frame, scopes, selName, gen, loads, pSel, pGen, task, failed>>
      /\ table' = table /\ op' = op
  BY DEF IInv, BoundsInv, Edit, storeVars, panelVars, history
<1>8. PagesInv' /\ SelectStands'
  BY PagesStay, LeftAlone DEF Edit, storeVars, panelVars
<1> QED
  BY <1>1, <1>6, <1>7, <1>8, TableStep

LEMMA EditFailsStep ==
  ASSUME InspectorAssumption, IInv, EditFails
  PROVE  IInv'
<1>1. /\ plain' \subseteq Refs /\ crossed' \subseteq Refs /\ crossed' = crossed
      /\ op' = [q \in Pumps |-> op'[q]] /\ \A q \in Pumps : op'[q] = Idle \/ op'[q] \in Ask
      /\ UNCHANGED <<stop, mode, frame, scopes, selName, gen, loads, pSel, pGen, task, failed>>
      /\ table' = table /\ op' = op /\ edit' = None
      /\ TableInv(table, op, crossed, mode)
  BY DEF IInv, BoundsInv, EditFails, storeVars, panelVars, history
<1>2. PagesInv' /\ SelectStands'
  BY PagesStay, LeftAlone DEF EditFails, storeVars, panelVars
<1> QED
  BY <1>1, <1>2, TableStep

LEMMA EditedStep ==
  ASSUME InspectorAssumption, IInv, Edited
  PROVE  IInv'
<1> DEFINE r == edit.parent
           S == {edit.ref}
           isRoot == r = table.rootRef
           list == IF r \in DOMAIN table.cache THEN Plain(table.cache[r]) ELSE <<>>
           grown == IF isRoot THEN [table EXCEPT !.root = Plain(@)]
                    ELSE IF r \in DOMAIN table.cache
                         THEN [table EXCEPT !.cache[r] = list]
                         ELSE [table EXCEPT !.cache = With(@, r, list), !.next = With(@, r, 0),
                                            !.visible = With(@, r, 0)]
<1>1. /\ TableInv(table, op, crossed, mode) /\ IsTable(table) /\ RootInv(table, mode)
      /\ edit \in Editing
  BY DEF IInv, TableInv, BoundsInv, Edited
<1>2. r \in Refs
  BY <1>1 DEF Editing
<1>3. /\ table' = [grown EXCEPT !.cache = Without(@, S), !.next = Without(@, S),
                                !.visible = Without(@, S), !.expanded = @ \ S]
      /\ crossed' = IF isRoot \/ r \in DOMAIN table.cache THEN crossed ELSE crossed \cup {r}
      /\ IF isRoot
         THEN Persists(r, IF table.rootNext = None THEN None
                          ELSE [vars |-> Plain(table.root), next |-> table.rootNext])
         ELSE Unsaved
      /\ plain' = plain \cup {r} /\ edit' = None
      /\ UNCHANGED <<stop, mode, frame, scopes, selName, gen, loads, pSel, pGen, task, op, failed>>
  BY DEF Edited
<1>4. table.rootNext # None =>
        IsBeginning(Plain(table.root), table.rootNext, table.rootRef, mode)
  <2>1. table.rootNext # None => IsBeginning(table.root, table.rootNext, table.rootRef, mode)
    BY <1>1 DEF RootInv
  <2> QED
    BY <2>1, PlainGoesOn DEF IsBeginning
<1>5. /\ TableInv(grown, op, crossed', mode)
      /\ grown.gen = table.gen /\ grown.rootRef = table.rootRef
      /\ grown.rootNext = table.rootNext
  <2>1. CASE isRoot
    <3>1. grown = [table EXCEPT !.root = Plain(table.root)] /\ crossed' = crossed
      BY <1>3, <2>1
    <3> HIDE DEF grown
    <3>2. CASE table.rootNext = None
      <4>1. table.root = <<>> /\ Plain(table.root) = <<>>
        BY <1>1, <3>2, NoneIsNoNext DEF RootInv, IsBeginning, GoesOn, Plain
      <4>2. grown = table
        BY <1>1, <3>1, <4>1 DEF IsTable
      <4> QED
        BY <1>1, <3>1, <4>2
    <3>3. CASE table.rootNext # None
      <4>1. grown = [table EXCEPT !.root = Plain(table.root), !.rootNext = table.rootNext]
        BY <1>1, <3>1 DEF IsTable
      <4>2. TableInv(grown, op, crossed, mode)
        BY <1>1, <1>2, <1>4, <2>1, <3>3, <4>1, RootKeeps
      <4> QED
        BY <1>1, <3>1, <4>2 DEF IsTable
    <3> QED
      BY <3>2, <3>3
  <2>2. CASE ~isRoot /\ r \in DOMAIN table.cache
    <3>1. grown = [table EXCEPT !.cache[r] = Plain(table.cache[r])] /\ crossed' = crossed
      BY <1>3, <2>2
    <3> HIDE DEF grown
    <3> QED
      BY <1>1, <2>2, <3>1, CachedPlainKeeps
  <2>3. CASE ~isRoot /\ r \notin DOMAIN table.cache
    <3>1. /\ grown = [table EXCEPT !.cache = With(@, r, <<>>), !.next = With(@, r, 0),
                                   !.visible = With(@, r, 0)]
          /\ crossed' = crossed \cup {r}
      BY <1>3, <2>3
    <3> HIDE DEF grown
    <3> QED
      BY <1>1, <1>2, <2>3, <3>1, BroughtBackKeeps
  <2> QED
    BY <2>1, <2>2, <2>3
<1> HIDE DEF grown, S
<1>6. IsLess(table', grown)
  BY <1>3, <1>5, ForgottenIsLess DEF TableInv
<1>7. TableInv(table', op, crossed', mode)
  BY <1>5, <1>6, LessKeeps
<1>8. /\ table'.gen = table.gen /\ table'.rootRef = table.rootRef
      /\ table'.rootNext = table.rootNext
  BY <1>5, <1>6 DEF IsLess
<1>9. PagesInv' /\ SelectStands'
  <2>1. CASE ~isRoot
    BY <1>3, <2>1, PagesStay, LeftAlone DEF Unsaved
  <2>2. CASE isRoot
    <3> DEFINE page == IF table.rootNext = None THEN None
                       ELSE [vars |-> Plain(table.root), next |-> table.rootNext]
    <3>1. Persists(r, page)
      BY <1>3, <2>2
    <3>2. page = None \/ (page \in Page /\ IsBeginning(page.vars, page.next, r, mode))
      <4>1. CASE table.rootNext # None
        <5>1. IsBeginning(page.vars, page.next, r, mode)
          BY <1>4, <2>2, <4>1
        <5>2. page \in Page
          BY <4>1, <5>1 DEF IsBeginning, IsRun, GoesOn, Page
        <5> QED
          BY <5>1, <5>2
      <4> QED
        BY <4>1
    <3> HIDE DEF page
    <3>3. SelectStands'
      BY <1>3, <3>1, PutBack DEF Persists
    <3>4. CASE scopes # r[1]
      BY <1>3, <3>1, <3>3, <3>4, PagesStay DEF Persists
    <3>5. CASE scopes = r[1]
      <4>1. scopes # 0
        BY <1>2, <3>5 DEF Refs, InspectorAssumption
      <4>2. pSel \in Names /\ r = ScopeRef(scopes, pSel)
        BY <2>2, <4>1 DEF IInv, ShownInv
      <4>3. r[2] = pSel
        BY <4>2 DEF ScopeRef
      <4>4. pages' = [pages EXCEPT ![pSel] = page]
        BY <3>1, <3>5, <4>3 DEF Persists
      <4> HIDE DEF r
      <4> QED
        BY <1>3, <3>2, <3>3, <4>1, <4>2, <4>4 DEF IInv, PagesInv
    <3> QED
      BY <3>4, <3>5
  <2> QED
    BY <2>1, <2>2
<1>10. /\ plain' \subseteq Refs /\ crossed' \subseteq Refs
       /\ op' = [q \in Pumps |-> op'[q]] /\ \A q \in Pumps : op'[q] = Idle \/ op'[q] \in Ask
  BY <1>2, <1>3 DEF IInv, BoundsInv
<1> QED
  BY <1>3, <1>7, <1>8, <1>9, <1>10, TableStep

-----------------------------------------------------------------------------
(* The steps of the store and the panel *)

(* What a step of the store or the panel must keep *)
LEMMA PanelStep ==
  ASSUME InspectorAssumption, IInv,
         UNCHANGED <<mode, plain, op, edit, crossed>>,
         stop' \in 0..MaxStop, frame' \in 0..stop', scopes' \in 0..stop', gen' \in 0..MaxGen,
         changes' \in Seq(Names), loads' = [l \in Loaders |-> loads'[l]],
         ShownInv', PagesInv', \A l \in Loaders : LoadInv(l)',
         TableInv(table', op, crossed, mode)
  PROVE  IInv'
<1>1. BoundsInv'
  BY DEF IInv, BoundsInv
<1>2. TableInv(table, op, crossed, mode)'
  OBVIOUS
<1> QED
  BY <1>1, <1>2 DEF IInv

LEMMA NoPagesKeep ==
  ASSUME pages' = NoPages
  PROVE  PagesInv'
BY DEF PagesInv, NoPages

(* The snapshot loses its scopes: the panel shows none. *)
LEMMA ClearedStep ==
  ASSUME InspectorAssumption, IInv, NEW g \in 0..MaxGen, Snapshot(0, NoPages, None, g),
         UNCHANGED <<stop, mode, plain, op, edit, history>>, frame' \in 0..stop,
         loads' = [l \in Loaders |-> loads'[l]], \A l \in Loaders : LoadInv(l)'
  PROVE  IInv'
<1>1. /\ TableInv(table, op, crossed, mode) /\ RootInv(table, mode)
      /\ stop \in 0..MaxStop /\ changes \in Seq(Names)
  BY DEF IInv, TableInv, BoundsInv
<1>2. /\ scopes' = 0 /\ pages' = NoPages /\ gen' = g /\ pGen' = g
      /\ selName' = None /\ select' = None /\ changes' = changes
      /\ pSel' = None /\ task' = None
      /\ table' = SetRoot(table, <<>>, None, None, g)
  BY DEF Snapshot, Selects
<1>3. table.rootRef = None => table.rootNext = None
  BY <1>1, NoneIsNoNext DEF RootInv
<1>4. TableInv(table', op, crossed, mode) /\ table'.gen = g /\ table'.rootNext = None
  BY <1>1, <1>2, <1>3, SetRootKeeps
<1>5. ShownInv'
  BY <1>2, <1>4 DEF ShownInv, NoStuckLoading
<1>6. PagesInv'
  BY <1>2, NoPagesKeep
<1>7. 0 \in 0..stop /\ UNCHANGED crossed
  BY <1>1 DEF InspectorAssumption, history
<1> QED
  BY <1>1, <1>2, <1>4, <1>5, <1>6, <1>7, PanelStep

LEMMA ScopeRefs ==
  ASSUME InspectorAssumption, NEW s \in 1..MaxStop, NEW n \in Names
  PROVE  ScopeRef(s, n) \in Refs
BY DEF InspectorAssumption, ScopeRef, Refs

(* A scope is shown: its page if there is one, and otherwise it is asked   *)
(* for. *)
IsShown(sc, g, n) ==
  /\ pSel' = n
  /\ table'.gen = g /\ table'.rootRef = ScopeRef(sc, n)
  /\ task' # None => /\ task' = [key |-> <<n, g>>, ref |-> ScopeRef(sc, n)]
                     /\ table'.rootNext = None
  /\ table'.rootNext = None =>
       \/ task' # None /\ task'.key = <<n, g>>
       \/ failed = <<n, g>>

LEMMA ShowKeeps ==
  ASSUME InspectorAssumption, IInv, NEW sc \in 1..MaxStop, NEW pg, NEW g \in Nat, NEW n \in Names,
         ShowScope(sc, pg, g, n), (n = pSel /\ g = gen) => sc = scopes,
         \/ pg[n] = None
         \/ IsBeginning(pg[n].vars, pg[n].next, ScopeRef(sc, n), mode)
  PROVE  TableInv(table', op, crossed, mode) /\ IsShown(sc, g, n)
<1> DEFINE r == ScopeRef(sc, n)
<1>1. TableInv(table, op, crossed, mode) /\ ShownInv /\ n # None
  BY NoneIsNoValue DEF IInv
<1>2. CASE AlreadyShown(sc, g, n)
  <2>1. UNCHANGED <<pSel, task, table>>
    BY <1>2 DEF ShowScope
  <2>2. pSel = n /\ g = gen
    BY <1>1, <1>2 DEF AlreadyShown, ShownInv
  <2>3. sc = scopes /\ scopes # 0
    BY <1>1, <2>2 DEF ShownInv
  <2> QED
    BY <1>1, <2>1, <2>2, <2>3 DEF ShownInv, NoStuckLoading, IsShown
<1>3. CASE ~AlreadyShown(sc, g, n)
  <2>1. r \in Refs
    BY ScopeRefs
  <2>2. (g = table.gen /\ r = table.rootRef) => table.rootNext = None
    <3> SUFFICES ASSUME g = table.gen, r = table.rootRef, table.rootNext # None PROVE FALSE
      OBVIOUS
    <3>1. table.rootRef = ScopeRef(scopes, pSel) /\ g = gen /\ g = pGen
      BY <1>1 DEF ShownInv
    <3>2. pSel = n
      BY <3>1 DEF ScopeRef
    <3> QED
      BY <1>3, <3>1, <3>2 DEF AlreadyShown
  <2>3. CASE pg[n] # None
    <3>1. /\ pSel' = n /\ task' = None
          /\ table' = SetRoot(table, pg[n].vars, r, pg[n].next, g)
      BY <1>3, <2>3 DEF ShowScope
    <3>2. pg[n].next # None /\ IsBeginning(pg[n].vars, pg[n].next, r, mode)
      BY <2>3, NoneIsNoNext DEF IsBeginning, GoesOn
    <3> HIDE DEF r
    <3>3. /\ TableInv(table', op, crossed, mode)
          /\ table'.gen = g /\ table'.rootRef = r /\ table'.rootNext = pg[n].next
      BY <1>1, <2>1, <2>2, <3>1, <3>2, SetRootKeeps
    <3> QED
      BY <3>1, <3>2, <3>3 DEF IsShown, r
  <2>4. CASE pg[n] = None
    <3>1. /\ pSel' = n /\ task' = [key |-> <<n, g>>, ref |-> r]
          /\ table' = SetRoot(table, <<>>, r, None, g)
      BY <1>3, <2>4 DEF ShowScope
    <3> HIDE DEF r
    <3>2. /\ TableInv(table', op, crossed, mode)
          /\ table'.gen = g /\ table'.rootRef = r /\ table'.rootNext = None
      BY <1>1, <2>1, <2>2, <3>1, SetRootKeeps
    <3>3. task'.key = <<n, g>>
      BY <3>1
    <3>4. task' # None
      <4>1. task' \in Task
        BY <2>1, <3>1 DEF Task
      <4> QED
        BY <4>1, NoneIsNoValue
    <3> QED
      BY <3>1, <3>2, <3>3, <3>4 DEF IsShown, r
  <2> QED
    BY <2>3, <2>4
<1> QED
  BY <1>2, <1>3

(* What follows from a scope being shown *)
LEMMA ShownFollows ==
  ASSUME NEW n \in Names, IsShown(scopes', gen', n), scopes' # 0, pGen' = gen',
         selName' = n, select' \in Names, SelectInv(select', changes', n), UNCHANGED failed
  PROVE  ShownInv'
BY DEF IsShown, ShownInv, NoStuckLoading

(* The snapshot gets the scopes of stop s with the page of one of them.    *)
LEMMA SnapshotStep ==
  ASSUME InspectorAssumption, IInv,
         NEW s \in 1..stop, NEW n \in Names, NEW page \in Page, NEW g \in 0..MaxGen,
         IsBeginning(page.vars, page.next, ScopeRef(s, n), mode),
         Snapshot(s, [NoPages EXCEPT ![n] = page], n, g),
         selName \in {None, n}, (g = gen /\ scopes # 0) => scopes = s,
         UNCHANGED <<stop, mode, plain, frame, op, edit, history>>,
         loads' = [l \in Loaders |-> loads'[l]], \A l \in Loaders : LoadInv(l)'
  PROVE  IInv'
<1> DEFINE pg == [NoPages EXCEPT ![n] = page]
<1>1. /\ TableInv(table, op, crossed, mode) /\ ShownInv
      /\ stop \in 0..MaxStop /\ frame \in 0..stop /\ changes \in Seq(Names)
      /\ n # None /\ page # None /\ MaxStop \in Nat /\ MaxGen \in Nat
  BY NoneIsNoValue DEF IInv, BoundsInv, InspectorAssumption
<1>2. ShownName(n) = n /\ (pSel = n => scopes # 0) /\ pGen = gen
  BY <1>1, NoneIsNoValue DEF ShownName, ShownInv
<1>3. s # 0 /\ s \in 1..MaxStop /\ g \in Nat
  BY <1>1
<1>4. /\ scopes' = s /\ pages' = pg /\ gen' = g /\ pGen' = g
      /\ Selects(n) /\ selName' = n
      /\ IF g # pGen \/ n # pSel THEN ShowScope(s, pg, g, n)
         ELSE UNCHANGED <<pSel, task, table>>
  BY <1>2, <1>3 DEF Snapshot
<1>5. pg[n] = page
  BY DEF NoPages
<1>6. TableInv(table', op, crossed, mode) /\ IsShown(s, g, n)
  <2>1. CASE g # pGen \/ n # pSel
    <3>1. ShowScope(s, pg, g, n)
      BY <1>4, <2>1
    <3>2. ~(n = pSel /\ g = gen)
      BY <1>2, <2>1
    <3> HIDE DEF pg
    <3> QED
      BY <1>3, <1>5, <3>1, <3>2, ShowKeeps
  <2>2. CASE g = pGen /\ n = pSel
    <3>1. scopes = s /\ g = gen /\ UNCHANGED <<pSel, task, table>>
      BY <1>2, <1>4, <2>2
    <3> QED
      BY <1>1, <1>3, <2>2, <3>1 DEF ShownInv, NoStuckLoading, IsShown
  <2> QED
    BY <2>1, <2>2
<1>7. changes' \in Seq(Names) /\ select' = n /\ SelectInv(select', changes', n)
  <2>1. select \in Names => SelectInv(select, changes, pSel)
    BY <1>1, NoneIsNoValue DEF ShownInv
  <2> QED
    BY <1>1, <1>4, <2>1, SelectsKeeps
<1>8. ShownInv'
  BY <1>3, <1>4, <1>6, <1>7, ShownFollows DEF history
<1>9. PagesInv'
  <2>1. ASSUME NEW x \in Names
        PROVE  \/ pages'[x] = None
               \/ /\ pages'[x] \in Page /\ scopes' # 0
                  /\ IsBeginning(pages'[x].vars, pages'[x].next, ScopeRef(scopes', x), mode')
    <3>1. CASE x = n
      BY <1>3, <1>4, <1>5, <3>1
    <3>2. CASE x # n
      BY <1>4, <3>2 DEF NoPages
    <3> QED
      BY <3>1, <3>2
  <2>2. pages' = [x \in Names |-> pages'[x]]
    BY <1>4 DEF NoPages
  <2> HIDE DEF pg
  <2> QED
    BY <2>1, <2>2 DEF PagesInv
<1>10. UNCHANGED <<mode, plain, op, edit, crossed>> /\ stop' \in 0..MaxStop
       /\ frame' \in 0..stop' /\ scopes' \in 0..stop' /\ gen' \in 0..MaxGen
  BY <1>1, <1>4 DEF history
<1> QED
  BY <1>6, <1>7, <1>8, <1>9, <1>10, PanelStep

(* The user takes a scope. *)
LEMMA ChosenStep ==
  ASSUME InspectorAssumption, IInv, NEW n \in Names, scopes # 0, Chooses(n),
         select' \in Names, changes' \in Seq(Names), SelectInv(select', changes', n)
  PROVE  IInv'
<1>1. /\ TableInv(table, op, crossed, mode) /\ ShownInv
      /\ stop \in 0..MaxStop /\ frame \in 0..stop /\ scopes \in 0..stop /\ gen \in 0..MaxGen
      /\ MaxStop \in Nat /\ MaxGen \in Nat
      /\ loads = [l \in Loaders |-> loads[l]]
  BY DEF IInv, BoundsInv, InspectorAssumption
<1>2. /\ ShowScope(scopes, pages, gen, n)
      /\ selName' = IF AlreadyShown(scopes, gen, n) THEN selName ELSE n
      /\ UNCHANGED <<stop, mode, plain, frame, scopes, pages, gen, loads, pGen, op, edit, history>>
  BY DEF Chooses
<1>3. \/ pages[n] = None
      \/ IsBeginning(pages[n].vars, pages[n].next, ScopeRef(scopes, n), mode)
  BY DEF IInv, PagesInv
<1>4. scopes \in 1..MaxStop /\ gen \in Nat
  BY <1>1
<1>5. TableInv(table', op, crossed, mode) /\ IsShown(scopes, gen, n)
  BY <1>2, <1>3, <1>4, ShowKeeps
<1>6. selName' = n
  BY <1>1, <1>2 DEF AlreadyShown, ShownInv
<1>7. ShownInv'
  <2>1. IsShown(scopes', gen', n) /\ scopes' # 0 /\ pGen' = gen'
    BY <1>1, <1>2, <1>5 DEF ShownInv, IsShown
  <2>2. UNCHANGED failed
    BY <1>2 DEF history
  <2> QED
    BY <1>6, <2>1, <2>2, ShownFollows
<1>8. PagesInv'
  BY <1>2, PagesStay
<1>9. \A l \in Loaders : LoadInv(l)'
  BY <1>2 DEF IInv, LoadInv
<1>10. UNCHANGED <<mode, plain, op, edit, crossed, stop, frame, scopes, gen, loads>>
  BY <1>2 DEF history
<1> QED
  BY <1>1, <1>5, <1>7, <1>8, <1>9, <1>10, PanelStep

(* A step of the manager that leaves the panel and the table alone, but    *)
(* for the Select *)
LEMMA LoadsStep ==
  ASSUME InspectorAssumption, IInv,
         UNCHANGED <<mode, plain, scopes, pages, selName, gen, pSel, pGen, task, table, op, edit,
                     history>>,
         SelectStands',
         stop' \in 0..MaxStop, frame' \in 0..stop', stop \in 0..stop',
         loads' = [l \in Loaders |-> loads'[l]], \A l \in Loaders : LoadInv(l)'
  PROVE  IInv'
<1>1. /\ TableInv(table, op, crossed, mode) /\ ShownInv /\ stop \in 0..MaxStop
      /\ scopes \in 0..stop /\ gen \in 0..MaxGen /\ changes \in Seq(Names)
      /\ MaxStop \in Nat
  BY DEF IInv, BoundsInv, InspectorAssumption
<1>2. ShownInv'
  BY <1>1 DEF ShownInv, NoStuckLoading, SelectStands, history
<1>3. PagesInv'
  BY PagesStay
<1>4. scopes' \in 0..stop' /\ gen' \in 0..MaxGen /\ changes' \in Seq(Names)
  BY <1>1 DEF SelectStands
<1>5. UNCHANGED <<mode, plain, op, edit, crossed, table>>
  BY DEF history
<1> QED
  BY <1>1, <1>2, <1>3, <1>4, <1>5, PanelStep

(* One without an update *)
LEMMA UnseenStep ==
  ASSUME InspectorAssumption, IInv,
         UNCHANGED <<mode, plain, scopes, pages, selName, gen, panelVars, table, op, edit,
                     history>>,
         stop' \in 0..MaxStop, frame' \in 0..stop', stop \in 0..stop',
         loads' = [l \in Loaders |-> loads'[l]], \A l \in Loaders : LoadInv(l)'
  PROVE  IInv'
<1>1. SelectStands'
  BY LeftAlone DEF panelVars
<1> QED
  BY <1>1, LoadsStep DEF panelVars

LEMMA LoadFacts ==
  ASSUME IInv, NEW l \in Loaders, NEW v, loads' = [loads EXCEPT ![l] = v]
  PROVE  /\ loads' = [k \in Loaders |-> loads'[k]]
         /\ loads'[l] = v /\ \A k \in Loaders \ {l} : loads'[k] = loads[k]
BY DEF IInv, BoundsInv

LEMMA StoppedStep ==
  ASSUME InspectorAssumption, IInv, Stopped
  PROVE  IInv'
<1>1. /\ stop < MaxStop /\ stop \in 0..MaxStop /\ MaxStop \in Nat
      /\ stop' = stop + 1 /\ frame' = stop + 1
      /\ loads' = [loads EXCEPT !["event"] = [at |-> "scopes", frame |-> stop + 1]]
      /\ Selects(pSel)
      /\ UNCHANGED <<mode, plain, scopes, pages, selName, gen, pSel, pGen, task, table, op, edit,
                     history>>
  BY DEF IInv, BoundsInv, InspectorAssumption, Stopped
<1>2. /\ loads' = [k \in Loaders |-> loads'[k]]
      /\ loads'["event"] = [at |-> "scopes", frame |-> stop + 1]
      /\ \A k \in Loaders \ {"event"} : loads'[k] = loads[k]
  <2>1. "event" \in Loaders
    BY DEF Loaders
  <2> QED
    BY <1>1, <2>1, LoadFacts
<1>3. ASSUME NEW l \in Loaders PROVE LoadInv(l)'
  <2>1. CASE l = "event"
    BY <1>1, <1>2, <2>1 DEF LoadInv
  <2>2. CASE l # "event"
    <3>1. LoadInv(l) /\ loads'[l] = loads[l]
      BY <1>2, <2>2 DEF IInv
    <3> QED
      BY <1>1, <3>1 DEF LoadInv
  <2> QED
    BY <2>1, <2>2
<1>4. SelectStands'
  BY <1>1, PutBack
<1> QED
  BY <1>1, <1>2, <1>3, <1>4, LoadsStep

LEMMA ContinuedStep ==
  ASSUME InspectorAssumption, IInv, Continued
  PROVE  IInv'
<1>1. /\ gen < MaxGen /\ gen \in 0..MaxGen /\ MaxGen \in Nat /\ stop \in 0..MaxStop
      /\ frame' = 0 /\ Snapshot(0, NoPages, None, gen + 1)
      /\ UNCHANGED <<stop, mode, plain, loads, op, edit, history>>
      /\ loads = [l \in Loaders |-> loads[l]] /\ MaxStop \in Nat
  BY DEF IInv, BoundsInv, InspectorAssumption, Continued
<1>2. scopes' = 0
  BY <1>1 DEF Snapshot
<1>3. \A l \in Loaders : LoadInv(l)'
  BY <1>1, <1>2 DEF IInv, LoadInv
<1> QED
  BY <1>1, <1>3, ClearedStep

LEMMA SelectFrameStep ==
  ASSUME InspectorAssumption, IInv, SelectFrame
  PROVE  IInv'
<1>1. /\ frame # 0 /\ frame \in 0..stop /\ stop \in 0..MaxStop /\ MaxStop \in Nat
      /\ loads' = [loads EXCEPT !["user"] = [at |-> "scopes", frame |-> frame]]
      /\ Selects(pSel)
      /\ UNCHANGED <<stop, mode, plain, storeVars, pSel, pGen, task, table, op, edit, history>>
  BY DEF IInv, BoundsInv, InspectorAssumption, SelectFrame
<1>2. /\ loads' = [k \in Loaders |-> loads'[k]]
      /\ loads'["user"] = [at |-> "scopes", frame |-> frame]
      /\ \A k \in Loaders \ {"user"} : loads'[k] = loads[k]
  <2>1. "user" \in Loaders
    BY DEF Loaders
  <2> QED
    BY <1>1, <2>1, LoadFacts
<1>3. ASSUME NEW l \in Loaders PROVE LoadInv(l)'
  <2>1. CASE l = "user"
    BY <1>1, <1>2, <2>1 DEF LoadInv
  <2>2. CASE l # "user"
    <3>1. LoadInv(l) /\ loads'[l] = loads[l]
      BY <1>2, <2>2 DEF IInv
    <3> QED
      BY <1>1, <3>1 DEF LoadInv, storeVars
  <2> QED
    BY <2>1, <2>2
<1>4. SelectStands'
  BY <1>1, PutBack DEF storeVars
<1> QED
  BY <1>1, <1>2, <1>3, <1>4, LoadsStep DEF storeVars

LEMMA OtherUpdateStep ==
  ASSUME InspectorAssumption, IInv, OtherUpdate
  PROVE  IInv'
<1>1. /\ Selects(pSel)
      /\ UNCHANGED <<stop, mode, plain, storeVars, loads, pSel, pGen, task, table, op, edit, history>>
      /\ frame \in 0..stop /\ stop \in 0..MaxStop /\ stop \in 0..stop
      /\ loads = [l \in Loaders |-> loads[l]]
  BY DEF IInv, BoundsInv, OtherUpdate, InspectorAssumption
<1>2. \A l \in Loaders : LoadInv(l)'
  BY <1>1 DEF IInv, LoadInv, storeVars
<1>3. SelectStands'
  BY <1>1, PutBack DEF storeVars
<1> QED
  BY <1>1, <1>2, <1>3, LoadsStep DEF storeVars

(* A load is over; the others go on as before. *)
LEMMA LoadOver ==
  ASSUME IInv, NEW l \in Loaders, loads' = [loads EXCEPT ![l] = Idle],
         UNCHANGED <<stop, frame>>,
         \/ scopes' = 0
         \/ scopes' = frame
         \/ scopes' = scopes /\ gen' = gen
  PROVE  loads' = [k \in Loaders |-> loads'[k]] /\ \A k \in Loaders : LoadInv(k)'
<1>1. /\ loads' = [k \in Loaders |-> loads'[k]]
      /\ loads'[l] = Idle /\ \A k \in Loaders \ {l} : loads'[k] = loads[k]
  BY LoadFacts
<1>2. ASSUME NEW k \in Loaders PROVE LoadInv(k)'
  <2>1. CASE k = l
    BY <1>1, <2>1 DEF LoadInv
  <2>2. CASE k # l
    <3>1. LoadInv(k) /\ loads'[k] = loads[k]
      BY <1>1, <2>2 DEF IInv
    <3> QED
      BY <3>1 DEF LoadInv
  <2> QED
    BY <2>1, <2>2
<1> QED
  BY <1>1, <1>2

LEMMA LoadFailsStep ==
  ASSUME InspectorAssumption, IInv, NEW l \in Loaders, LoadFails(l)
  PROVE  IInv'
<1>1. /\ loads' = [loads EXCEPT ![l] = Idle]
      /\ UNCHANGED <<stop, mode, plain, storeVars, panelVars, table, op, edit, history>>
      /\ frame \in 0..stop /\ stop \in 0..MaxStop /\ stop \in 0..stop
  BY DEF IInv, BoundsInv, LoadFails, InspectorAssumption
<1>2. loads' = [k \in Loaders |-> loads'[k]] /\ \A k \in Loaders : LoadInv(k)'
  BY <1>1, LoadOver DEF storeVars
<1> QED
  BY <1>1, <1>2, UnseenStep DEF storeVars

LEMMA ScopesLoadedStep ==
  ASSUME InspectorAssumption, IInv, NEW l \in Loaders, ScopesLoaded(l)
  PROVE  IInv'
<1>1. /\ gen < MaxGen /\ gen \in 0..MaxGen /\ MaxGen \in Nat /\ frame \in 0..stop
      /\ stop \in 0..MaxStop /\ stop \in 0..stop /\ MaxStop \in Nat
      /\ UNCHANGED <<stop, mode, plain, frame, op, edit, history>>
      /\ LoadInv(l) /\ loads[l].at = "scopes" /\ ShownInv
  BY DEF IInv, BoundsInv, ScopesLoaded, InspectorAssumption
<1>2. CASE /\ loads' = [loads EXCEPT ![l] = Idle]
           /\ UNCHANGED <<scopes, pages, selName, gen, panelVars, table>>
  <2>1. loads' = [k \in Loaders |-> loads'[k]] /\ \A k \in Loaders : LoadInv(k)'
    BY <1>1, <1>2, LoadOver
  <2> QED
    BY <1>1, <1>2, <2>1, UnseenStep
<1>3. CASE loads' = [loads EXCEPT ![l] = Idle] /\ Snapshot(0, NoPages, None, gen + 1)
  <2>1. scopes' = 0
    BY <1>3 DEF Snapshot
  <2>2. loads' = [k \in Loaders |-> loads'[k]] /\ \A k \in Loaders : LoadInv(k)'
    BY <1>1, <1>3, <2>1, LoadOver
  <2>3. gen + 1 \in 0..MaxGen /\ frame' \in 0..stop
    BY <1>1
  <2>4. Snapshot(0, NoPages, None, gen + 1)
    BY <1>3
  <2>5. UNCHANGED <<stop, mode, plain, op, edit, history>>
    BY <1>1
  <2> QED
    BY <2>2, <2>3, <2>4, <2>5, ClearedStep
<1>4. CASE /\ IsCurrent(l)
           /\ loads' = [loads EXCEPT ![l] =
                [at |-> "page", frame |-> frame, gen |-> gen + 1, prev |-> selName,
                 pick |-> IF selName # None THEN selName ELSE "Locals"]]
           /\ UNCHANGED <<scopes, pages, selName, gen, panelVars, table>>
  <2> DEFINE page == [at |-> "page", frame |-> frame, gen |-> gen + 1, prev |-> selName,
                      pick |-> IF selName # None THEN selName ELSE "Locals"]
  <2>1. /\ loads' = [k \in Loaders |-> loads'[k]]
        /\ loads'[l] = page /\ \A k \in Loaders \ {l} : loads'[k] = loads[k]
    BY <1>4, LoadFacts
  <2>2. frame \in 1..stop
    BY <1>1, <1>4 DEF LoadInv, IsCurrent, Idle
  <2>3. page.pick \in Names /\ page.prev \in {None, page.pick}
    BY <1>1, NamesAre DEF ShownInv
  <2>4. gen + 1 \in 0..MaxGen /\ gen + 1 # gen
    BY <1>1
  <2>5. LoadInv(l)'
    BY <1>1, <1>4, <2>1, <2>2, <2>3, <2>4 DEF LoadInv
  <2>6. ASSUME NEW k \in Loaders, k # l PROVE LoadInv(k)'
    <3>1. LoadInv(k) /\ loads'[k] = loads[k]
      BY <2>1, <2>6 DEF IInv
    <3> QED
      BY <1>1, <1>4, <3>1 DEF LoadInv
  <2> HIDE DEF page
  <2> QED
    BY <1>1, <1>4, <2>1, <2>5, <2>6, UnseenStep
<1> QED
  BY <1>2, <1>3, <1>4 DEF ScopesLoaded

LEMMA PageLoadedStep ==
  ASSUME InspectorAssumption, IInv, NEW l \in Loaders, PageLoaded(l)
  PROVE  IInv'
<1> DEFINE s == loads[l].frame
           n == loads[l].pick
           page == GetPage(ScopeRef(s, n), 0)
<1>1. /\ frame \in 0..stop /\ stop \in 0..MaxStop /\ stop \in 0..stop /\ MaxStop \in Nat
      /\ mode \in {"counted", "uncounted", "whole"}
      /\ UNCHANGED <<stop, mode, plain, frame, op, edit, history>>
      /\ loads' = [loads EXCEPT ![l] = Idle] /\ LoadInv(l) /\ loads[l].at = "page"
  BY DEF IInv, BoundsInv, PageLoaded, InspectorAssumption
<1>2. CASE ~UsesPage(l)
  <2>1. UNCHANGED <<scopes, pages, selName, gen, panelVars, table>>
    BY <1>2 DEF PageLoaded
  <2>2. loads' = [k \in Loaders |-> loads'[k]] /\ \A k \in Loaders : LoadInv(k)'
    BY <1>1, <2>1, LoadOver
  <2> QED
    BY <1>1, <2>1, <2>2, UnseenStep
<1>3. CASE UsesPage(l)
  <2>1. Snapshot(s, [NoPages EXCEPT ![n] = page], n, loads[l].gen)
    BY <1>3 DEF PageLoaded
  <2>2. /\ s \in 1..stop /\ n \in Names /\ loads[l].gen \in 0..MaxGen
        /\ s = frame /\ selName \in {None, n}
        /\ (loads[l].gen = gen /\ scopes # 0) => scopes = s
    BY <1>1, <1>3 DEF LoadInv, Idle, UsesPage, IsCurrent
  <2>3. ScopeRef(s, n) \in Refs
    BY <1>1, <2>2, ScopeRefs
  <2>4. page \in Page /\ IsBeginning(page.vars, page.next, ScopeRef(s, n), mode)
    BY <1>1, <2>3, FirstPage
  <2>5. scopes' = s
    BY <2>1 DEF Snapshot
  <2>6. loads' = [k \in Loaders |-> loads'[k]] /\ \A k \in Loaders : LoadInv(k)'
    BY <1>1, <2>2, <2>5, LoadOver
  <2> HIDE DEF page, s, n
  <2> QED
    BY <1>1, <2>1, <2>2, <2>4, <2>6, SnapshotStep
<1> QED
  BY <1>2, <1>3

LEMMA PickScopeStep ==
  ASSUME InspectorAssumption, IInv, NEW n \in Names, PickScope(n)
  PROVE  IInv'
<1>1. /\ ShownInv /\ changes \in Seq(Names) /\ scopes # 0 /\ Selects(n)
      /\ stop \in 0..MaxStop /\ frame \in 0..stop /\ scopes \in 0..stop /\ gen \in 0..MaxGen
      /\ loads = [l \in Loaders |-> loads[l]]
      /\ TableInv(table, op, crossed, mode)
      /\ UNCHANGED <<stop, mode, plain, storeVars, loads, pSel, pGen, task, table, op, edit,
                     history>>
  BY DEF IInv, BoundsInv, PickScope
<1>2. changes' \in Seq(Names) /\ select' = n /\ SelectInv(select', changes', n)
  <2>1. SelectInv(select, changes, pSel)
    BY <1>1 DEF ShownInv
  <2> QED
    BY <1>1, <2>1, SelectsKeeps
<1>3. changes' # <<>>
  <2>1. n # select /\ n # None
    BY NoneIsNoValue DEF PickScope
  <2>2. changes' = Append(changes, n)
    BY <1>1, <2>1 DEF Selects
  <2> QED
    BY <1>1, <2>2
<1>4. ShownInv'
  <2>1. SelectInv(select', changes', pSel')
    BY <1>2, <1>3 DEF SelectInv
  <2> QED
    BY <1>1, <1>2, <2>1 DEF ShownInv, NoStuckLoading, storeVars, history
<1>5. PagesInv'
  BY <1>1, PagesStay DEF storeVars
<1>6. \A l \in Loaders : LoadInv(l)'
  BY <1>1 DEF IInv, LoadInv, storeVars
<1>7. UNCHANGED <<mode, plain, op, edit, crossed, stop, frame, scopes, gen, loads, table>>
  BY <1>1 DEF storeVars, history
<1> QED
  BY <1>1, <1>2, <1>4, <1>5, <1>6, <1>7, PanelStep

(* What is left of the messages when the first one has been handled *)
LEMMA HandledFacts ==
  ASSUME NEW msgs \in Seq(Names), msgs # <<>>
  PROVE  /\ Head(msgs) \in Names /\ Tail(msgs) \in Seq(Names)
         /\ Tail(msgs) # <<>> => Tail(msgs)[Len(Tail(msgs))] = msgs[Len(msgs)]
         /\ Tail(msgs) = <<>> => Head(msgs) = msgs[Len(msgs)]
<1>1. Len(msgs) \in Nat /\ Len(msgs) > 0
  OBVIOUS
<1>2. Tail(msgs) \in Seq(Names) /\ Len(Tail(msgs)) = Len(msgs) - 1
      /\ \A i \in 1..(Len(msgs) - 1) : Tail(msgs)[i] = msgs[i + 1]
  OBVIOUS
<1>3. Head(msgs) = msgs[1] /\ Head(msgs) \in Names
  OBVIOUS
<1> DEFINE rest == Tail(msgs)
<1>4. rest = <<>> <=> Len(rest) = 0
  BY <1>2
<1> HIDE DEF rest
<1>5. CASE Len(msgs) = 1
  <2>1. rest = <<>> /\ Head(msgs) = msgs[Len(msgs)]
    BY <1>2, <1>3, <1>4, <1>5 DEF rest
  <2> QED
    BY <1>2, <1>3, <2>1 DEF rest
<1>6. CASE Len(msgs) > 1
  <2>1. rest # <<>> /\ Len(rest) = Len(msgs) - 1
    BY <1>1, <1>2, <1>4, <1>6 DEF rest
  <2>2. rest[Len(msgs) - 1] = msgs[(Len(msgs) - 1) + 1]
    BY <1>1, <1>2, <1>6 DEF rest
  <2>3. (Len(msgs) - 1) + 1 = Len(msgs)
    BY <1>1
  <2>4. rest[Len(rest)] = msgs[Len(msgs)]
    BY <2>1, <2>2, <2>3
  <2> QED
    BY <1>2, <1>3, <2>1, <2>4 DEF rest
<1> QED
  BY <1>1, <1>5, <1>6

LEMMA ScopeChangedStep ==
  ASSUME InspectorAssumption, IInv, ScopeChanged
  PROVE  IInv'
<1> DEFINE n == Head(changes)
<1>1. /\ ShownInv /\ changes \in Seq(Names) /\ changes # <<>>
      /\ stop \in 0..MaxStop /\ frame \in 0..stop /\ scopes \in 0..stop /\ gen \in 0..MaxGen
      /\ loads = [l \in Loaders |-> loads[l]]
      /\ TableInv(table, op, crossed, mode)
  BY DEF IInv, BoundsInv, ScopeChanged
<1>2. /\ n \in Names /\ Tail(changes) \in Seq(Names)
      /\ Tail(changes) # <<>> => Tail(changes)[Len(Tail(changes))] = changes[Len(changes)]
      /\ Tail(changes) = <<>> => n = changes[Len(changes)]
  BY <1>1, HandledFacts
<1> HIDE DEF n
<1>3. CASE scopes = 0
  <2>1. /\ changes' = Tail(changes)
        /\ UNCHANGED <<stop, mode, plain, storeVars, loads, pSel, pGen, task, select, table, op,
                       edit, history>>
    BY <1>3 DEF ScopeChanged
  <2>2. ShownInv'
    BY <1>1, <1>3, <2>1 DEF ShownInv, NoStuckLoading, storeVars, history
  <2>3. PagesInv'
    BY <2>1, PagesStay DEF storeVars
  <2>4. \A l \in Loaders : LoadInv(l)'
    BY <2>1 DEF IInv, LoadInv, storeVars
  <2>5. UNCHANGED <<mode, plain, op, edit, crossed, stop, frame, scopes, gen, loads, table>>
    BY <2>1 DEF storeVars, history
  <2> QED
    BY <1>1, <1>2, <2>1, <2>2, <2>3, <2>4, <2>5, PanelStep
<1>4. CASE scopes # 0
  <2> DEFINE follows == ~AlreadyShown(scopes, gen, n) /\ selName # n
  <2>1. /\ Chooses(n)
        /\ select' = IF follows THEN n ELSE select
        /\ changes' = IF follows /\ select # n THEN Append(Tail(changes), n)
                      ELSE Tail(changes)
    BY <1>4 DEF ScopeChanged, n
  <2>2. select \in Names /\ select = changes[Len(changes)]
    BY <1>1, <1>4 DEF ShownInv, SelectInv
  <2> HIDE DEF follows
  <2>3. select' \in Names /\ changes' \in Seq(Names) /\ SelectInv(select', changes', n)
    <3>1. CASE follows /\ select # n
      <4>1. changes' = Append(Tail(changes), n) /\ select' = n
        BY <2>1, <3>1
      <4>2. changes' \in Seq(Names) /\ changes' # <<>> /\ changes'[Len(changes')] = n
        BY <1>2, <4>1
      <4> QED
        BY <1>2, <4>1, <4>2 DEF SelectInv
    <3>2. CASE ~(follows /\ select # n)
      <4>1. changes' = Tail(changes) /\ select' = select
        BY <2>1, <3>2
      <4> QED
        BY <1>2, <2>2, <4>1 DEF SelectInv
    <3> QED
      BY <3>1, <3>2
  <2> QED
    BY <1>2, <1>4, <2>1, <2>3, ChosenStep
<1> QED
  BY <1>3, <1>4

LEMMA NextScopeStep ==
  ASSUME InspectorAssumption, IInv, NextScope
  PROVE  IInv'
<1> DEFINE i == CHOOSE k \in DOMAIN Order : Order[k] = IF pSel = None THEN Order[1] ELSE pSel
           n == Order[(i % Len(Order)) + 1]
<1>1. /\ scopes # 0 /\ Chooses(n) /\ Selects(n)
      /\ ShownInv /\ changes \in Seq(Names)
  BY DEF IInv, BoundsInv, NextScope
<1>2. n \in Names
  <2>1. pSel \in {"Locals", "Globals"} /\ pSel # None
    BY <1>1, NamesAre, NoneIsNoValue DEF ShownInv
  <2>2. \E k \in DOMAIN Order : Order[k] = pSel
    BY <2>1 DEF Order
  <2>3. i \in DOMAIN Order
    BY <2>1, <2>2
  <2>4. i \in 1..2
    BY <2>3 DEF Order
  <2>5. Len(Order) = 2 /\ Order[1] \in Names /\ Order[2] \in Names
    BY NamesAre DEF Order
  <2> HIDE DEF i
  <2>6. (i % 2) + 1 \in 1..2
    BY <2>4
  <2> QED
    BY <2>5, <2>6
<1> HIDE DEF n
<1>3. changes' \in Seq(Names) /\ select' = n /\ SelectInv(select', changes', n)
  <2>1. SelectInv(select, changes, pSel)
    BY <1>1 DEF ShownInv
  <2> QED
    BY <1>1, <1>2, <2>1, SelectsKeeps
<1> QED
  BY <1>1, <1>2, <1>3, ChosenStep

LEMMA ScopeLoadedStep ==
  ASSUME InspectorAssumption, IInv, ScopeLoaded
  PROVE  IInv'
<1> DEFINE r == ScopeRef(scopes, pSel)
           first == GetPage(r, 0)
           page == RootPage(first.vars, first)
<1>1. /\ ShownInv /\ changes \in Seq(Names) /\ TableInv(table, op, crossed, mode)
      /\ stop \in 0..MaxStop /\ frame \in 0..stop /\ scopes \in 0..stop /\ gen \in 0..MaxGen
      /\ loads = [l \in Loaders |-> loads[l]]
      /\ mode \in {"counted", "uncounted", "whole"} /\ MaxStop \in Nat /\ Total \in Nat
  BY DEF IInv, BoundsInv, InspectorAssumption
<1>2. /\ task = [key |-> <<pSel, gen>>, ref |-> r] /\ scopes # 0 /\ pSel \in Names
      /\ table.rootNext = None /\ table.rootRef = r /\ pGen = gen
  BY <1>1 DEF ShownInv, ScopeLoaded
<1>3. task.key[1] = pSel /\ task.key[2] = gen /\ task.ref = r /\ r[1] = scopes
  BY <1>2 DEF ScopeRef
<1>4. r \in Refs
  BY <1>1, <1>2, ScopeRefs
<1>5. /\ task' = None
      /\ pages' = [pages EXCEPT ![pSel] = page] /\ Selects(pSel)
      /\ table' = SetRoot(table, page.vars, r, page.next, gen)
      /\ UNCHANGED <<stop, mode, plain, frame, scopes, selName, gen, loads, pSel, pGen, op, edit,
                     history>>
  <2> HIDE DEF page
  <2>1. Persists(r, page) /\ r[2] = pSel
    BY <1>2, <1>3 DEF ScopeLoaded, ScopeRef, page
  <2> QED
    BY <1>2, <1>3, <2>1 DEF ScopeLoaded, Persists, page
<1>6. page \in Page /\ IsBeginning(page.vars, page.next, r, mode)
  <2>1. IsBeginning(first.vars, first.next, r, mode)
    BY <1>1, <1>4, FirstPage
  <2>2. /\ IsRun(first.vars, r) /\ first.vars # <<>> /\ first.vars[1].n = 1
        /\ Len(first.vars) \in Nat
    <3>1. IsRun(first.vars, r)
      BY <2>1 DEF IsBeginning
    <3> HIDE DEF first, r
    <3>2. /\ first.vars \in Seq(Variable) /\ Len(first.vars) \in 1..Total
          /\ first.vars # <<>> /\ first.vars[1].n = 1
      BY <2>1, BeginningFacts
    <3> QED
      BY <3>1, <3>2
  <2>3. Len(first.vars) = 0 + Len(GetPage(r, 0).vars) /\ 0 \in 0..Total
    BY <1>1, <2>2
  <2>4. /\ page.vars = first.vars /\ page \in Page
        /\ IsBeginning(first.vars, page.next, r, mode)
    BY <1>1, <1>4, <2>2, <2>3, GrownRoot
  <2> QED
    BY <2>4
<1> HIDE DEF page, r
<1>7. /\ TableInv(table', op, crossed, mode)
      /\ table'.gen = gen /\ table'.rootRef = r /\ table'.rootNext = page.next
  BY <1>1, <1>2, <1>4, <1>5, <1>6, SetRootKeeps
<1>8. page.next # None
  BY <1>6, NoneIsNoNext DEF IsBeginning, GoesOn
<1>9. SelectStands'
  BY <1>5, PutBack
<1>10. ShownInv'
  BY <1>1, <1>2, <1>5, <1>7, <1>8, <1>9 DEF ShownInv, NoStuckLoading, SelectStands, history, r
<1>11. PagesInv'
  BY <1>2, <1>5, <1>6 DEF IInv, PagesInv, r
<1>12. \A l \in Loaders : LoadInv(l)'
  BY <1>5 DEF IInv, LoadInv
<1>13. /\ UNCHANGED <<mode, plain, op, edit, crossed, stop, frame, scopes, gen, loads>>
       /\ changes' \in Seq(Names)
  BY <1>5, <1>9 DEF SelectStands, history
<1> QED
  BY <1>1, <1>7, <1>10, <1>11, <1>12, <1>13, PanelStep

LEMMA ScopeLoadFailsStep ==
  ASSUME InspectorAssumption, IInv, ScopeLoadFails
  PROVE  IInv'
<1>1. /\ ShownInv /\ changes \in Seq(Names) /\ TableInv(table, op, crossed, mode)
      /\ stop \in 0..MaxStop /\ frame \in 0..stop /\ scopes \in 0..stop /\ gen \in 0..MaxGen
      /\ loads = [l \in Loaders |-> loads[l]]
  BY DEF IInv, BoundsInv
<1>2. /\ task # None /\ task' = None /\ failed' = task.key
      /\ UNCHANGED <<stop, mode, plain, storeVars, loads, pSel, pGen, select, changes, table, op,
                     edit, crossed>>
  BY DEF ScopeLoadFails
<1>3. task.key = <<pSel, gen>>
  BY <1>1, <1>2 DEF ShownInv
<1>4. ShownInv'
  BY <1>1, <1>2, <1>3 DEF ShownInv, NoStuckLoading, storeVars
<1>5. PagesInv'
  BY <1>2, PagesStay DEF storeVars
<1>6. \A l \in Loaders : LoadInv(l)'
  BY <1>2 DEF IInv, LoadInv, storeVars
<1>7. UNCHANGED <<mode, plain, op, edit, crossed, stop, frame, scopes, gen, loads, table, changes>>
  BY <1>2 DEF storeVars
<1> QED
  BY <1>1, <1>4, <1>5, <1>6, <1>7, PanelStep

-----------------------------------------------------------------------------
(* The invariant *)

(* Nothing is loaded, shown or asked for at the start. *)
LEMMA IInit ==
  ASSUME InspectorAssumption, Init
  PROVE  IInv
<1>1. /\ stop = 0 /\ frame = 0 /\ scopes = 0 /\ gen = 0
      /\ mode \in {"counted", "uncounted", "whole"}
      /\ plain = {} /\ crossed = {} /\ pages = NoPages /\ selName = None
      /\ loads = [l \in Loaders |-> Idle]
      /\ pSel = None /\ pGen = 0 /\ task = None /\ select = None /\ changes = <<>>
      /\ table = EmptyTable /\ op = [p \in Pumps |-> Idle] /\ edit = None
  BY DEF Init
<1>2. 0 \in 0..MaxStop /\ 0 \in 0..MaxGen /\ 0 \in 0..0
  BY DEF InspectorAssumption
<1>3. BoundsInv
  BY <1>1, <1>2 DEF BoundsInv
<1>4. ShownInv
  BY <1>1 DEF ShownInv, NoStuckLoading, EmptyTable
<1>5. PagesInv
  BY <1>1 DEF PagesInv, NoPages
<1>6. \A l \in Loaders : LoadInv(l)
  BY <1>1 DEF LoadInv
<1>7. TableInv(table, op, crossed, mode)
  BY <1>1 DEF TableInv, IsTable, IsFcn, CacheInv, RootInv, FetchInv, EmptyTable, Nothing
<1> QED
  BY <1>3, <1>4, <1>5, <1>6, <1>7 DEF IInv

LEMMA IStutter ==
  ASSUME IInv, UNCHANGED vars
  PROVE  IInv'
<1>1. UNCHANGED <<stop, mode, plain, frame, scopes, pages, selName, gen, loads, pSel, pGen, task,
                  select, changes, table, op, edit, crossed, failed>>
  BY DEF vars, storeVars, panelVars, history
<1>2. BoundsInv' /\ ShownInv' /\ PagesInv'
  BY <1>1 DEF IInv, BoundsInv, ShownInv, NoStuckLoading, PagesInv, IsBeginning, GoesOn
<1>3. \A l \in Loaders : LoadInv(l)'
  BY <1>1 DEF IInv, LoadInv
<1>4. TableInv(table, op, crossed, mode)'
  BY <1>1 DEF IInv
<1> QED
  BY <1>2, <1>3, <1>4 DEF IInv

(* Every step of the user and of the event loop keeps it. *)
LEMMA IStep ==
  ASSUME InspectorAssumption, IInv, [Next]_vars
  PROVE  IInv'
<1>1. ASSUME User PROVE IInv'
  <2>1. ASSUME SelectFrame PROVE IInv'
    BY <2>1, SelectFrameStep
  <2>2. ASSUME NextScope PROVE IInv'
    BY <2>2, NextScopeStep
  <2>3. ASSUME Edit PROVE IInv'
    BY <2>3, EditStep
  <2>4. ASSUME NEW n \in Names, PickScope(n) PROVE IInv'
    BY <2>4, PickScopeStep
  <2>5. ASSUME NEW p \in Pumps,
               Toggle(p) \/ Expand(p) \/ ShowMore(p) \/ FetchMore(p) \/ FetchRoot(p)
        PROVE  IInv'
    BY <2>5, ToggleStep, ExpandStep, ShowMoreStep, FetchMoreStep, FetchRootStep
  <2> QED
    BY <1>1, <2>1, <2>2, <2>3, <2>4, <2>5 DEF User
<1>2. ASSUME Loop PROVE IInv'
  <2>1. ASSUME Stopped PROVE IInv'
    BY <2>1, StoppedStep
  <2>2. ASSUME Continued PROVE IInv'
    BY <2>2, ContinuedStep
  <2>3. ASSUME NEW l \in Loaders, ScopesLoaded(l) \/ PageLoaded(l) \/ LoadFails(l)
        PROVE  IInv'
    BY <2>3, ScopesLoadedStep, PageLoadedStep, LoadFailsStep
  <2>4. ASSUME ScopeChanged PROVE IInv'
    BY <2>4, ScopeChangedStep
  <2>5. ASSUME ScopeLoaded PROVE IInv'
    BY <2>5, ScopeLoadedStep
  <2>6. ASSUME ScopeLoadFails PROVE IInv'
    BY <2>6, ScopeLoadFailsStep
  <2>7. ASSUME NEW p \in Pumps, Fetched(p) \/ FetchFails(p) PROVE IInv'
    BY <2>7, FetchedStep, FetchFailsStep
  <2>8. ASSUME Edited \/ EditFails PROVE IInv'
    BY <2>8, EditedStep, EditFailsStep
  <2>9. ASSUME OtherUpdate PROVE IInv'
    BY <2>9, OtherUpdateStep
  <2> QED
    BY <1>2, <2>1, <2>2, <2>3, <2>4, <2>5, <2>6, <2>7, <2>8, <2>9 DEF Loop
<1>3. ASSUME UNCHANGED vars PROVE IInv'
  BY <1>3, IStutter
<1> QED
  BY <1>1, <1>2, <1>3 DEF Next

-----------------------------------------------------------------------------
(* What follows from it *)

LEMMA ITypes ==
  ASSUME InspectorAssumption, IInv
  PROVE  TypeOK
<1>1. /\ BoundsInv /\ ShownInv /\ PagesInv /\ IsTable(table) /\ CacheInv(table, crossed, mode)
      /\ FetchInv(table, op, mode) /\ MaxStop \in Nat /\ MaxGen \in Nat
  BY DEF IInv, TableInv, InspectorAssumption
<1>2. /\ stop \in 0..MaxStop /\ frame \in 0..MaxStop /\ scopes \in 0..MaxStop
      /\ gen \in 0..MaxGen /\ pGen \in 0..MaxGen
      /\ mode \in {"counted", "uncounted", "whole"}
      /\ plain \subseteq Refs /\ crossed \subseteq Refs /\ changes \in Seq(Names)
  BY <1>1 DEF BoundsInv, ShownInv
<1>3. {selName, pSel, select} \subseteq Names \cup {None}
  BY <1>1 DEF ShownInv
<1>4. \A n \in Names : pages[n] = None \/ pages[n] \in Page
  BY <1>1 DEF PagesInv
<1>5. /\ table.rootRef \in Refs \cup {None}
      /\ table.expanded \cup DOMAIN table.cache \subseteq Refs
      /\ \A r \in DOMAIN table.cache : table.cache[r] \in Seq(Variable)
  BY <1>1 DEF IsTable, CacheInv, IsRun
<1>6. DOMAIN table.fetching \subseteq Refs /\ Range(table.fetching) \subseteq Pumps
  BY <1>1 DEF FetchInv, Range
<1> QED
  BY <1>2, <1>3, <1>4, <1>5, <1>6 DEF TypeOK

LEMMA IWhole ==
  ASSUME IInv
  PROVE  ListsAreWhole
<1>1. CacheInv(table, crossed, mode) /\ RootInv(table, mode)
  BY DEF IInv, TableInv
<1> QED
  BY <1>1 DEF ListsAreWhole, OpenLists, CacheInv, RootInv, IsBeginning

LEMMA IThisStop ==
  ASSUME IInv
  PROVE  NothingOfEarlierStop
<1>1. CacheInv(table, crossed, mode)
  BY DEF IInv, TableInv
<1> QED
  BY <1>1 DEF NothingOfEarlierStop, CacheInv, IsBelow

LEMMA IAgrees ==
  ASSUME InspectorAssumption, IInv
  PROVE  SelectionAgrees /\ NoStuckLoading
BY NoneIsNoValue DEF IInv, ShownInv, SelectInv, SelectionAgrees

LEMMA IInvariance == ASSUME InspectorAssumption PROVE Spec => []IInv
<1>1. Init => IInv
  BY IInit
<1>2. IInv /\ [Next]_vars => IInv'
  BY IStep
<1> QED
  BY <1>1, <1>2, PTL DEF Spec

(* However stops, loads, expansions, pages, edits and choices of a scope   *)
(* interleave, and however late an answer comes: the lists that are shown  *)
(* have no gap and are complete where no more is offered, they are of the  *)
(* scope that is shown, the store, the panel and the table agree on that   *)
(* scope, the Select shows it or what its last pending message says, and a *)
(* scope that is not loaded is being loaded or its request has failed.     *)
THEOREM InspectorIsHonest ==
  ASSUME InspectorAssumption
  PROVE  Spec => [](TypeOK /\ ListsAreWhole /\ NothingOfEarlierStop /\ SelectionAgrees
                    /\ NoStuckLoading)
<1>1. IInv => TypeOK /\ ListsAreWhole /\ NothingOfEarlierStop /\ SelectionAgrees
              /\ NoStuckLoading
  BY ITypes, IWhole, IThisStop, IAgrees
<1> QED
  BY <1>1, IInvariance, PTL
=============================================================================
