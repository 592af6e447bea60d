---------------------------- MODULE PickerHistory ----------------------------
(***************************************************************************)
(* The file that keeps what was connected to or launched                   *)
(* (app/picker_history.py), shared by every process of the program that    *)
(* the user runs.                                                          *)
(*                                                                         *)
(* push() is a read, a write of a temporary file and a rename.  Inside one *)
(* process nothing comes in between; the steps of two processes interleave *)
(* and a process may be killed after any of them.  The clock may be set    *)
(* back.  os.write() may write less than it is given (a full disk) or      *)
(* raise.                                                                  *)
(*                                                                         *)
(* The list is kept as a set of entries: load() sorts it by time, so its   *)
(* order matters only among equal times, where any choice is allowed.      *)
(*                                                                         *)
(* A definition whose comment begins "Mutant" belongs to no behaviour.     *)
(***************************************************************************)
EXTENDS Naturals, FiniteSets

CONSTANTS Procs,       \* processes of the program
          Commands,    \* endpoints or command lines
          Torn,        \* content that is no JSON
          MaxEntries,  \* max_entries
          MaxTime      \* bound: the clock

ASSUME HistoryAssumption ==
  /\ MaxEntries \in Nat \ {0} /\ MaxTime \in Nat
  /\ \A S \in SUBSET [command : Commands, time : 0..MaxTime] : S # Torn

VARIABLES
  file,   \* the entries in <name>_history.json, or Torn
  proc,   \* what each process is doing
  clock,  \* time.time()
  short   \* history: a write was cut short

vars == <<file, proc, clock, short>>

Entries == [command : Commands, time : 0..MaxTime]
Idle    == [at |-> "idle"]

(* The n newest entries of S; which of equal ones is not said. *)
Newest(S, n) ==
  {T \in SUBSET S : /\ \A e \in T, f \in S \ T : e.time >= f.time
                    /\ Cardinality(T) <= n
                    /\ Cardinality(T) = n \/ T = S}

(* load: what cannot be read is an empty list. *)
Load == IF file = Torn THEN {{}} ELSE Newest(file, MaxEntries)

Others(S, c) == {e \in S : e.command # c}

Init == file = {} /\ proc = [p \in Procs |-> Idle] /\ clock = 0 /\ short = FALSE

(* push, up to the temporary file: the entry replaces the one of its       *)
(* command, and the oldest are dropped.                                    *)
Push(p, c) ==
  /\ proc[p] = Idle
  /\ \E list \in Load : \E rest \in Newest(Others(list, c), MaxEntries - 1) :
       proc' = [proc EXCEPT ![p] =
                  [at |-> "write", list |-> rest \cup {[command |-> c, time |-> clock]}]]
  /\ UNCHANGED <<file, clock, short>>

(* Mutant: the file itself is written. *)
WriteInPlace(p) ==
  /\ proc[p].at = "write"
  /\ proc' = [proc EXCEPT ![p].at = "replace"]
  /\ file' = Torn
  /\ UNCHANGED <<clock, short>>

(* _write: os.write of the temporary file, whole or cut short *)
WriteTemp(p) ==
  /\ proc[p].at = "write"
  /\ \/ proc' = [proc EXCEPT ![p].at = "replace"] /\ UNCHANGED short
     \/ /\ proc' = [proc EXCEPT ![p] = [at |-> "replace", list |-> Torn]]
        /\ short' = TRUE
  /\ UNCHANGED <<file, clock>>

(* os.replace *)
Replace(p) ==
  /\ proc[p].at = "replace"
  /\ file' = proc[p].list
  /\ proc' = [proc EXCEPT ![p] = Idle]
  /\ UNCHANGED <<clock, short>>

(* A step raises (the temporary file is removed), or the process is killed *)
(* (it stays).                                                             *)
Stops(p) ==
  /\ proc[p] # Idle
  /\ proc' = [proc EXCEPT ![p] = Idle]
  /\ UNCHANGED <<file, clock, short>>

Tick(t) == clock' = t /\ UNCHANGED <<file, proc, short>>

Next ==
  \/ \E p \in Procs : WriteTemp(p) \/ Replace(p) \/ Stops(p) \/ \E c \in Commands : Push(p, c)
  \/ \E t \in 0..MaxTime : Tick(t)

Spec == Init /\ [][Next]_vars

-----------------------------------------------------------------------------
(* Properties *)

(* A list of entries as the pickers expect it: no command twice, and no    *)
(* more than max_entries.                                                  *)
IsHistory(S) ==
  /\ S \subseteq Entries
  /\ \A e, f \in S : e.command = f.command => e = f
  /\ IsFiniteSet(S) /\ Cardinality(S) <= MaxEntries

(* The types of the variables. *)
TypeOK ==
  /\ file = Torn \/ file \subseteq Entries
  /\ clock \in 0..MaxTime /\ short \in BOOLEAN
  /\ \A p \in Procs : proc[p] = Idle \/ (proc[p].at \in {"write", "replace"} /\
                                         (proc[p].list = Torn \/ proc[p].list \subseteq Entries))

(* The file is a history at every moment, however the pushes of several    *)
(* processes interleave and wherever one is killed, unless a write was cut *)
(* short (its number of bytes is not looked at).                           *)
HistoryIsWhole == short \/ (file # Torn /\ IsHistory(file))
=============================================================================
