----------------------------- MODULE LaunchSpec -----------------------------
(***************************************************************************)
(* What a launch command becomes (app/launch.py: parse_launch_spec): a     *)
(* Python file or module runs as it is typed; `uv ... run ...` is split    *)
(* into the options of uv, those of run and the target, and debugpy is put *)
(* in between.  The tokens are those of the command after shlex.  A path   *)
(* stands for what it resolves to.                                         *)
(*                                                                         *)
(* A definition whose comment begins "Mutant" belongs to no behaviour.     *)
(***************************************************************************)
EXTENDS Naturals, Sequences, FiniteSets

CONSTANTS Tokens,     \* tokens that are typed
          Installed,  \* console scripts of the project
          MaxArgs     \* bound: tokens after `uv`

LaunchAssumption == MaxArgs \in Nat /\ Installed \subseteq Tokens

VARIABLES args,  \* argv after `uv`
          spec   \* the LaunchSpec, or Refused

vars == <<args, spec>>

Refused == [ok |-> FALSE]

TakesDir    == {"--directory", "--project"}
Pythons     == {"python"}
Paths       == {"./a.py"}
Options     == {"--", "-p", "--with=w", "-q", "--directory", "--directory=d", "--project"}
TakesValue  == {"-p"}

From(s, i) == SubSeq(s, i, Len(s))

(* Mutant: the value of an option is taken for the target. *)
StepOne(token) == 1

(* _uv_run_option_takes_value: how many tokens an option of run has *)
Step(token) == IF token \in TakesValue THEN 2 ELSE 1

(* _split_uv_run_options: the options, and what follows them; `--` ends    *)
(* them and is dropped.                                                    *)
SplitOptions(rest) ==
  LET at[i \in 1..(Len(rest) + 2)] ==
        IF i > Len(rest) THEN i
        ELSE IF rest[i] = "--" \/ rest[i] \notin Options THEN i
        ELSE at[i + Step(rest[i])]
      i == at[1]
  IN IF i > Len(rest) THEN [options |-> rest, target |-> <<>>]
     ELSE [options |-> SubSeq(rest, 1, i - 1),
           target |-> From(rest, IF rest[i] = "--" THEN i + 1 ELSE i)]

(* _normalise_uv_run, before `run`: where it is (0 if nowhere), and the    *)
(* last directory that --directory names; the value of an option that      *)
(* takes a directory is never taken for `run`.                             *)
Prefix ==
  LET Names(r, dir) == [r EXCEPT !.cwd = IF @ = "." THEN dir ELSE @]
      scan[i \in 1..(Len(args) + 2)] ==
        IF i > Len(args) THEN [run |-> 0, cwd |-> "."]
        ELSE IF args[i] = "run" THEN [run |-> i, cwd |-> "."]
        ELSE IF args[i] = "--directory" /\ i < Len(args) THEN Names(scan[i + 2], args[i + 1])
        ELSE IF args[i] = "--directory=d" THEN Names(scan[i + 1], "d")
        ELSE scan[IF args[i] \in TakesDir THEN i + 2 ELSE i + 1]
  IN scan[1]

(* _normalise_uv_run: a Python file, `python` and its arguments, or a      *)
(* console script of the project; whether one is there does not depend on  *)
(* the directories here.                                                   *)
UvRun ==
  LET run    == Prefix.run
      split  == SplitOptions(From(args, run + 1))
      target == split.target
      Launch(argv) ==
        [ok |-> TRUE, argv |-> argv, cwd |-> Prefix.cwd,
         prefix |-> SubSeq(args, 1, run) \o split.options \o <<"--with", "debugpy", "python">>]
  IN IF run = 0 \/ target = <<>> THEN Refused
     ELSE IF target[1] \in Pythons
          THEN IF Len(target) < 2 THEN Refused ELSE Launch(Tail(target))
     ELSE IF target[1] \in Paths \cup Installed THEN Launch(target)
     ELSE Refused

Init == args = <<>> /\ spec = Refused

(* The user types a token; Enter parses what is there. *)
Type(t) == Len(args) < MaxArgs /\ args' = Append(args, t) /\ spec' = Refused
Parse   == spec' = UvRun /\ UNCHANGED args

Next == Parse \/ \E t \in Tokens : Type(t)
Spec == Init /\ [][Next]_vars

-----------------------------------------------------------------------------
(* Properties *)

(* The types of the variables. *)
TypeOK == args \in Seq(Tokens) /\ spec.ok \in BOOLEAN

(* Nothing that was typed is lost or moved: the prefix without debugpy,    *)
(* the interpreter that debugpy replaces, and the arguments are the        *)
(* command, up to one `--`; and no option is cut off from its value.       *)
ArgsKept ==
  spec.ok =>
    LET front == SubSeq(spec.prefix, 1, Len(spec.prefix) - 3)
        open  == {k \in 1..Len(front) : \A i \in k..Len(front) : front[i] \in TakesValue}
    IN /\ \E sep \in {<<>>, <<"--">>}, python \in {<<>>} \cup {<<p>> : p \in Pythons} :
            front \o sep \o python \o spec.argv = args
       /\ spec.argv # <<>>
       /\ Cardinality(open) % 2 = 0
=============================================================================
