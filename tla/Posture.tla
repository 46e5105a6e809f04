-------------------------------- MODULE Posture --------------------------------
(***************************************************************************)
(* The permission mode a judge's calls run under (oneharness/posture.rs).  *)
(* The configuration such a call is given is a list of layers, each over   *)
(* the ones before it: onejudge's own defaults first, which say read-only, *)
(* then the judge's file or, where it has none, the files that are found   *)
(* from the worktree, then the environment.  A layer that is not readable  *)
(* makes the call fail.                                                    *)
(*                                                                         *)
(* A run's surroundings are the layer in oneharness.judge.toml, where that *)
(* file is there, the layers that discovery finds, and the environment's.  *)
(***************************************************************************)
EXTENDS Naturals, Sequences

CONSTANT ConfigFiles  \* by name: the layer in each file that a judge may name

(* An optional value is a sequence of at most one value. *)
None == << >>
Optional(S) == {s \in Seq(S) : Len(s) <= 1}

(* What a layer may set: a mode, or the boolean that came before modes. *)
Layer == [readable : BOOLEAN, mode : Optional(STRING), bypass : Optional(BOOLEAN)]
NoLayer == [readable |-> TRUE, mode |-> None, bypass |-> None]
JUDGE_DEFAULTS == [NoLayer EXCEPT !.mode = <<"read-only">>]

ASSUME PostureAssumption == \A name \in DOMAIN ConfigFiles : ConfigFiles[name] \in Layer

Surrounding == [default_file : Optional(Layer), discovered : Seq(Layer), environment : Layer]

(* The file a judge's calls are given, if any: the one it names, else the  *)
(* default one.                                                            *)
cli_judge_config(configured, around) ==
  IF configured = None THEN around.default_file ELSE <<ConfigFiles[configured[1]]>>

evaluator_configs(judge_config, around) ==
  <<JUDGE_DEFAULTS>> \o IF judge_config = None THEN around.discovered ELSE judge_config

(* What the last layer that sets something sets it to. *)
Explained(layers, setting) ==
  LET setters == {i \in DOMAIN layers : layers[i][setting] # None}
  IN IF setters = {} THEN None
     ELSE layers[CHOOSE i \in setters : \A j \in setters : j <= i][setting]

resolve(configs, around) ==
  LET layers == Append(configs, around.environment)
      mode   == Explained(layers, "mode")
      bypass == Explained(layers, "bypass")
  IN IF mode # None THEN mode[1]
     ELSE IF bypass = <<TRUE>> THEN "bypass" ELSE "default"

is_writable(mode) == mode \notin {"read-only", "plan"}

(* A posture that cannot be read is left to the judge's first call. *)
MayWrite(judge_config, around) ==
  LET configs == evaluator_configs(cli_judge_config(judge_config, around), around)
  IN /\ \A i \in DOMAIN configs : configs[i].readable
     /\ is_writable(resolve(configs, around))
=============================================================================
