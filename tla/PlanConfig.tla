------------------------------ MODULE PlanConfig ------------------------------
(***************************************************************************)
(* How the configuration of a run becomes a plan (cli/config.rs): three    *)
(* layers (a file, the ONEJUDGE_* environment, the flags) are laid over    *)
(* each other, what they leave is validated, and the backends it names are *)
(* resolved.  Providers form a tree: a split has a worker side, its skill, *)
(* and a list of judges, and each of those may be a split again.           *)
(*                                                                         *)
(* A tree is a function of its places.  A place is the way to it from the  *)
(* top: 0 is a split's skill, i its i-th judge, and << >> is the top.      *)
(*                                                                         *)
(* Values are tokens: what a setting is set to matters only where a        *)
(* property or a check of the code tells two values apart.                 *)
(***************************************************************************)
EXTENDS Posture, Integers, FiniteSets, SequencesExt

CONSTANTS SkillBodies,      \* by path: the body of the SKILL.md there, where one can be loaded
          DefaultTurns      \* Settings::new's turn cap: 8 in the code

ASSUME PlanConfigAssumption == DefaultTurns \in Nat \ {0}

Blank == <<"">>

(* A layer's value where it has one, else the value below it. *)
Over(below, value) == IF value = None THEN below ELSE value
OrElse(value, default) == IF value = None THEN default ELSE value[1]

-----------------------------------------------------------------------------
(* Trees of providers, as a config spells them. *)

Kinds == {"oneharness", "command", "split", "llmlint"}

(* A label is a kind and a number, as the default ones are written, so that *)
(* an explicit one can clash with a default.                                *)
BadLabel == <<"not a label">>
Labels == {None, BadLabel} \cup (STRING \X Nat)

(* The fields that a provider's config sets; fields holds those whose value *)
(* is in another place of the tree (skill and judge), or is nothing that    *)
(* anything here depends on.                                                *)
Fields == {"skill", "judge", "instructions", "events", "stream", "control", "mock_harness",
           "config", "diff_base", "args"}
ProviderConfig ==
  [kind : Kinds, fields : SUBSET Fields, bin : Optional(STRING), judge_config : Optional(STRING),
   worker_config : Optional(STRING), command : Optional(STRING), judges : Optional(Nat),
   label : Labels, allow_writable_judges : Optional(BOOLEAN)]

(* How many judges a provider lists; judge is the shorthand for one. *)
Judges(p) == (IF "judge" \in p.fields THEN 1 ELSE 0) + OrElse(p.judges, 0)

(* A tree has a provider in every place that one of its providers lists,   *)
(* and in no other.  A file only lists so many.                            *)
Below(p) == (IF "skill" \in p.fields THEN {0} ELSE {}) \cup 1..Judges(p)
Way(place, k) == SubSeq(place, 1, k)
Tree(t) ==
  /\ t = [place \in DOMAIN t |-> t[place]]
  /\ << >> \in DOMAIN t /\ IsFiniteSet(DOMAIN t)
  /\ \A place \in DOMAIN t :
       /\ place \in Seq(Nat) /\ t[place] \in ProviderConfig
       /\ \A k \in DOMAIN place : /\ Way(place, k - 1) \in DOMAIN t
                                  /\ place[k] \in Below(t[Way(place, k - 1)])
       /\ \A step \in Below(t[place]) : Append(place, step) \in DOMAIN t

IsJudge(place) == place # << >> /\ Last(place) # 0

-----------------------------------------------------------------------------
(* The layers. *)

Path == [from : STRING, name : STRING]
UserConfig == [persona : STRING \cup {""}, done_when : Optional(STRING),
               max_turns : Optional(Nat), settle : Optional(BOOLEAN), artifacts : Seq(STRING)]
EvalConfig == [kind : {"boolean", "numeric"}, scale : Optional(Int \X Int)]
IsConfig(c) ==
  /\ Tree(c.provider)
  /\ c \in [provider : {c.provider}, skill : Optional(Path), system_prompt : Optional(STRING),
            task : Optional(STRING), user : Optional(UserConfig), session : Optional(STRING),
            evals : Seq(EvalConfig), assessment : Optional(STRING)]

DefaultUser == [persona |-> "", done_when |-> None, max_turns |-> None,
                settle |-> None, artifacts |-> << >>]

(* A layer of overrides: the environment, or the flags. *)
Overrides ==
  [judge_config : Optional(STRING), worker_config : Optional(STRING), skill : Optional(Path),
   system_prompt : Optional(STRING), task : Optional(STRING), persona : Optional(STRING),
   done_when : Optional(STRING), max_turns : Optional(Nat), artifacts : Optional(Seq(STRING)),
   session : Optional(STRING), kind : Optional(Kinds)]
NoOverrides == [judge_config |-> None, worker_config |-> None, skill |-> None,
                system_prompt |-> None, task |-> None, persona |-> None,
                done_when |-> None, max_turns |-> None, artifacts |-> None,
                session |-> None, kind |-> None]

(* The environment as overrides: a variable that is set but empty is absent. *)
from_env(env) == [s \in DOMAIN NoOverrides |-> IF s \in env.blank THEN None ELSE env.set[s]]

(* The worker's config lands on the backend that runs the worker side as   *)
(* this layer leaves the kind: a split's skill, else the top provider.     *)
PlaceWorkerConfig(provider, config) ==
  LET worker == IF provider[<< >>].kind = "split" /\ <<0>> \in DOMAIN provider
                THEN <<0>> ELSE << >>
  IN [provider EXCEPT ![worker].worker_config = Over(@, config)]

(* The user the overrides imply, even where the file had none. *)
ImpliedUser(user, o) ==
  IF \A s \in {"persona", "done_when", "max_turns", "artifacts"} : o[s] = None
  THEN user
  ELSE LET u == OrElse(user, DefaultUser)
       IN <<[u EXCEPT !.persona = OrElse(o.persona, @), !.done_when = Over(@, o.done_when),
                      !.max_turns = Over(@, o.max_turns),
                      !.artifacts = OrElse(o.artifacts, @)]>>

Apply(config, o) ==
  LET kept == [config.provider EXCEPT ![<< >>].judge_config = Over(@, o.judge_config),
                                      ![<< >>].kind = OrElse(o.kind, @)]
  IN [config EXCEPT !.provider = PlaceWorkerConfig(kept, o.worker_config),
                    !.user = ImpliedUser(@, o),
                    !.skill = Over(@, o.skill), !.system_prompt = Over(@, o.system_prompt),
                    !.task = Over(@, o.task), !.session = Over(@, o.session)]

(* A path is the directory it starts from, the working directory unless it *)
(* says otherwise, and a name.  A file's own skill is found from the file's*)
(* directory.                                                              *)
rebase_skill(config, base) ==
  IF config.skill # None /\ config.skill[1].from = "cwd"
  THEN [config EXCEPT !.skill[1].from = base] ELSE config

(* A task that is given as a dash is read from stdin. *)
resolve_task(o, stdin) == IF o.task = <<"-">> THEN [o EXCEPT !.task = <<stdin>>] ELSE o

(* Flags over the environment over the file. *)
EnvLast(file, env, flags) == Apply(Apply(file, flags), from_env(env))
Layered(file, env, flags) == Apply(Apply(file, from_env(env)), flags)

-----------------------------------------------------------------------------
(* The skill: its instructions are the system prompt and then the body of  *)
(* its file, without the blank ones; the worker works in its directory.    *)

load_skill(dir) == IF dir \in DOMAIN SkillBodies THEN <<SkillBodies[dir]>> ELSE None
Words(part) == IF part = "" THEN << >> ELSE <<part>>
merge_instructions(system_prompt, body) == Words(system_prompt) \o Words(body)

CanBuildSkill(config) == config.skill # None => load_skill(config.skill[1]) # None
build_skill(config) ==
  LET prompt == OrElse(config.system_prompt, "")
  IN IF config.skill = None
     THEN [dir |-> [from |-> "cwd", name |-> "."], instructions |-> merge_instructions(prompt, "")]
     ELSE [dir |-> config.skill[1],
           instructions |-> merge_instructions(prompt, load_skill(config.skill[1])[1])]

-----------------------------------------------------------------------------
(* Resolving a provider. *)

Allowed == [oneharness |-> {"bin", "judge_config", "worker_config", "instructions", "events",
                            "stream", "control", "mock_harness"},
            command    |-> {"command"},
            split      |-> {"skill", "judge", "judges", "allow_writable_judges"},
            llmlint    |-> {"bin", "config", "diff_base", "args"}]

Given(p) == p.fields \cup {f \in {"bin", "judge_config", "worker_config", "command",
                                  "judges", "allow_writable_judges"} : p[f] # None}

SplitShape(p) == /\ "skill" \in p.fields
                 /\ "judge" \notin p.fields \/ p.judges = None
                 /\ Judges(p) > 0

(* The label of a judge: its own, else its kind and which of it it is. *)
Sibling(place, j) == Append(Front(place), j)
Label(t, place) ==
  IF t[place].label # None THEN t[place].label
  ELSE <<t[place].kind,
         Cardinality({j \in 1..Last(place) : t[Sibling(place, j)].kind = t[place].kind})>>

LabelsTaken(t, place) ==
  \E i \in 1..Judges(t[place]) :
    \/ t[Append(place, i)].label = BadLabel
    \/ \E j \in 1..Judges(t[place]) :
         i # j /\ Label(t, Append(place, i)) = Label(t, Append(place, j))

InPlace(p, place) == /\ p.label # None => IsJudge(place)
                     /\ p.worker_config # None => ~IsJudge(place)
                     /\ p.kind = "llmlint" => IsJudge(place)

Resolves(t) ==
  \A place \in DOMAIN t :
    LET p == t[place]
    IN /\ InPlace(p, place)
       /\ Given(p) \subseteq Allowed[p.kind]
       /\ p.kind = "command" => p.command \notin {None, Blank}
       /\ p.kind = "llmlint" => p.bin # Blank
       /\ p.kind = "split" => SplitShape(p) /\ ~LabelsTaken(t, place)

(* The backends a valid tree resolves to. *)
Resolved(t) ==
  [place \in DOMAIN t |->
     [kind |-> t[place].kind, bin |-> t[place].bin, command |-> t[place].command,
      judge_config |-> t[place].judge_config, worker_config |-> t[place].worker_config,
      label |-> IF IsJudge(place) THEN Label(t, place) ELSE None,
      judges |-> Judges(t[place]), allow |-> t[place].allow_writable_judges = <<TRUE>>]]

-----------------------------------------------------------------------------
(* Validating the plan. *)

Writable(spec, around) == spec.kind = "oneharness" /\ MayWrite(spec.judge_config, around)

RefusedPanel(b, around) ==
  \E place \in DOMAIN b :
    /\ b[place].kind = "split"
    /\ ~b[place].allow
    /\ b[place].judges >= 2
    /\ \E i \in 1..b[place].judges : Writable(b[Append(place, i)], around)

DefaultScale == <<0, 10>>
EvalResolves(e) == IF e.kind = "boolean" THEN e.scale = None
                   ELSE OrElse(e.scale, DefaultScale)[1] <= OrElse(e.scale, DefaultScale)[2]
Eval(e) == [kind |-> e.kind, scale |-> IF e.kind = "boolean" THEN << >>
                                       ELSE OrElse(e.scale, DefaultScale)]

ScoresAnything(spec) == TRUE
scores_and_writes(spec) == spec.kind \in {"oneharness", "command", "split"}
Answerable(b, config) ==
  \/ b[<< >>].kind # "split"
  \/ /\ config.assessment \in {None, Blank}
     /\ \A i \in DOMAIN config.evals : config.evals[i].kind = "boolean"
  \/ \E i \in 1..b[<< >>].judges : scores_and_writes(b[<<i>>])

Accepts(config, around) ==
  /\ config.task \notin {None, Blank}
  /\ Resolves(config.provider)
  /\ CanBuildSkill(config)
  /\ ~RefusedPanel(Resolved(config.provider), around)
  /\ \A i \in DOMAIN config.evals : EvalResolves(config.evals[i])
  /\ Answerable(Resolved(config.provider), config)

(* The settings and the conversation a plan is made of; a config without a *)
(* user is a conversation of one turn.                                     *)
Settings(config) ==
  LET user == OrElse(config.user, DefaultUser)
  IN [session_name   |-> IF config.session \in {None, Blank} THEN "onejudge" ELSE config.session[1],
      max_turns      |-> OrElse(user.max_turns, DefaultTurns),
      settle_on_noop |-> OrElse(user.settle, TRUE)]

SimulatedUser(user) ==
  [persona |-> user.persona, done_when |-> user.done_when, artifacts |-> user.artifacts]

Conversation(config) ==
  [skill |-> build_skill(config), input |-> config.task[1],
   user |-> [i \in DOMAIN config.user |-> SimulatedUser(config.user[i])]]

Plan(config, around) ==
  [provider |-> Resolved(config.provider), around |-> around,
   settings |-> Settings(config), conversation |-> Conversation(config),
   evals |-> [i \in DOMAIN config.evals |-> Eval(config.evals[i])],
   assessment |-> config.assessment \notin {None, Blank}]
=============================================================================
