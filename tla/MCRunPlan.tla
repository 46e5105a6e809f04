------------------------------- MODULE MCRunPlan -------------------------------
(***************************************************************************)
(* The runs TLC starts: pairs of related settings given or not in each of  *)
(* the three layers; the provider trees a config can spell, the refused    *)
(* ones included; panels of judges in every kind of surroundings; the      *)
(* texts a criterion may be drafted with, rule by rule; and a few backends *)
(* driven with every kind of score.                                        *)
(***************************************************************************)
EXTENDS RunPlanProperties

Node(kind) ==
  [kind |-> kind, fields |-> {}, bin |-> None, judge_config |-> None, worker_config |-> None,
   command |-> IF kind = "command" THEN <<"argv">> ELSE None, judges |-> None, label |-> None,
   allow_writable_judges |-> None]

(* A provider alone, and a split of some. *)
Provider(kind) == << >> :> Node(kind)
Split(fields, judges) == [Node("split") EXCEPT !.fields = fields, !.judges = judges]
Under(top, parts, first) ==
  (<< >> :> top) @@
  [place \in UNION {{<<first + k - 1>> \o q : q \in DOMAIN parts[k]} : k \in DOMAIN parts} |->
     parts[place[1] - first + 1][Tail(place)]]
SplitOf(skill, judges) == Under(Split({"skill"}, <<Len(judges)>>), <<skill>> \o judges, 0)

One  == Provider("oneharness")
Cmd  == Provider("command")
Lint == Provider("llmlint")
Labelled(p, label) == [p EXCEPT ![<< >>].label = label]
Edit == [One EXCEPT ![<< >>].judge_config = <<"writable">>]

In(from, name) == [from |-> from, name |-> name]
MCSkills == [p \in {In(from, name) : from \in {"cwd", "beside the file", "root"},
                                       name \in {"file", "env", "flag", "silent"}} |->
               IF p.name = "silent" THEN "" ELSE p.name]
Turns == [file |-> 1, env |-> 2, flag |-> 3]
Values(layer, s) == CASE s = "kind" -> {<<k>> : k \in Kinds}
                      [] s = "max_turns" -> {<<Turns[layer]>>}
                      [] s = "session" -> {<<layer>>, Blank}
                      [] s = "task" -> {<<layer>>, Blank, <<"-">>}
                      [] s = "system_prompt" -> {<<layer>>, Blank}
                      [] s = "skill" -> {<<In("cwd", layer)>>, <<In("cwd", "missing")>>} \cup
                                        IF layer = "file" THEN {<<In("root", layer)>>}
                                        ELSE {<<In("cwd", "silent")>>}
                      [] s = "artifacts" -> {<<<<layer>>>>}
                      [] OTHER -> {<<layer>>}

(* A layer that gives either, both or neither setting of a pair. *)
Options(layer, s) == {None} \cup Values(layer, s)
Layers(layer, pair) == {[NoOverrides EXCEPT ![pair[1]] = a, ![pair[2]] = b] :
                          a \in Options(layer, pair[1]), b \in Options(layer, pair[2])}

Envs(pair) == {[set |-> NoOverrides, blank |-> {pair[1], pair[2]}]} \cup
              {[set |-> o, blank |-> {}] : o \in Layers("env", pair)}

Base == [provider |-> One, skill |-> None, system_prompt |-> None, task |-> <<"file">>,
         user |-> None, session |-> None, evals |-> << >>, assessment |-> None]

(* The file that gives a layer's settings. *)
File(base, o) ==
  LET p == [base.provider EXCEPT ![<< >>].judge_config = Over(@, o.judge_config),
                                 ![<< >>].kind = OrElse(o.kind, @),
                                 ![<< >>].worker_config = Over(@, o.worker_config)]
      user == [DefaultUser EXCEPT !.persona = OrElse(o.persona, @), !.settle = <<FALSE>>,
                                  !.done_when = o.done_when, !.max_turns = o.max_turns,
                                  !.artifacts = OrElse(o.artifacts, << >>)]
  IN [base EXCEPT !.provider = p, !.skill = o.skill, !.system_prompt = o.system_prompt,
                  !.session = o.session, !.task = Over(@, o.task),
                  !.user = IF \A s \in {"persona", "done_when", "max_turns", "artifacts"} :
                                o[s] = None THEN None ELSE <<user>>]

(* Files of every posture; nothing around a run, then also a default file, *)
(* files that are found, and a variable.                                   *)
Says(mode) == [NoLayer EXCEPT !.mode = <<mode>>]
MCFiles == [f \in {"file", "env", "flag"} |-> NoLayer] @@
           [writable |-> Says("edit"), plan |-> Says("plan"),
            old |-> [NoLayer EXCEPT !.bypass = <<TRUE>>],
            broken |-> [NoLayer EXCEPT !.readable = FALSE]]
Around == [default_file |-> None, discovered |-> << >>, environment |-> NoLayer]
Surroundings ==
  [default_file : {None, <<NoLayer>>, <<Says("edit")>>},
   discovered : {<< >>, <<Says("auto")>>, <<Says("auto"), Says("plan")>>,
                 <<Says("plan"), NoLayer>>},
   environment : {NoLayer, Says("read-only"), Says("auto")}]

(* A run of each file, in each environment, with each set of flags. *)
Runs(files, envs, flags) ==
  [file : files, base : {"beside the file"}, readable : {TRUE}, env : envs, flags : flags,
   stdin : {"stdin"}, streamed_to_file : {FALSE}, around : {Around}, sink : {"all"},
   hook : {FALSE}, draft : {None}]

(* The only run of one file, one environment and one set of flags. *)
Run(file, env, flags) == CHOOSE run \in Runs({file}, {env}, {flags}) : TRUE
NoEnv == [set |-> NoOverrides, blank |-> {}]
Plainly(file) == Run(file, NoEnv, NoOverrides)

Pairs == {<<"worker_config", "kind">>, <<"judge_config", "kind">>, <<"persona", "done_when">>,
          <<"max_turns", "artifacts">>, <<"done_when", "max_turns">>, <<"skill", "system_prompt">>,
          <<"task", "session">>}
Files == {Base, [Base EXCEPT !.provider = SplitOf(One, <<One>>)],
          [Base EXCEPT !.provider = [SplitOf(One, <<One>>) EXCEPT ![<< >>].kind = "oneharness"]]}
LayeredRuns(pairs) ==
  UNION {Runs({File(base, o) : base \in IF pair[2] = "kind" THEN Files ELSE {Base},
                               o \in Layers("file", pair)},
              Envs(pair), Layers("flag", pair)) : pair \in pairs}

(* What a config can spell under a split, and wrong elsewhere. *)
Entry1 == {One, Edit, Cmd, Lint, Labelled(One, <<"oneharness", 2>>), Labelled(Lint, BadLabel),
           [Lint EXCEPT ![<< >>].bin = Blank], [One EXCEPT ![<< >>].worker_config = <<"file">>],
           SplitOf(Cmd, <<Lint>>)}
Skills == {One, Cmd, Lint, SplitOf(One, <<Edit, One>>)}
Tops == {One, Cmd, Lint, Labelled(One, <<"one", 1>>), [Cmd EXCEPT ![<< >>].command = None],
         [One EXCEPT ![<< >>].fields = {"args"}], Under(Split({"skill"}, None), <<One>>, 0),
         SplitOf(One, << >>), Under(Split({"skill", "judge"}, <<1>>), <<One, One, One>>, 0),
         Under(Split({"skill", "judge"}, None), <<One, Cmd>>, 0),
         Under(Split({"judge"}, None), <<One>>, 1)}
        \cup {SplitOf(One, <<a, b>>) : a, b \in Entry1}
        \cup {[SplitOf(One, <<Edit, b>>) EXCEPT ![<< >>].allow_writable_judges = <<TRUE>>] :
                 b \in {One, Lint}}
        \cup {SplitOf(s, <<a>>) : s \in Skills, a \in Entry1}
Boolean == [kind |-> "boolean", scale |-> None]
Numeric == [kind |-> "numeric", scale |-> None]
Evals == {<< >>, <<Boolean>>, <<Numeric>>, <<[Numeric EXCEPT !.scale = <<<<5, 1>>>>]>>,
          <<[Boolean EXCEPT !.scale = <<<<0, 1>>>>]>>}
SpelledRuns(tops) == {Plainly([Base EXCEPT !.provider = p, !.evals = e, !.assessment = a]) :
                        p \in tops, e \in Evals, a \in {None, Blank, <<"prose">>}}

(* Backends driven to the end. *)
Backends == {One, Cmd, SplitOf(One, <<One, Lint>>),
             SplitOf(Cmd, <<Cmd, [One EXCEPT ![<< >>].bin = <<"named">>]>>),
             SplitOf(SplitOf(One, <<Cmd>>), <<SplitOf(One, <<One, Cmd>>), One>>)}
Users == {[DefaultUser EXCEPT !.done_when = d, !.max_turns = <<2>>, !.settle = <<TRUE>>] :
            d \in {None, <<"file">>}}
DrivenRuns == {Plainly([Base EXCEPT !.provider = p, !.user = <<u>>, !.evals = e,
                                    !.assessment = <<"prose">>]) :
                 p \in Backends, u \in Users, e \in {<< >>, <<Boolean, Numeric>>}}

(* Entry points and hooks. *)
EmbeddedRuns == {[Plainly([Base EXCEPT !.user = <<DefaultUser>>]) EXCEPT !.sink = s, !.hook = h] :
                   s \in {"none", "tools"}, h \in BOOLEAN}

(* Runs that are refused before a plan is tried. *)
RefusedRuns == {[Plainly(Base) EXCEPT !.readable = FALSE],
                [Run(Base, NoEnv, [NoOverrides EXCEPT !.task = <<"-">>]) EXCEPT !.stdin = ""],
                [Plainly(Base) EXCEPT !.streamed_to_file = TRUE]}

(* Panels of judges under every kind of file, in all surroundings. *)
Judged(by) == [One EXCEPT ![<< >>].judge_config = by]
SurroundedRuns(surroundings) ==
  {[Plainly([Base EXCEPT !.provider = SplitOf(One, <<Judged(by), other>>)]) EXCEPT !.around = s] :
     by \in {None, <<"plan">>, <<"writable">>, <<"old">>, <<"broken">>},
     other \in {Judged(<<"file">>), Lint}, s \in surroundings}

(* Texts of criteria, rule by rule. *)
Texts(tokens, n) == UNION {[1..k -> tokens] : k \in 0..n}
Phrases ==
  {<<a, s, b, u, c>> : a, b, c \in {"as", "the", "exactly", "wording", "above"},
                       s, u \in {"space", "-"}}
  \cup {<<">", "=", "space", "9", ".", "9">>, <<"~", "space", "space", "9", ".", "9">>,
        <<"tick", "work", "space", "just", "space", "work", "tick">>}
CriterionTexts(phrases) ==
  {t \in Texts({"9", ".", "v"}, 6) \cup Texts({"9", ".", ">", "=", "space"}, 4)
          \cup Texts({"tick", "git", "work", "space"}, 5) \cup phrases
          \cup Texts({"is", "published", "deploy", "verbatim", "&&", "work", "space"}, 3) :
     \A i \in DOMAIN t : t[i] # "9" \/ At(t, i + 1) # "9"}
Draft(criterion) == [text |-> <<"work">>, criterion |-> criterion]
Drafts(phrases) == {Draft(<<t>>) : t \in CriterionTexts(phrases)} \cup
                   {[Draft(c) EXCEPT !.text = <<"space">>] : c \in {None, <<<<"work">>>>}}
DraftedRuns(phrases) == {[Plainly(Base) EXCEPT !.readable = FALSE, !.draft = <<d>>] :
                           d \in Drafts(phrases)}

MCInvocations ==
  LayeredRuns(Pairs) \cup SpelledRuns(Tops) \cup RefusedRuns \cup SurroundedRuns(Surroundings)
  \cup DraftedRuns(Phrases) \cup EmbeddedRuns
  \cup {[run EXCEPT !.draft = <<Draft(<<<<"space", "work">>>>)>>] : run \in DrivenRuns}
=============================================================================
