--------------------------- MODULE RunPlanProperties ---------------------------
(***************************************************************************)
(* What one run of the command line promises: about its configuration,     *)
(* about the backends it asks, about its exit code, and about what it      *)
(* reports to have spent.                                                  *)
(***************************************************************************)
EXTENDS RunPlan

Planned == plan # None

(* A split that is itself a judge is left out of the first property: the   *)
(* code takes it to score and write whoever judges in it, and does not     *)
(* look for writable judges in it (README, known divergences).             *)
NoSplitJudges == \A i \in 1..Backend[<< >>].judges : Backend[<<i>>].kind # "split"

WorkerLeaf == CHOOSE l \in Reached(Backend, "respond") : TRUE

(* Whether a judge's harness may change the tree, as its own precedence    *)
(* says: the environment's mode, else that of the judge's file or of what  *)
(* discovery finds last, else read-only, whatever an old bypass says.  A   *)
(* judge with a file that is not readable fails before it can do anything. *)
Edits(mode) == mode # None /\ mode[1] \notin {"read-only", "plan"}
JudgeFiles(around, leaf) ==
  IF leaf.judge_config # None THEN <<ConfigFiles[leaf.judge_config[1]]>>
  ELSE IF around.default_file # None THEN around.default_file ELSE around.discovered
MayEdit(around, leaf) ==
  LET files == JudgeFiles(around, leaf)
  IN /\ leaf.kind = "oneharness"
     /\ \A k \in DOMAIN files : files[k].readable
     /\ \/ Edits(around.environment.mode)
        \/ /\ around.environment.mode = None
           /\ \E k \in DOMAIN files : /\ Edits(files[k].mode)
                                      /\ \A j \in DOMAIN files : j > k => files[j].mode = None

(* The split whose judges a call reaches: the backend itself. *)
RaceFree(op) ==
  \/ Cardinality(Reached(Backend, op)) < 2
  \/ Backend[<< >>].allow
  \/ \A l \in Reached(Backend, op) : ~MayEdit(plan[1].around, Backend[l])

(* A plan that was accepted is a plan its backends can carry out: no call  *)
(* of the run, from the first worker turn to the assessment, reaches a     *)
(* backend that answers it as invalid, and no two judges run at once over  *)
(* one tree while one of them may change it, unless the config allows it.  *)
(* This is what into_plan's refusals are for: "asking is refused up front  *)
(* rather than failing at the end of a paid run".                          *)
AcceptedPlansRun ==
  Planned /\ NoSplitJudges => ~invalid /\ \A op \in Ops : RaceFree(op)

-----------------------------------------------------------------------------
(* The layers, read setting by setting. *)

InFile(file, s) ==
  CASE s = "judge_config" -> file.provider[<< >>].judge_config
    [] s = "worker_config" -> IF <<0>> \in DOMAIN file.provider
                              THEN file.provider[<<0>>].worker_config
                              ELSE file.provider[<< >>].worker_config
    [] s = "kind" -> <<file.provider[<< >>].kind>>
    [] s \in {"persona", "artifacts"} ->
         IF file.user = None THEN None ELSE <<file.user[1][s]>>
    [] s \in {"done_when", "max_turns"} ->
         IF file.user = None THEN None ELSE file.user[1][s]
    [] OTHER -> file[s]

Highest(i, s) == IF i.flags[s] # None THEN i.flags[s]
                 ELSE IF s \notin i.env.blank /\ i.env.set[s] # None THEN i.env.set[s]
                 ELSE InFile(i.file, s)

User == plan[1].conversation.user
Instructions == plan[1].conversation.skill.instructions

InEffect(s) ==
  CASE s = "judge_config" -> Backend[<< >>].judge_config
    [] s = "worker_config" -> Backend[WorkerLeaf].worker_config
    [] s = "kind" -> <<Backend[<< >>].kind>>
    [] s \in {"persona", "artifacts"} ->
         IF User = None THEN None ELSE <<User[1][s]>>
    [] s = "done_when" -> IF User = None THEN None ELSE User[1].done_when
    [] s = "max_turns" -> <<plan[1].settings.max_turns>>
    [] s = "session" -> <<plan[1].settings.session_name>>
    [] s = "skill" -> <<plan[1].conversation.skill.dir>>
    [] s = "system_prompt" -> SubSeq(Instructions, 1, 1)
    [] s = "task" -> <<plan[1].conversation.input>>

(* A skill is found from where it was given, a task may be stdin's if a    *)
(* flag says so.                                                           *)
Expected(i, s) ==
  CASE s = "session" /\ Highest(i, s) = Blank -> <<"onejudge">>
    [] s = "task" /\ i.flags[s] = <<"-">> -> <<i.stdin>>
    [] s = "skill" /\ i.flags[s] = None /\ (s \in i.env.blank \/ i.env.set[s] = None) ->
         <<[Highest(i, s)[1] EXCEPT !.from = IF @ = "cwd" THEN i.base ELSE @]>>
    [] OTHER -> Highest(i, s)

(* A run that is not refused runs under what it was told: every setting    *)
(* given by a flag, a variable or the file is in effect as the highest of  *)
(* the layers that give it says, where the setting bites: the worker's     *)
(* config at the backend that runs the worker, the user's settings in the  *)
(* conversation whether or not the file has a user, the file's own skill   *)
(* where it lies beside the file, its words after those of the prompt.  A  *)
(* prompt or a skill that says nothing adds no words to the other's.       *)
NoOverrideIsLost ==
  phase = "planned" =>
    \A s \in DOMAIN NoOverrides :
      Highest(given[1], s) # None =>
        /\ s # "system_prompt" \/ Highest(given[1], s) # Blank
             => InEffect(s) = Expected(given[1], s)
        /\ s = "skill" /\ SkillBodies[InEffect(s)[1]] # "" =>
             Last(Instructions) = SkillBodies[InEffect(s)[1]]

-----------------------------------------------------------------------------

InForce == (IF plan[1].done_when THEN {Configured} ELSE {}) \cup bound

JudgedYes(of, eval) == \E i \in DOMAIN verdicts : /\ verdicts[i].of = of
                                                  /\ verdicts[i].eval = eval
                                                  /\ verdicts[i].yes
                                                  /\ verdicts[i].turns = turns

(* Exit code 0 is earned on the finished transcript: the judges said yes,  *)
(* after the last turn, to the whole criterion in force (the configured    *)
(* one and every one a note bound while the run was under way) and to      *)
(* every boolean eval; and where there is no criterion, the conversation   *)
(* neither settled nor ran into its cap.  What the supervisor said during  *)
(* the run does not earn it.                                               *)
ZeroExitIsEarned ==
  exit = <<0>> =>
    /\ IF InForce # {} THEN JudgedYes(InForce, 0)
       ELSE ended # "settled" /\ (~plan[1].user \/ turns < plan[1].max_turns)
    /\ \A i \in DOMAIN plan[1].evals : plan[1].evals[i].kind = "boolean" => JudgedYes({}, i)

-----------------------------------------------------------------------------

Attribution == IF report[1].telemetry = None THEN << >> ELSE report[1].telemetry[1].attribution
InRole(role) == {i \in DOMAIN Attribution : Attribution[i].role = role}

Total(role) == IF report[1].telemetry = None THEN None ELSE report[1].telemetry[1][role]

VerdictUsage(scored) == SumFunction([i \in DOMAIN scored |-> OrElse(scored[i].usage, 0)])

AllRecords(role) ==
  UNION {{<<l, k>> : k \in {k \in DOMAIN records[l] : records[l][k].role = role}} :
           l \in DOMAIN records}

(* Whatever a run spent is on its report, once: every invocation of every  *)
(* harness is attributed to the leaf that made it, under a number of its   *)
(* own within its role, and told apart from those of another judge; every  *)
(* process is listed; a party's total leaves no invocation out (each       *)
(* reports one token here); the usage of every call that was answered is   *)
(* in the run's total or in a verdict.  A run that fails half way reports  *)
(* the invocations and processes of the call that failed too, and either   *)
(* way no note channel is left open.                                       *)
SpendingIsReported ==
  /\ phase = "over" => inbox # "open" \/ ~Planned
  /\ report # None =>
       /\ \A l \in DOMAIN records :
            Backend[l].kind # "llmlint" =>
              Cardinality({i \in DOMAIN Attribution : Attribution[i].ran = l}) = Len(records[l])
       /\ \A i \in DOMAIN Attribution :
            Attribution[i].turn_index \in 1..Cardinality(AllRecords(Attribution[i].role))
       /\ \A i, j \in DOMAIN Attribution :
            i # j => \/ Attribution[i].role # Attribution[j].role
                     \/ Attribution[i].turn_index # Attribution[j].turn_index
       /\ Backend[<< >>].kind = "split" => \A i, j \in InRole("judge") :
            Attribution[i].ran[1] # Attribution[j].ran[1]
              => Attribution[i].judge # Attribution[j].judge
       /\ \A role \in {"agent", "judge"} :
            Total(role) # None => Total(role)[1] = Cardinality(AllRecords(role))
       /\ \A l \in DOMAIN spawned :
            Cardinality({i \in DOMAIN report[1].processes : report[1].processes[i].ran = l})
              = Len(spawned[l])
       /\ exit # <<2>> => OrElse(report[1].usage, 0) + VerdictUsage(report[1].verdicts)
                            = OrElse(answered, 0)

-----------------------------------------------------------------------------
(* What a criterion may not ask for, spelled plainly; and what one may say. *)

Gaps == {<< >>, <<"=">>, <<"space">>, <<"=", "space">>}
Comparison(comparator, gap) == <<comparator>> \o gap \o <<"9", ".", "9">>
Release == {<<"v", "9", ".", "9">>, <<"9", ".", "9", ".", "9">>, <<"v", "9", ".", "9", ".", "9">>}
           \cup UNION {{Comparison(c, gap) : c \in Comparators} : gap \in Gaps}
Command == {<<"tick", c, "space", "work", "tick">> : c \in {"git", "just"}} \cup {<<"&&">>}
Wording == {<<"as", "space", "above">>, <<"the", "space", "wording", "space", "above">>,
            <<"verbatim">>}
AfterTheRun == {<<"is", "space", "published">>, <<"deploy">>}

AsksFor(text, demand) ==
  \E i \in DOMAIN text : /\ MatchesAt(text, i, demand)
                         /\ At(text, i - 1) \in {"space", Nothing}
                         /\ At(text, i + Len(demand)) \in {"space", Nothing}
Unusable(text) ==
  \/ Blanks(text)
  \/ \E demand \in Release \cup Command \cup Wording \cup AfterTheRun : AsksFor(text, demand)

(* Words and numbers, one of which may have a point. *)
Usable(text) == /\ ~Blanks(text)
                /\ \A i \in DOMAIN text : text[i] \in {"work", "9", "space", "."}
                /\ Cardinality({i \in DOMAIN text : text[i] = "."}) <= 1

InASentence(text) == <<"work", "space">> \o text \o <<"space", "work">>

Drafted == given[1].draft[1]

(* The bar a note may set is one that finished work can meet: a criterion  *)
(* that asks for a release, a command, a wording or what only happens      *)
(* after the run never gets into a note, so it is never in force; a plain  *)
(* statement, with a bare number like 9.9 in it, is not refused by         *)
(* mistake; and no rule is escaped by putting the words around it.         *)
UsableCriteriaBind ==
  /\ \A c \in bound : ~Unusable(c)
  /\ phase = "given" /\ given[1].draft # None /\ Drafted.criterion # None =>
       /\ Unusable(Drafted.criterion[1]) => note = None
       /\ Usable(Drafted.criterion[1]) /\ ~Blanks(Drafted.text) => note # None
       /\ note = None /\ ~Blanks(Drafted.text) /\ ~Blanks(Drafted.criterion[1]) =>
            ~CanBeNote([Drafted EXCEPT !.criterion[1] = InASentence(@)])

-----------------------------------------------------------------------------

(* The parties of a run are told apart at their harnesses: no two backends *)
(* are recorded under one name or continue one session, even where both    *)
(* are judges of one panel and run at the same time; and a judge's         *)
(* supervision is found under the very session it continues, although the  *)
(* session comes with the call and the name from the scope set before it.  *)
PartiesAreToldApart ==
  Planned /\ NoSplitJudges =>
    \A l, m \in DOMAIN records : \A i \in DOMAIN records[l], j \in DOMAIN records[m] :
      /\ l # m => /\ records[l][i].history # records[m][j].history
                  /\ records[l][i].session # None
                       => records[l][i].session # records[m][j].session
      /\ records[l][i].session # None => records[l][i].history = records[l][i].session
=============================================================================
