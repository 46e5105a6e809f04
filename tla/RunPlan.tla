-------------------------------- MODULE RunPlan --------------------------------
(***************************************************************************)
(* One run of the command line, from its configuration to its exit code    *)
(* (run_task and execute of cli/mod.rs): the plan is made of the layers,   *)
(* the backend is built, the conversation is driven, the criterion in      *)
(* force is judged against the finished transcript, the evals and the      *)
(* assessment follow, and what was spent is read out of the backend,       *)
(* whichever way it ended.                                                 *)
(*                                                                         *)
(* The turns of the conversation are single steps here: module             *)
(* Conversation takes them apart.  So are the calls a backend makes:       *)
(* module HarnessCall takes those apart, and JudgePanel how a panel's      *)
(* answers become one.  How a run publishes and prints is RunStream's.     *)
(***************************************************************************)
EXTENDS AnyProvider

CONSTANTS Invocations,  \* what a run is started with
          MaxOdd,       \* bound: calls that retry, report no usage or die unreported
          MaxLost       \* bound: worker turns lost and recovered from

(* What a run is started with: a file, the directory it is in and whether  *)
(* it can be read; the environment; the flags, what stdin says and whether *)
(* a stream is to go to a file; what surrounds the run; and of an embedder *)
(* the entry point it uses, its spawn hook and the note that it drafts.    *)
RunArgs == {"file", "base", "readable", "env", "flags", "stdin", "streamed_to_file",
            "around", "sink", "hook", "draft"}

(* The entry points: a buffered run has no sink, a streaming one is shown  *)
(* the worker's tools, an observing one all there is. A sink can stop the  *)
(* run at what it is shown.                                                *)
Sinks == [none |-> {}, tools |-> {"reply"}, all |-> {"opening", "reply", "decision"}]

ASSUME RunPlanAssumption ==
  /\ \A i \in Invocations :
       /\ DOMAIN i = RunArgs
       /\ IsConfig(i.file) /\ i.base \in STRING /\ i.stdin \in STRING
       /\ i.env.set \in Overrides /\ i.env.blank \subseteq DOMAIN NoOverrides
       /\ i.flags \in Overrides
       /\ i.around \in Surrounding /\ i.sink \in DOMAIN Sinks
       /\ {i.readable, i.streamed_to_file, i.hook} \subseteq BOOLEAN
       /\ i.draft \in Optional([text : Text, criterion : Optional(Text)])
  /\ MaxOdd \in Nat /\ MaxLost \in Nat

VARIABLES phase,    \* where run_task and execute are
          given,    \* what the run was started with, until the plan is made of it
          plan,     \* the plan, once there is one
          records,  \* per leaf of the backend: the invocations it recorded
          spawned,  \* per leaf: the processes it recorded
          note,     \* the note the embedder could build of its draft
          inbox,    \* the plan's note channel: "none", "open", "closed"
          bound,    \* the criteria that delivered notes bound
          turns,    \* assistant turns in the transcript
          ended,    \* how the conversation ended
          usage,    \* the outcome's usage
          done,     \* the criterion in force: satisfied or not, where there is one
          results,  \* the evals' outcomes, in order
          verdicts, \* the verdicts of the report
          report,   \* what the run reports of what it spent
          exit,     \* the exit code
          invalid,  \* a call was refused as Error::Invalid
          answered, \* history: the usage of every call that was answered
          odd,      \* how many calls went oddly so far
          lost      \* how many worker turns were lost so far

loop    == <<bound, turns, ended, lost>>
scores  == <<done, results, verdicts>>
calls   == <<records, spawned, answered, odd, invalid>>
outcome == <<report, exit>>
vars == <<phase, given, plan, loop, scores, calls, outcome, note, inbox, usage>>

Configured == <<"configured">>
Ends == {"running", "completed", "settled", "turns", "stopped"}

-----------------------------------------------------------------------------
(* A call of the backend. *)

Backend == plan[1].provider
Role(op) == IF op = "respond" THEN "agent" ELSE "judge"

(* What goes differently at one of the leaves: it is asked again, and      *)
(* reports (twice) or dies the second time (cut); it reports no usage; it  *)
(* dies with nothing reported; or it is not started.                       *)
As        == [plain |-> 1, twice |-> 2, cut |-> 1, silent |-> 1, dead |-> 0, unstarted |-> 0]
Processes == [plain |-> 1, twice |-> 2, cut |-> 2, silent |-> 1, dead |-> 1, unstarted |-> 0]
Plain == [leaf |-> <<-1>>, as |-> "plain"]
Odds(op, how) == {Plain} \cup
  IF odd = MaxOdd THEN {}
  ELSE {o \in [leaf : Reached(Backend, op), as : how] :
          Backend[o.leaf].kind = "llmlint" => o.as \in {"dead", "unstarted"}}
OddAt(o, leaf) == IF o.leaf = leaf THEN o.as ELSE "plain"

(* An llmlint run spends no tokens. *)
Spent(o, leaf) ==
  IF Backend[leaf].kind = "llmlint" \/ OddAt(o, leaf) = "silent" THEN None ELSE <<1>>

Entry(op, o, leaf) == [role |-> Role(op), judge |-> None, ran |-> leaf,
                      history |-> history_name(Backend, leaf, op),
                      session |-> SessionOf(Backend, leaf, op),
                      usage |-> Spent(o, leaf), named |-> Backend[leaf].kind # "llmlint"]
Recorded(op, o) ==
  [l \in DOMAIN records |->
     IF l \in Reached(Backend, op) /\ Measures(Backend[l])
     THEN records[l] \o [k \in 1..As[OddAt(o, l)] |-> Entry(op, o, l)] ELSE records[l]]
Spawned(op, o) ==
  [l \in DOMAIN spawned |->
     IF l \in Reached(Backend, op) /\ Spawns(Backend[l], plan[1].hook)
     THEN spawned[l] \o [k \in 1..Processes[OddAt(o, l)] |-> [judge |-> None, ran |-> l]]
     ELSE spawned[l]]

(* The usage a call's answer carries: every leaf's, for each time it was   *)
(* asked.                                                                  *)
AnswerUsage(op, o) ==
  LET spent == UNION {{<<l, k>> : k \in 1..As[OddAt(o, l)]} :
                        l \in {l \in Reached(Backend, op) : Spent(o, l) # None}}
  IN IF spent = {} THEN None ELSE <<Cardinality(spent)>>

Called(op, o) == /\ records' = Recorded(op, o)
                 /\ spawned' = Spawned(op, o)
                 /\ odd' = IF o = Plain THEN odd ELSE odd + 1

(* A call that is answered, with its usage. *)
Answers(op, o) == /\ ~Refuses(Backend, op)
                  /\ Called(op, o)
                  /\ answered' = Add(answered, AnswerUsage(op, o))
                  /\ UNCHANGED invalid

(* A call that fails, asked again or not (only the judge's side is), or    *)
(* that the backend refuses before running anything.                       *)
Failing(op) == {"dead", "unstarted"} \cup IF op = "respond" THEN {} ELSE {"twice", "cut"}
Fails(op) == /\ UNCHANGED answered
             /\ \/ /\ ~Refuses(Backend, op)
                   /\ \E o \in Odds(op, Failing(op)) : Called(op, o)
                   /\ UNCHANGED invalid
                \/ /\ Refuses(Backend, op)
                   /\ invalid' = TRUE
                   /\ UNCHANGED <<records, spawned, odd>>

-----------------------------------------------------------------------------
(* From the layers to the plan, and from the plan to the backend. *)

(* Which file is read, and whether it can be, is settled before anything   *)
(* else; a stream that goes to stdout cannot also go to a file.            *)
CanStart(i) == i.readable /\ ~i.streamed_to_file

Config(i) == Layered(rebase_skill(i.file, i.base), i.env, resolve_task(i.flags, i.stdin))

(* A note that may not be one is never built. *)
DraftNote ==
  /\ phase = "drafting"
  /\ phase' = "given"
  /\ note' = IF given[1].draft # None /\ CanBeNote(given[1].draft[1])
             THEN <<Note(given[1].draft[1])>> ELSE None
  /\ UNCHANGED <<given, plan, loop, scores, calls, outcome, inbox, usage>>

ReadPlan ==
  /\ phase = "given"
  /\ IF CanStart(given[1]) /\ Accepts(Config(given[1]), given[1].around)
     THEN /\ phase' = "planned" /\ plan' = <<Plan(Config(given[1]), given[1].around)>>
          /\ UNCHANGED exit
     ELSE phase' = "over" /\ exit' = <<2>> /\ UNCHANGED plan
  /\ UNCHANGED <<note, given, loop, scores, calls, report, inbox, usage>>

(* What the rest of the run depends on: the task, the persona and the      *)
(* like are handed on as they are.                                         *)
Driven(p) ==
  LET user == p.conversation.user
  IN [provider |-> p.provider, around |-> p.around, sink |-> given[1].sink, hook |-> given[1].hook,
      user |-> user # None, max_turns |-> p.settings.max_turns,
      settle |-> p.settings.settle_on_noop,
      done_when |-> user # None /\ user[1].done_when # None,
      evals |-> p.evals, assessment |-> p.assessment]

(* An llmlint that is not there is found when the backend is built.  A     *)
(* plan whose backend cannot be built closes its notes unread.             *)
Closed == IF inbox = "none" THEN "none" ELSE "closed"
Probes(b) == \E place \in DOMAIN b : b[place].kind = "llmlint"
Build ==
  /\ phase = "planned"
  /\ given' = None /\ plan' = <<Driven(plan[1])>>
  /\ \/ /\ ~BuildRefused(Backend)
        /\ phase' = "worker"
        /\ records' = [l \in Leaves(Backend) |-> << >>]
        /\ spawned' = [l \in Leaves(Backend) |-> << >>]
        /\ UNCHANGED <<exit, inbox, invalid>>
     \/ /\ Probes(Backend) \/ BuildRefused(Backend)
        /\ invalid' = BuildRefused(Backend)
        /\ phase' = "over" /\ exit' = <<2>>
        /\ inbox' = Closed
        /\ UNCHANGED <<records, spawned>>
  /\ UNCHANGED <<note, loop, scores, report, usage, answered, odd>>

-----------------------------------------------------------------------------
(* The conversation. *)

(* What the report of a run that succeeded or failed says was spent. *)
Spending(recorded, started, total, scored) ==
  [telemetry |-> aggregate(Collected(Backend, recorded)),
   processes |-> Collected(Backend, started), usage |-> total, verdicts |-> scored]

(* Notes the party of this turn is handed, with the criteria they bind. *)
Delivers == bound' \in {bound} \cup
                      {bound \cup {note[i].criterion[1]} :
                         i \in {i \in DOMAIN note : inbox = "open" /\ note[i].criterion # None}}

(* A failure carries the telemetry and the processes of the calls made,    *)
(* the one that failed included.                                           *)
Failed(recorded, started) ==
  /\ phase' = "over" /\ exit' = <<2>> /\ inbox' = Closed
  /\ report' = <<Spending(recorded, started, None, << >>)>>

(* A sink that stops the run at what it is shown. *)
StopsAt(what) == what \in Sinks[plan[1].sink]

EndLoop(how) == /\ phase' = "criterion" /\ ended' = how /\ inbox' = Closed
GoOn(next) == phase' = next /\ UNCHANGED <<ended, inbox>>

AfterReply ==
  \/ StopsAt("reply") /\ EndLoop("stopped")
  \/ ~plan[1].user /\ EndLoop("turns")
  \/ /\ plan[1].user
     /\ \/ EndLoop("turns")                         \* the worker says that it is done
        \/ /\ turns' < plan[1].max_turns
           /\ \/ plan[1].settle /\ turns' > 1 /\ EndLoop("settled")
              \/ inbox = "open" /\ GoOn("worker")   \* a note opens the next turn
              \/ GoOn("judge")

StopsAtOpening ==
  /\ phase = "worker" /\ StopsAt("opening")
  /\ EndLoop("stopped")
  /\ UNCHANGED <<note, given, plan, bound, turns, lost, scores, calls, outcome, usage>>

WorkerReplies ==
  /\ phase = "worker"
  /\ \E o \in Odds("respond", {"silent"}) :
       Answers("respond", o) /\ usage' = Add(usage, AnswerUsage("respond", o))
  /\ Delivers
  /\ turns' = turns + 1
  /\ AfterReply
  /\ UNCHANGED <<note, given, plan, lost, scores, outcome>>

(* A lost turn goes to the supervisor where the judges of the backend take *)
(* those; otherwise it is the run's failure.                               *)
Recovers == /\ supervises_lost_turns(Backend)
            /\ plan[1].user
            /\ ~Refuses(Backend, "respond")
WorkerFails ==
  /\ phase = "worker"
  /\ Fails("respond")
  /\ Delivers
  /\ \/ /\ Recovers /\ lost < MaxLost
        /\ phase' = "recovery" /\ lost' = lost + 1
        /\ UNCHANGED <<inbox, outcome>>
     \/ Failed(records', spawned') /\ UNCHANGED lost
  /\ UNCHANGED <<note, given, plan, turns, ended, usage, scores>>

Supervises ==
  /\ phase \in {"judge", "recovery"}
  /\ \E o \in Odds("supervise", {"silent", "twice"}) :
       Answers("supervise", o) /\ usage' = Add(usage, AnswerUsage("supervise", o))
  /\ Delivers
  /\ \/ StopsAt("decision") /\ EndLoop("stopped") /\ UNCHANGED outcome
     \/ (EndLoop("completed") \/ GoOn("worker")) /\ UNCHANGED outcome
     \/ phase = "judge" /\ EndLoop("settled") /\ UNCHANGED outcome
     \/ phase = "recovery" /\ Failed(records', spawned') /\ UNCHANGED ended
  /\ UNCHANGED <<note, given, plan, turns, lost, scores>>

SupervisorFails ==
  /\ phase \in {"judge", "recovery"}
  /\ Fails("supervise")
  /\ Delivers
  /\ Failed(records', spawned')
  /\ UNCHANGED <<note, given, plan, turns, ended, lost, usage, scores>>

-----------------------------------------------------------------------------
(* The scores, each taken against the finished transcript. *)

ConfiguredOnly == IF plan[1].done_when THEN {Configured} ELSE {}

(* The criterion in force: the configured one and every one a note bound. *)
Criteria == ConfiguredOnly \cup bound

Verdict(of, eval, yes, spent) ==
  [of |-> of, eval |-> eval, yes |-> yes, usage |-> spent, turns |-> turns]

Rejudge ==
  /\ phase = "criterion"
  /\ IF Criteria = {}
     THEN phase' = "evals" /\ UNCHANGED <<done, verdicts, calls>>
     ELSE \E o \in Odds("boolean", {"silent", "twice"}), yes \in BOOLEAN :
            /\ Answers("boolean", o)
            /\ done' = <<yes>>
            /\ verdicts' = Append(verdicts, Verdict(Criteria, 0, yes, AnswerUsage("boolean", o)))
            /\ phase' = "evals"
  /\ UNCHANGED <<note, given, plan, loop, results, outcome, inbox, usage>>

NextEval == plan[1].evals[Len(results) + 1]
ScoreEval ==
  /\ phase = "evals" /\ Len(results) < Len(plan[1].evals)
  /\ \E o \in Odds(NextEval.kind, {"silent", "twice"}), yes \in BOOLEAN :
       /\ Answers(NextEval.kind, o)
       /\ results' = Append(results, [kind |-> NextEval.kind, yes |-> yes])
       /\ verdicts' = Append(verdicts, Verdict({}, Len(results) + 1, yes,
                                               AnswerUsage(NextEval.kind, o)))
  /\ UNCHANGED <<note, phase, given, plan, loop, done, outcome, inbox, usage>>

Assess ==
  /\ phase = "evals" /\ Len(results) = Len(plan[1].evals)
  /\ phase' = "report"
  /\ IF plan[1].assessment
     THEN \E o \in Odds("assess", {"silent", "twice"}) :
            Answers("assess", o) /\ usage' = Add(usage, AnswerUsage("assess", o))
     ELSE UNCHANGED <<calls, usage>>
  /\ UNCHANGED <<note, given, plan, loop, scores, outcome, inbox>>

Asking == CASE phase = "criterion" /\ Criteria # {} -> <<"boolean">>
            [] phase = "evals" /\ Len(results) < Len(plan[1].evals) -> <<NextEval.kind>>
            [] phase = "evals" /\ Len(results) = Len(plan[1].evals) /\ plan[1].assessment
                 -> <<"assess">>
            [] OTHER -> None
ScoreFails ==
  /\ Asking # None
  /\ Fails(Asking[1])
  /\ Failed(records', spawned')
  /\ UNCHANGED <<note, given, plan, loop, scores, usage>>

-----------------------------------------------------------------------------
(* The report and the exit code. *)

hit_max_turns == plan[1].user /\ turns >= plan[1].max_turns
completed == IF done # None THEN done[1] ELSE ~hit_max_turns /\ ended # "settled"

exit_code == IF /\ completed
                /\ \A i \in DOMAIN results : results[i].kind = "boolean" => results[i].yes
             THEN 0 ELSE 1

Report ==
  /\ phase = "report"
  /\ phase' = "over" /\ exit' = <<exit_code>>
  /\ report' = <<Spending(records, spawned, usage, verdicts)>>
  /\ UNCHANGED <<note, given, plan, loop, scores, calls, inbox, usage>>

(* An embedder may read notes into the run. *)
Inboxes == {"none", "open"}

Init ==
  /\ phase = "drafting" /\ note = None /\ (\E i \in Invocations : given = <<i>>)
  /\ inbox \in Inboxes
  /\ plan = None /\ records = << >> /\ spawned = << >>
  /\ bound = {} /\ turns = 0 /\ ended = "running" /\ lost = 0 /\ odd = 0
  /\ usage = None /\ done = None /\ results = << >> /\ verdicts = << >>
  /\ report = None /\ exit = None /\ invalid = FALSE /\ answered = None

Next == \/ DraftNote \/ ReadPlan \/ Build
        \/ StopsAtOpening \/ WorkerReplies \/ WorkerFails \/ Supervises \/ SupervisorFails
        \/ Rejudge \/ ScoreEval \/ Assess \/ ScoreFails \/ Report

Spec == Init /\ [][Next]_vars
=============================================================================
