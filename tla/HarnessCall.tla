----------------------------- MODULE HarnessCall ------------------------------
(***************************************************************************)
(* One call the engine makes of a provider, and the attempts it is made of: *)
(* OneharnessProvider (oneharness/mod.rs, library.rs), CommandProvider      *)
(* (command.rs) and LlmlintProvider (llmlint.rs), with the supervisor       *)
(* re-ask and the evidence loop of provider.rs, under                       *)
(* src/crates/onejudge/src.                                                 *)
(*                                                                          *)
(* A oneharness call tries the most capable rung first and drops the one    *)
(* thing the attempt was refused for: a controlled turn, a turn in the      *)
(* named session, a turn on its own. Around that ladder a judge may ask for *)
(* evidence, and around that a supervisor whose answer cannot be used is    *)
(* asked again. What a call leaves behind is kept per provider: the         *)
(* telemetry, and what each party can say of out-of-band control.           *)
(*                                                                          *)
(* Telemetry is that of the call in flight: what earlier calls put there is  *)
(* never changed but by a reset, which forgets it all.                      *)
(***************************************************************************)
EXTENDS ChildProcess, JudgeReply

CONSTANTS
  Providers,  \* how a provider may be configured
  Calls,      \* the calls that are made of each
  MAX_CALLS,  \* calls of one run
  SUPERVISOR_REASK_LIMIT,
  EVIDENCE_TOOL_RETRY_LIMIT

(* What the builders can make. Only an oneharness runs in process (and only  *)
(* where it was given no binary, hook or mock harness), is controlled or     *)
(* streamed, and may edit.                                                   *)
Configurations ==
  {p \in [by : Programs, library : BOOLEAN, unix : BOOLEAN,
          control : BOOLEAN, stream : BOOLEAN, posture : {"read_only", "writable", "unknown"},
          judge_events : {"unset", "on", "off"}] :
     p.by # "oneharness" => /\ ~p.library /\ ~p.control /\ ~p.stream
                            /\ p.posture = "read_only" /\ p.judge_events = "unset"}

(* The forms in which the operations are called. *)
Forms ==
  [op : Operations, session : BOOLEAN, history : BOOLEAN, worktree : BOOLEAN,
   evidence : BOOLEAN, kind : {"boolean", "numeric"}, scale : BOOLEAN, lost : BOOLEAN]

(* Which are made: a verdict and an assessment *)
(* are asked in no session, only a worker's turn and a supervision show the  *)
(* history they begin, and the tree is looked at only where the caller may   *)
(* be handed evidence from it.                                               *)
Callable(c) ==
  /\ c.session  => c.op \in {"respond", "supervisor", "user"}
  /\ c.history  => c.op \in {"respond", "supervisor"}
  /\ c.evidence => c.op \in {"supervisor", "judge", "assess"}
  /\ c.worktree => c.op = "supervisor" \/ c.evidence
  /\ c.lost     => c.op = "supervisor"

ASSUME CallAssumption ==
  /\ Providers \subseteq Configurations
  /\ \A p \in Providers : Calls[p] \subseteq {c \in Forms : Callable(c)}
  /\ MAX_CALLS \in Nat
  /\ SUPERVISOR_REASK_LIMIT \in Nat /\ EVIDENCE_TOOL_RETRY_LIMIT \in Nat

(* A document is a report whatever wrote it. One of a command or of a lint   *)
(* run stands for the object or the lines it printed: it is of one result,   *)
(* which has no status of its own.                                           *)
ASSUME DocumentsAssumption ==
  /\ \A asked \in DOMAIN Documents : Documents[asked] \subseteq R!Reports(Replies)
  /\ \A asked \in DOMAIN Documents :
       asked[1] # "oneharness" =>
         \A d \in Documents[asked] : /\ Len(d.results) = 1 /\ d.results[1].status = "ok"
                                     /\ d.fallback = R!NoFallback

VARIABLES
  provider,     \* its configuration
  calls,        \* calls since the last reset
  call,         \* the call in flight, or the last one
  rung,         \* of the ladder
  ask, reask,   \* which ask of the supervisor this is, and why it is made again
  tried,        \* evidence requests answered or refused in this ask
  used, total,  \* usage of this ask, and of the asks before it
  party,        \* what each party can say about turn control
  judge_record, \* what the supervisor decisions since the last take recorded
  link,         \* whether there is a link to a finished lint run
  telemetry,    \* what the call in flight put on the telemetry
  answer,       \* what the call came to
  last          \* history: how each party's last answered turn ran

loops == <<ask, reask, tried, used, total>>
kept  == <<party, judge_record, link, telemetry>>
vars  == <<at, spec, process, got, shown, provider, calls, call, rung, loops, kept, answer, last>>

Parties == {"worker", "judge"}
PartyOf(op) == IF op = "respond" THEN "worker" ELSE "judge"

Silent == [outcome |-> "not_requested", socket |-> FALSE, redirected |-> FALSE]
NoRecord == [posture |-> FALSE, events |-> 0]
NoAnswer == [is |-> "none", usage |-> 0, events |-> <<>>, said |-> "nothing"]
Error == [NoAnswer EXCEPT !.is = "error"]
NothingRecorded == [usage |-> 0, tools |-> 0]

Rungs == {"controlled", "session", "plain"}
Answers == {"error", "turn", "aborted", "decision", "verdict", "assessment", "reply"}

NoSpec == [by |-> "none", op |-> "none", stream |-> FALSE, history |-> FALSE, stdin |-> FALSE,
           session |-> FALSE, control |-> FALSE, note |-> "", big |-> FALSE]
NoCall == [op |-> "none", session |-> FALSE, history |-> FALSE, worktree |-> FALSE,
           evidence |-> FALSE, kind |-> "boolean", scale |-> FALSE, lost |-> FALSE]

Specs ==
  [by : Programs \cup {"none"}, op : Operations \cup {"none"}, stream : BOOLEAN,
   history : BOOLEAN, stdin : BOOLEAN, session : BOOLEAN, control : BOOLEAN,
   note : {"", "REASK", "UNPARSED", "REDIRECT"}, big : BOOLEAN]
Children ==
  [at : Alive \cup {"none", "gone", "reaped"}, read : BOOLEAN, lines : Nat,
   open : SUBSET Pipes]
Gots ==
  [is : {"pending", "error", "unwritten", "aborted", "output"},
   report : R!Reports(Replies), code : Codes, words : Words]

ProcessType ==
  /\ at \in Stages /\ spec \in Specs /\ child \in Children /\ got \in Gots
  /\ out \in Seq(Lines) /\ heard \in Seq(Actions) /\ shown \in Seq(Actions)
  /\ outcome \in {"none", "aborted", "report", "malformed"}
  /\ recorded \in BOOLEAN

CallType ==
  /\ provider \in Providers
  /\ calls \in 0 .. MAX_CALLS
  /\ call \in Calls[provider] \cup {NoCall}
  /\ rung \in Rungs
  /\ ask \in 0 .. SUPERVISOR_REASK_LIMIT /\ tried \in 0 .. EVIDENCE_TOOL_RETRY_LIMIT
  /\ reask \in Reask \cup {"none"}
  /\ used \in Nat /\ total \in Nat
  /\ party \in [Parties -> [outcome : {"not_requested", "unavailable", "open"},
                            socket : BOOLEAN, redirected : BOOLEAN]]
  /\ judge_record \in [posture : BOOLEAN, events : Nat]
  /\ link \in BOOLEAN
  /\ telemetry \in [usage : Nat, tools : Nat]
  /\ answer.is \in Answers \cup {"none"} /\ answer.usage \in Nat
  /\ last \in [Parties -> Rungs \cup {"none"}]

TypeOK == ProcessType /\ CallType

(* The process of a call that is over is forgotten when the next one begins. *)
NothingRun ==
  /\ child' = NoChild /\ recorded' = FALSE /\ out' = <<>> /\ heard' = <<>>
  /\ outcome' = "none" /\ got' = Pending

Init ==
  /\ at = "idle" /\ spec = NoSpec /\ child = NoChild /\ out = <<>> /\ heard = <<>>
  /\ outcome = "none" /\ recorded = FALSE /\ got = Pending /\ shown = <<>>
  /\ provider \in Providers
  /\ calls = 0 /\ call = NoCall /\ rung = "plain"
  /\ ask = 0 /\ reask = "none" /\ tried = 0 /\ used = 0 /\ total = 0
  /\ party = [p \in Parties |-> Silent]
  /\ judge_record = NoRecord /\ link = FALSE /\ telemetry = NothingRecorded
  /\ answer = NoAnswer
  /\ last = [p \in Parties |-> "none"]

-----------------------------------------------------------------------------
(* What a provider answers, and what it needs to.                            *)

(* An evaluator has the worker's tree in hand. *)
Evaluates(c) ==
  provider.by = "oneharness" /\ c.worktree /\ c.op \in {"supervisor", "judge", "assess"}

(* Events are asked for as configured, else where the judge may write.       *)
AsksEvents ==
  IF provider.judge_events = "unset" THEN provider.posture = "writable"
  ELSE provider.judge_events = "on"

(* Answered with Error::Invalid before anything is started. *)
Invalid(c) ==
  \/ provider.by = "llmlint" /\ c.op \in {"respond", "user", "assess"}
  \/ provider.by = "llmlint" /\ c.op = "judge" /\ (c.kind = "numeric" \/ ~c.worktree)
  \/ provider.by = "command" /\ c.op = "judge" /\ c.kind = "numeric" /\ ~c.scale

(* A judge's configuration may not be readable, nor a label acceptable.      *)
MayNotStart(c) == Evaluates(c) \/ (provider.by = "llmlint" /\ ~Invalid(c))

(* The link of an earlier lint is gone as soon as another is asked for.      *)
LinkAtStart(c) == IF provider.by = "llmlint" /\ ~Invalid(c) THEN FALSE ELSE link

Begin ==
  /\ at = "idle" /\ calls < MAX_CALLS
  /\ \E c \in Calls[provider] :
       /\ call' = c
       /\ link' = LinkAtStart(c)
       /\ \/ ~Invalid(c) /\ at' = "ladder" /\ answer' = NoAnswer
          \/ (Invalid(c) \/ MayNotStart(c)) /\ at' = "idle" /\ answer' = Error
  /\ calls' = calls + 1
  /\ NothingRun
  /\ shown' = <<>> /\ telemetry' = NothingRecorded
  /\ UNCHANGED <<spec, provider, rung, loops, party, judge_record, last>>

-----------------------------------------------------------------------------
(* The ladder. Only a turn that is addressed by its session is controlled.   *)

Controllable(c) == provider.control /\ c.session /\ c.op \in {"respond", "supervisor"}

(* A platform without unix sockets is answered here, in the place of a       *)
(* refused run.                                                              *)
control_platform_reason == ~provider.unix
Addressable(c) == Controllable(c) /\ ~control_platform_reason

FirstRung ==
  CASE ~call.session                        -> "plain"
    [] Addressable(call)                    -> "controlled"
    [] call.session /\ ~Addressable(call)  -> "session"

(* Why the supervisor is asked again, as its prompt says it: an answer that  *)
(* did not parse may have been one to a note that redirected the turn.       *)
supervisor_reask_note ==
  IF reask = "unparseable" /\ party["judge"].redirected THEN "REDIRECT" ELSE note[reask]

Attempt(r) ==
  /\ rung' = r
  /\ \E big \in IF BigRequests /\ provider.by # "llmlint" THEN BOOLEAN ELSE {FALSE} :
       spec' = [by |-> provider.by, op |-> call.op,
                stream |-> \/ provider.by = "oneharness" /\ call.history
                           \/ provider.by = "oneharness" /\ call.op = "respond" /\ provider.stream,
                history |-> call.history,
                stdin |-> provider.by # "llmlint",
                session |-> provider.by = "oneharness" /\ r # "plain",
                control |-> r = "controlled",
                note |-> supervisor_reask_note,
                big |-> big]
  /\ at' = IF provider.library THEN "running" ELSE "attempt"
  /\ NothingRun

Unavailable(p) == [party EXCEPT ![p].outcome = "unavailable"]

EnterLadder ==
  /\ at = "ladder"
  /\ Attempt(FirstRung)
  /\ party' = IF Controllable(call) /\ control_platform_reason
              THEN Unavailable(PartyOf(call.op)) ELSE party
  /\ UNCHANGED <<shown, provider, calls, call, loops, judge_record, link, telemetry,
                 answer, last>>

(* The rung below the one that was refused, if it was a refusal.             *)
NextRung(words) ==
  CASE rung = "controlled" /\ words = "control" -> "session"
    [] rung # "plain" /\ words = "session"      -> "plain"
    [] OTHER                                    -> "none"

-----------------------------------------------------------------------------
(* In process there is no child: the engine hands its events to the sink and *)
(* returns a report or its own refusal. A sink that stopped it ends the turn *)
(* whatever it returns.                                                      *)

LibraryEvent ==
  /\ at = "running" /\ spec.stream /\ outcome = "none"
  /\ child.lines < MAX_LINES[spec.op]
  /\ child' = [child EXCEPT !.lines = @ + 1]
  /\ \E line \in Written[spec.op] \cap (Actions \cup {"history"}) :
       /\ Hear(line)
       /\ \/ UNCHANGED outcome
          \/ Observed(line) /\ outcome' = "aborted"
  /\ UNCHANGED <<at, spec, out, recorded, got, provider, calls, call, rung, loops, kept,
                 answer, last>>

LibraryReturns ==
  /\ at = "running"
  /\ at' = "back"
  /\ got' \in IF outcome = "aborted" THEN {Got("aborted", NoReport, 0, "nothing")}
              ELSE {Got("output", d, 0, "nothing") : d \in Writable} \cup
                   {Failed(words) : words \in {"nothing"} \cup
                      (IF child.lines = 0 /\ spec.session THEN {"session"} ELSE {}) \cup
                      (IF child.lines = 0 /\ spec.control THEN {"control"} ELSE {})}
  /\ UNCHANGED <<spec, process, shown, provider, calls, call, rung, loops, kept, answer, last>>

-----------------------------------------------------------------------------
(* What an attempt came to. A readable report is recorded before its failure *)
(* is surfaced.                                                              *)

Reported ==
  got.is = "output" /\ got.report # NoReport /\ R!readable(got.report)

Turn(report) == [is |-> "turn", report |-> report, words |-> "nothing"]
Wrong(words) == [is |-> "error", report |-> NoReport, words |-> words]

(* A oneharness report is the turn of its candidate whatever its process     *)
(* exited with, unless it was streamed. Output that is no report leaves what *)
(* a failed process said of itself.                                          *)
OfOneharness ==
  CASE got.is \in {"error", "unwritten"} -> Wrong(got.words)
    [] got.is = "aborted" -> IF call.op = "respond"
                             THEN [is |-> "aborted", report |-> NoReport, words |-> "nothing"]
                             ELSE Wrong("nothing")
    [] got.is = "output" /\ ~Reported ->
         Wrong(IF got.code = 0 THEN "nothing" ELSE got.words)
    [] Reported /\ R!failed(got.report) # R!None -> Wrong("nothing")
    [] Reported /\ R!failed(got.report) = R!None /\ spec.stream /\ got.code # 0 ->
         Wrong(got.words)
    [] Reported /\ R!failed(got.report) = R!None /\ ~(spec.stream /\ got.code # 0) ->
         Turn(got.report)

(* A command answers with one object and a clean exit, or not at all.        *)
OfCommand ==
  IF got.is = "output" /\ got.code = 0 /\ Reported THEN Turn(got.report) ELSE Wrong("nothing")

(* A lint run decides by its exit, if it says anything.                      *)
OfLlmlint ==
  IF got.is = "output" /\ got.code \in {0, 1} /\ Reported THEN Turn(got.report)
  ELSE Wrong("nothing")

Came ==
  CASE provider.by = "oneharness" -> OfOneharness
    [] provider.by = "command"    -> OfCommand
    [] provider.by = "llmlint"    -> OfLlmlint

(* record: the telemetry, and the socket and redirect the report names for   *)
(* the party whose turn it was, if control was asked for.                    *)
RecordedTelemetry ==
  IF provider.by = "oneharness" /\ Reported
  THEN [usage |-> telemetry.usage + R!usage(got.report),
        tools |-> telemetry.tools + Len(tool_events(R!actions(got.report)))]
  ELSE telemetry

RecordedParty ==
  IF provider.control /\ Reported /\ call.op \in {"respond", "supervisor"}
  THEN [party EXCEPT ![PartyOf(call.op)].socket = R!control_socket(got.report),
                     ![PartyOf(call.op)].redirected = R!was_redirected(got.report)]
  ELSE party

(* A supervisor decision keeps the events of the reports it was made of.     *)
RecordedEvents ==
  IF Evaluates(call) /\ call.op = "supervisor" /\ Came.is = "turn"
  THEN [posture |-> provider.posture # "unknown",
        events |-> judge_record.events +
                   IF AsksEvents THEN Len(tool_events(R!actions(got.report))) ELSE 0]
  ELSE judge_record

(* control_address: the socket the report named is taken as the address.     *)
AddressTaken(parties, p) ==
  [parties EXCEPT ![p].outcome = IF parties[p].socket THEN "open" ELSE "unavailable",
                  ![p].socket = FALSE]

(* A run of llmlint that came to an end is on the telemetry and linked.      *)
LinkAfter == link \/ (provider.by = "llmlint" /\ got.is = "output")

Recorded ==
  /\ telemetry' = RecordedTelemetry
  /\ judge_record' = RecordedEvents
  /\ link' = LinkAfter

(* Mutant: a harness without sessions loses its address without a word.      *)
DowngradedQuietly ==
  IF rung = "controlled" /\ Came.words = "control" THEN Unavailable(PartyOf(call.op)) ELSE party

(* A controlled turn that was refused leaves its party without an address, *)
(* and the run below it says so.                                           *)
Downgraded ==
  IF rung = "controlled" THEN Unavailable(PartyOf(call.op)) ELSE party

Retry ==
  /\ at = "back" /\ Came.is = "error" /\ NextRung(Came.words) # "none"
  /\ Attempt(NextRung(Came.words))
  /\ Recorded
  /\ party' = Downgraded
  /\ UNCHANGED <<shown, provider, calls, call, loops, answer, last>>

(* The call is over, and with it every handle on its process, in whatever    *)
(* state that is.                                                            *)
Over(a) ==
  /\ at' = "idle" /\ answer' = a
  /\ ask' = 0 /\ reask' = "none" /\ tried' = 0 /\ used' = 0 /\ total' = 0
  /\ spec' = NoSpec /\ rung' = "plain" /\ got' = Pending
  /\ child' = [NoChild EXCEPT !.at = child.at]
  /\ out' = <<>> /\ heard' = <<>> /\ outcome' = "none"
  /\ UNCHANGED <<recorded, provider, calls, call>>

Fail ==
  /\ at = "back" /\ Came.is = "error" /\ NextRung(Came.words) = "none"
  /\ Recorded /\ party' = RecordedParty
  /\ Over(IF got.is = "unwritten" THEN [Error EXCEPT !.said = "unwritten"] ELSE Error)
  /\ UNCHANGED <<shown, last>>

(* How the turn that answered was run, for the address its party reports.    *)
Answered ==
  /\ at = "back" /\ Came.is # "error"
  /\ Recorded
  /\ party' = IF rung = "controlled" THEN AddressTaken(RecordedParty, PartyOf(call.op))
              ELSE RecordedParty
  /\ last' = IF Controllable(call) THEN [last EXCEPT ![PartyOf(call.op)] = rung] ELSE last

Reply == R!reply(got.report)
Usage == R!usage(got.report)

(* What was not shown live is shown now, as far as the observer will look.   *)
Replayed(acts) == {SubSeq(acts, 1, n) : n \in IF acts = <<>> THEN {0} ELSE 1 .. Len(acts)}

assistant_turn ==
  [is |-> "turn", usage |-> Usage, said |-> "reply",
   events |-> tool_events(R!actions(got.report))]

(* A worker's turn. *)
Worked ==
  /\ call.op = "respond" /\ Answered
  /\ IF Came.is = "aborted"
     THEN /\ UNCHANGED shown
          /\ Over([NoAnswer EXCEPT !.is = "aborted", !.events = tool_events(heard)])
     ELSE /\ IF spec.stream THEN UNCHANGED shown
             ELSE shown' \in Replayed(R!actions(got.report))
          /\ Over(assistant_turn)

-----------------------------------------------------------------------------
(* A judge's answer. Where an oneharness may look at the tree its last line  *)
(* may be a request to; the usage of each such exchange is the answer's.     *)

Evidence(git) ==
  IF provider.by = "oneharness" /\ call.evidence
  THEN resolve_evidence_request(Reply, call.worktree, git) ELSE "answer"

Look ==
  /\ call.op # "respond" /\ Answered
  /\ \E git \in BOOLEAN :
       /\ Evidence(git) # "answer"
       /\ IF tried = EVIDENCE_TOOL_RETRY_LIMIT
          THEN Over(Error)
          ELSE /\ tried' = tried + 1 /\ used' = used + Usage
               /\ at' = "ladder" /\ NothingRun
               /\ UNCHANGED <<spec, provider, calls, call, rung, ask, reask, total,
                              answer>>
  /\ UNCHANGED shown

(* Mutant: only the last exchange of an ask is accounted for. *)
FinishedWithTheLast(is, said) ==
  Over([is |-> is, usage |-> total + Usage, events |-> <<>>, said |-> said])

(* What every exchange with the judge spent is the answer's. *)
Finished(is, said) ==
  Over([is |-> is, usage |-> total + used + Usage, events |-> <<>>, said |-> said])

(* What a supervisor decided, as a lint run says it and as a judge does. *)
supervisor_outcome == parse_supervisor(Reply)
Decision ==
  IF provider.by = "llmlint" THEN IF got.code = 0 THEN "completed" ELSE "continue"
  ELSE supervisor_outcome

(* supervise_with_reask: an answer that cannot be used is asked for again a  *)
(* bounded number of times, and is then the answer. On the command seam what *)
(* is in neither shape is an error, and what cannot be used after a lost     *)
(* turn is not asked for again.                                              *)
AsksAgain ==
  /\ Decision \in Reask
  /\ ask < SUPERVISOR_REASK_LIMIT
  /\ ~(provider.by = "command" /\ call.lost)

Supervised ==
  /\ call.op = "supervisor" /\ Answered
  /\ \E git \in BOOLEAN : Evidence(git) = "answer"
  /\ \/ provider.by = "command" /\ Decision = "unparseable" /\ Over(Error)
     \/ /\ ~(provider.by = "command" /\ Decision = "unparseable")
        /\ IF AsksAgain
           THEN /\ ask' = ask + 1 /\ reask' = Decision
                /\ total' = total + used + Usage /\ used' = 0 /\ tried' = 0
                /\ at' = "ladder" /\ NothingRun
                /\ UNCHANGED <<spec, provider, calls, call, rung, answer>>
           ELSE Finished("decision", Decision)
  /\ UNCHANGED shown

Scored ==
  /\ call.op \in {"judge", "assess", "user"} /\ Answered
  /\ \E git \in BOOLEAN : Evidence(git) = "answer"
  /\ CASE call.op = "user"   -> Finished("reply", "reply")
       [] call.op = "assess" -> IF Reply.blank THEN Over(Error) ELSE Finished("assessment", "text")
       [] call.op = "judge" /\ provider.by = "llmlint" -> Finished("verdict", "bool")
       [] call.op = "judge" /\ provider.by # "llmlint" ->
            IF parse_verdict(call.kind, Reply) = "error" THEN Over(Error)
            ELSE Finished("verdict", Reply.value)
  /\ UNCHANGED shown

-----------------------------------------------------------------------------
(* Between calls: reset_telemetry at the start of a run, which also forgets  *)
(* what either party could say about control, and a panel taking what a      *)
(* decision recorded.                                                        *)

reset_telemetry ==
  /\ at = "idle"
  /\ calls' = 0 /\ call' = NoCall /\ answer' = NoAnswer
  /\ NothingRun
  /\ telemetry' = NothingRecorded /\ shown' = <<>>
  /\ party' = [p \in Parties |-> Silent]
  /\ judge_record' = NoRecord
  /\ last' = [p \in Parties |-> "none"]
  /\ UNCHANGED <<at, spec, provider, rung, loops, link>>

(* take_judge_link takes it all, take_judge_tools only the events.           *)
TakeRecord ==
  /\ at = "idle"
  /\ judge_record' \in {NoRecord, [judge_record EXCEPT !.events = 0]}
  /\ link' \in {link, FALSE}
  /\ UNCHANGED <<at, spec, process, got, shown, provider, calls, call, rung, loops, party,
                 telemetry, answer, last>>

callVars == <<provider, calls, call, rung, loops, kept, answer, last>>

ParentStep ==
  \/ ProcessStep /\ UNCHANGED callVars
  \/ EnterLadder \/ LibraryEvent \/ LibraryReturns
  \/ Retry \/ Fail \/ Worked \/ Look \/ Supervised \/ Scored

Next ==
  \/ Begin \/ reset_telemetry \/ TakeRecord
  \/ ParentStep
  \/ ChildStep /\ UNCHANGED callVars

Spec == Init /\ [][Next]_vars

(* The calling thread goes on while it can, and so does a write for which    *)
(* there is room. Nothing else is assumed of the child, nothing of a write   *)
(* to it, nor of the engine in process.                                      *)
FairSpec ==
  /\ Spec
  /\ WF_vars(ProcessStep /\ at # "writing" /\ UNCHANGED callVars)
  /\ WF_vars(ChildGoesOn /\ UNCHANGED callVars)
===============================================================================
