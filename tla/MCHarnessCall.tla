---------------------------- MODULE MCHarnessCall -----------------------------
(* Instances of HarnessCall for model checking. *)
EXTENDS HarnessCallProperties, TLC

Text == [tool |-> "absent", completion |-> "absent", reason |-> FALSE, message |-> "absent",
         value |-> "absent", blank |-> FALSE]
Blank     == [Text EXCEPT !.blank = TRUE]
Request   == [Text EXCEPT !.tool = "exact"]
Unknown   == [Text EXCEPT !.tool = "odd"]
Done      == [Text EXCEPT !.completion = "true", !.reason = TRUE]
Instruct  == [Text EXCEPT !.completion = "false", !.message = "text"]
Wordless  == [Text EXCEPT !.completion = "false", !.message = "blank"]
Verdict   == [Text EXCEPT !.value = "bool"]
Score     == [Text EXCEPT !.value = "number"]

Ran(reply, usage, events) ==
  [id |-> "h1", status |-> "ok", kind |-> R!None, reply |-> reply, usage |-> usage,
   events |-> events]
Skipped == [Ran(Text, 0, <<>>) EXCEPT !.id = "h0", !.kind = "quota", !.status = "nonzero"]
TimedOut == [Ran(Text, 1, <<>>) EXCEPT !.status = "timeout"]

Report(results) ==
  [results |-> results, fallback |-> R!NoFallback, socket |-> FALSE, redirected |-> FALSE]

(* A chain that fell through to its second candidate, one none of whose      *)
(* candidates ran, and one that names a candidate without its result.        *)
Chain(result) ==
  [Report(<<Skipped, result>>) EXCEPT !.fallback =
     R!Fallback("h1", <<[id |-> "h0", reason |-> "quota"]>>)]
Exhausted ==
  [Report(<<Skipped>>) EXCEPT !.fallback =
     R!Fallback(R!None, <<[id |-> "h0", reason |-> "quota"]>>)]
Hollow == [Report(<<>>) EXCEPT !.fallback = R!Fallback("h1", <<>>)]

Broken == {Report(<<TimedOut>>), Exhausted, Hollow}

WorkerReports ==
  {Report(<<Ran(Text, 1, <<"words", "tool">>)>>), Chain(Ran(Text, 0, <<"tool">>))}
JudgeReports ==
  {Report(<<Ran(r, 1, <<"tool">>)>>) : r \in {Done, Wordless, Text, Request}} \cup
  {Chain(Ran(Instruct, 1, <<"tool">>)), Report(<<Ran(Unknown, 1, <<"tool">>)>>)}

WithSocket(reports) == {[r EXCEPT !.socket = TRUE] : r \in reports}
Redirected(reports) == {[r EXCEPT !.redirected = TRUE, !.socket = TRUE] : r \in reports}

Command(replies) == {Report(<<Ran(r, 1, <<>>)>>) : r \in replies}

MCDocuments ==
  [asked \in {"oneharness", "command", "llmlint"} \X
             {"respond", "supervisor", "user", "judge", "assess"} |->
     CASE asked = <<"oneharness", "respond">> ->
            Broken \cup WorkerReports \cup WithSocket(WorkerReports \cup {Report(<<TimedOut>>)})
       [] asked = <<"oneharness", "supervisor">> ->
            Broken \cup JudgeReports \cup WithSocket({Report(<<Ran(Done, 1, <<"tool">>)>>)})
              \cup Redirected({Report(<<Ran(Text, 1, <<"tool">>)>>)})
       [] asked = <<"oneharness", "judge">> ->
            {Report(<<Ran(r, 1, <<>>)>>) : r \in {Verdict, Score, Request, Unknown}}
       [] asked = <<"oneharness", "assess">> ->
            {Report(<<Ran(r, 1, <<>>)>>) : r \in {Text, Blank, Request}}
       [] asked[1] = "oneharness" /\ asked[2] = "user" -> {Report(<<Ran(Text, 1, <<>>)>>)}
       [] asked[1] = "command" -> Command({Text, Blank, Done, Instruct, Wordless, Verdict, Score})
       [] asked[1] = "llmlint" -> Command({Text})]

(* A judge's stream is only watched for its start: what it does is one line. *)
MCWritten == [respond |-> Lines, supervisor |-> Lines \ {"words"}]
MCMaxLines == [respond |-> 3, supervisor |-> 2]

Ask(op) == [NoCall EXCEPT !.op = op]
InSession(op) == [Ask(op) EXCEPT !.session = TRUE]
Decide == [InSession("supervisor") EXCEPT !.worktree = TRUE, !.evidence = TRUE]
Judge(op) == [Ask(op) EXCEPT !.worktree = TRUE, !.evidence = TRUE]

Watched(c) == [c EXCEPT !.history = TRUE]

OfHarness ==
  [by |-> "oneharness", library |-> FALSE, unix |-> TRUE, control |-> FALSE, stream |-> FALSE,
   posture |-> "read_only", judge_events |-> "unset"]

Controlled == [OfHarness EXCEPT !.control = TRUE, !.stream = TRUE, !.posture = "writable"]
InProcess == [Controlled EXCEPT !.library = TRUE]
NoSockets == [InProcess EXCEPT !.unix = FALSE, !.stream = FALSE, !.judge_events = "off"]
OfCommand_ == [OfHarness EXCEPT !.by = "command"]
OfLlmlint_ == [OfHarness EXCEPT !.by = "llmlint"]

MCProviders == {Controlled, OfHarness, InProcess, NoSockets, OfCommand_, OfLlmlint_}

MCCalls ==
  [p \in MCProviders |->
     CASE p \in {Controlled, InProcess} -> {Watched(InSession("respond")), Decide}
       [] p = OfHarness ->
            {Ask("respond"), InSession("respond"), Watched(Decide), Judge("judge"),
             Judge("assess"), InSession("user")}
       [] p = NoSockets -> {InSession("respond"), [Decide EXCEPT !.evidence = FALSE]}
       [] p = OfCommand_ ->
            {InSession("respond"), InSession("supervisor"),
             [InSession("supervisor") EXCEPT !.lost = TRUE], Ask("judge"),
             [Ask("judge") EXCEPT !.kind = "numeric"],
             [Ask("judge") EXCEPT !.kind = "numeric", !.scale = TRUE], Ask("assess"),
             InSession("user")}
       [] p = OfLlmlint_ ->
            {Ask("respond"), InSession("supervisor"), Judge("judge"), Ask("judge")}]
===============================================================================
