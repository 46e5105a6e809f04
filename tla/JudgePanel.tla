------------------------------ MODULE JudgePanel -----------------------------
(***************************************************************************)
(* JudgePanel (src/crates/onejudge/src/panel.rs): the judge side of a run  *)
(* as a list of judges, each driven on a thread of its own for every       *)
(* judge-side operation, all of them awaited, and their answers combined   *)
(* into one. A streaming supervise also lets every judge ask the caller's  *)
(* observer before each of its candidates publishes anything: the request  *)
(* goes over an mpsc channel with a rendezvous channel for the reply.      *)
(*                                                                         *)
(* The engine's side is what it does with the panel between calls: it      *)
(* drains the decisions recorded onto the current turn, may call again on  *)
(* the same turn, and drops what it did not drain when a run starts.       *)
(***************************************************************************)
EXTENDS Naturals, Sequences, FiniteSets

CONSTANTS
  Sizes,          \* the panel sizes considered
  Numeric,        \* judges that can answer a numeric query
  Prose,          \* judges that can write an assessment
  Scores,         \* the scores a numeric verdict may carry
  MaxBegun,       \* candidates one judge may start in one call
  MaxTurns,       \* supervisor turns considered in one run
  MaxCalls,       \* calls considered altogether, per panel size
  ObserverStops,  \* the observer may answer Break
  ObserverPanics, \* the observer may panic
  JudgesPanic     \* a judge's provider may panic

ASSUME PanelAssumption ==
  /\ Sizes \subseteq Nat \ {0}
  /\ Scores \subseteq Nat
  /\ MaxBegun \in Nat /\ MaxTurns \in Nat
  /\ \A n \in Sizes : MaxCalls[n] \in Nat

VARIABLES
  size,      \* how many judges the panel holds
  op,        \* the operation under way
  caller,    \* the calling thread
  at,        \* each judge's thread
  begun,     \* candidates each judge has started in this call
  result,    \* what each judge's provider returned
  requests,  \* judges whose request is in the channel, in order
  flow,      \* the last reply each judge was given
  stopped,   \* the observer answered Break during this call
  decisions, \* the panel's record of decisions not yet drained
  answer,    \* the combined answer of the last call
  run,       \* the engine's current run
  turn,      \* the engine's current turn
  over,      \* the engine's run is over
  record,    \* the engine's judge_decisions: turn and decisions, in order
  calls,     \* history: calls made
  seen,      \* history: the observer's answers in this call, in order
  allowed    \* history: candidates of each judge it let through in this call

threads == <<at, begun, result, requests, flow>>
engine  == <<run, turn, over, record>>
history == <<calls, seen, allowed>>
vars == <<size, op, caller, threads, stopped, decisions, answer, engine, history>>

Judges == 1 .. size
Multi == size > 1

Supervises == {"supervise", "supervise_observing"}
Ops == Supervises \cup {"judge_boolean", "judge_numeric", "assess"}

Outcomes == {"Completed", "Continue", "NoInstruction", "Unparseable"}
NoResult == [is |-> "none", n |-> 0]
Failed   == [is |-> "error", n |-> 0]

(* What a judge's provider may return from each operation. *)
ResultsOf(o) ==
  {Failed} \cup
  CASE o \in Supervises      -> [is : Outcomes, n : {0}]
    [] o = "judge_boolean"   -> [is : {"yes", "no", "mistyped"}, n : {0}]
    [] o = "judge_numeric"   -> [is : {"number"}, n : Scores] \cup [is : {"mistyped"}, n : {0}]
    [] o = "assess"          -> [is : {"text"}, n : {0}]

(* The judges an operation selects: every judge supervises and judges a     *)
(* boolean; only the able ones score or write.                              *)
Selected(o) == CASE o = "judge_numeric" -> Judges \cap Numeric
                 [] o = "assess"        -> Judges \cap Prose
                 [] OTHER               -> Judges

Finished(j) == at[j] \in {"returned", "panicked"}
AllFinished == \A j \in Selected(op) : Finished(j)

-----------------------------------------------------------------------------
(* Combining results: an answer is what it says and whose words it carries. *)

Says(o, S) == {j \in Selected(o) : result[j].is \in S}
FirstOf(S) == {CHOOSE j \in S : \A k \in S : j <= k}

Invalid == [is |-> "invalid", n |-> 0, by |-> {}]
Error(S) == [is |-> "error", n |-> 0, by |-> FirstOf(S)]
Answer(is, S) == [is |-> is, n |-> 0, by |-> S]

Verbatim(o) == LET j == CHOOSE j \in Selected(o) : TRUE
               IN  [is |-> result[j].is, n |-> result[j].n, by |-> {j}]

(* combine_supervision, once no judge failed and there are several. *)
CombinedSupervision(o) ==
  LET all == Selected(o) IN
  IF Says(o, {"Completed"}) = all THEN Answer("Completed", all)
  ELSE IF Says(o, {"Continue"}) # {} THEN Answer("Continue", all \ Says(o, {"Completed"}))
  ELSE IF Says(o, {"NoInstruction"}) # {} THEN Answer("NoInstruction", all)
  ELSE Answer("Unparseable", Says(o, {"Unparseable"}))

(* judge_across: the conjunction, or the minimum, of verdicts of the right  *)
(* type.                                                                    *)
Lowest(o) == LET scores == {result[j].n : j \in Selected(o)}
             IN  CHOOSE s \in scores : \A t \in scores : s <= t

CombinedVerdict(o) ==
  IF Says(o, {"mistyped"}) # {} THEN Error(Says(o, {"mistyped"}))
  ELSE IF o = "judge_numeric"
       THEN [is |-> "number", n |-> Lowest(o), by |-> Selected(o)]
       ELSE Answer(IF Says(o, {"no"}) = {} THEN "yes" ELSE "no", Selected(o))

(* Mutant: whoever answered carries the call; a failed judge is left out. *)
CombinedIgnoringFailures(o) ==
  IF Selected(o) = {} THEN Invalid
  ELSE IF ~Multi THEN Verbatim(o)
  ELSE IF o \in Supervises THEN CombinedSupervision(o)
  ELSE IF o = "assess" THEN Answer("text", Selected(o))
  ELSE CombinedVerdict(o)

Combined(o) ==
  IF Selected(o) = {} THEN Invalid
  ELSE IF ~Multi THEN Verbatim(o)
  ELSE IF Says(o, {"error"}) # {} THEN Error(Says(o, {"error"}))
  ELSE IF o \in Supervises THEN CombinedSupervision(o)
  ELSE IF o = "assess" THEN Answer("text", Selected(o))
  ELSE CombinedVerdict(o)

(* Mutant: judges are counted from zero. *)
DecisionsFromZero ==
  [j \in Judges |-> [judge |-> j - 1, says |-> result[j].is, taken |-> [run |-> run, turn |-> turn]]]

(* One decision per judge, in list order, a failed one included.            *)
DecisionsOf == [j \in Judges |-> [judge |-> j, says |-> result[j].is, taken |-> [run |-> run, turn |-> turn]]]

-----------------------------------------------------------------------------
NoAnswer == Answer("none", {})

AnswerWords == Outcomes \cup {"error", "invalid", "none", "yes", "no", "mistyped", "number", "text"}
DecisionRecord ==
  [judge : Judges, says : AnswerWords, taken : [run : Nat, turn : Nat]]

TypeOK ==
  /\ size \in Sizes
  /\ op \in Ops
  /\ caller \in {"idle", "receiving", "joining", "unwinding", "answered", "unwound"}
  /\ at \in [Judges -> {"idle", "running", "asking", "returned", "panicked"}]
  /\ begun \in [Judges -> 0 .. MaxBegun]
  /\ result \in [Judges -> [is : AnswerWords, n : Scores \cup {0}]]
  /\ requests \in Seq(Judges)
  /\ flow \in [Judges -> {"none", "continue", "break"}]
  /\ stopped \in BOOLEAN
  /\ decisions \in Seq(DecisionRecord)
  /\ run \in Nat /\ turn \in Nat /\ calls \in Nat
  /\ over \in BOOLEAN
  /\ record \in Seq([turn : Nat, decisions : Seq(DecisionRecord)])
  /\ answer \in [is : AnswerWords, n : Scores \cup {0}, by : SUBSET Judges]
  /\ seen \in Seq({"continue", "break"})
  /\ allowed \in [Judges -> Nat]

Init ==
  /\ size \in Sizes
  /\ op = "supervise"
  /\ caller = "idle"
  /\ at = [j \in Judges |-> "idle"]
  /\ begun = [j \in Judges |-> 0]
  /\ result = [j \in Judges |-> NoResult]
  /\ requests = <<>>
  /\ flow = [j \in Judges |-> "none"]
  /\ stopped = FALSE
  /\ decisions = <<>>
  /\ answer = NoAnswer
  /\ run = 1
  /\ turn = 1
  /\ over = FALSE
  /\ record = <<>>
  /\ calls = 0
  /\ seen = <<>>
  /\ allowed = [j \in Judges |-> 0]

-----------------------------------------------------------------------------
(* The calling thread.                                                      *)

(* Every selected judge's thread is spawned. *)
Call(o) ==
  /\ caller = "idle" /\ calls < MaxCalls[size]
  /\ o \in Supervises => ~over
  /\ op' = o
  /\ calls' = calls + 1
  /\ at' = [j \in Judges |-> IF j \in Selected(o) THEN "running" ELSE "idle"]
  /\ begun' = [j \in Judges |-> 0]
  /\ result' = [j \in Judges |-> NoResult]
  /\ flow' = [j \in Judges |-> "none"]
  /\ stopped' = FALSE
  /\ seen' = <<>>
  /\ allowed' = [j \in Judges |-> 0]
  /\ answer' = NoAnswer
  /\ caller' = IF o = "supervise_observing" THEN "receiving" ELSE "joining"
  /\ UNCHANGED <<size, requests, decisions, engine>>

ObserverAnswers == IF ObserverStops THEN {"continue", "break"} ELSE {"continue"}

(* Mutant: the observer is asked about every candidate. *)
AskedAlways == TRUE

(* The observer is not asked again once it has stopped the run. *)
Asked == ~stopped

Reply(j, f) ==
  /\ flow' = [flow EXCEPT ![j] = f]
  /\ at' = [at EXCEPT ![j] = "running"]

ReceiveRequest ==
  /\ caller = "receiving" /\ requests # <<>>
  /\ requests' = Tail(requests)
  /\ \E f \in IF Asked THEN ObserverAnswers ELSE {"break"} :
       /\ Reply(Head(requests), f)
       /\ stopped' = (stopped \/ f = "break")
       /\ seen' = IF Asked THEN Append(seen, f) ELSE seen
       /\ allowed' = IF f = "continue" THEN [allowed EXCEPT ![Head(requests)] = @ + 1]
                     ELSE allowed
  /\ UNCHANGED <<size, op, caller, begun, result, decisions, answer, engine, calls>>

(* Mutant: a judge whose reply channel is gone goes on. *)
ToldNothing(j) == flow[j]

(* A judge whose request or reply channel is gone takes it for a Break. *)
ToldGone(j) == "break"

(* The observer panics: the receiver and every pending reply are dropped,   *)
(* and the scope waits for the judges before the panic leaves it.           *)
ObserverPanicked ==
  /\ ObserverPanics
  /\ caller = "receiving" /\ requests # <<>> /\ Asked
  /\ caller' = "unwinding"
  /\ requests' = <<>>
  /\ flow' = [j \in Judges |-> IF at[j] = "asking" THEN ToldGone(j) ELSE flow[j]]
  /\ at' = [j \in Judges |-> IF at[j] = "asking" THEN "running" ELSE at[j]]
  /\ UNCHANGED <<size, op, begun, result, stopped, decisions, answer, engine, history>>

(* Mutant: the caller keeps its own sender, so the channel never closes. *)
SenderKept == FALSE

(* Every sender is dropped: the loop over the receiver ends. *)
SendersGone == requests = <<>> /\ AllFinished

ReceiveEnds ==
  /\ caller = "receiving" /\ SendersGone
  /\ caller' = "joining"
  /\ UNCHANGED <<size, op, threads, stopped, decisions, answer, engine, history>>

(* Mutant: the panel answers as soon as one judge has failed. *)
JoinedOrFailed == AllFinished \/ \E j \in Selected(op) : result[j] = Failed

(* Every judge is joined. *)
Joined == AllFinished

Unwinds == caller = "unwinding" \/ \E j \in Selected(op) : at[j] = "panicked"

Join ==
  /\ caller \in {"joining", "unwinding"} /\ Joined
  /\ IF Unwinds
     THEN caller' = "unwound" /\ UNCHANGED <<decisions, answer>>
     ELSE /\ caller' = "answered"
          /\ answer' = Combined(op)
          /\ decisions' = IF op \in Supervises THEN decisions \o DecisionsOf ELSE decisions
  /\ UNCHANGED <<size, op, threads, stopped, engine, history>>

-----------------------------------------------------------------------------
(* A judge's thread.                                                        *)

(* The provider is about to start a candidate and asks first. *)
JudgeAsks(j) ==
  /\ op = "supervise_observing" /\ at[j] = "running" /\ begun[j] < MaxBegun
  /\ begun' = [begun EXCEPT ![j] = @ + 1]
  /\ IF caller = "receiving"
     THEN /\ requests' = Append(requests, j)
          /\ at' = [at EXCEPT ![j] = "asking"]
          /\ UNCHANGED flow
     ELSE flow' = [flow EXCEPT ![j] = ToldGone(j)] /\ UNCHANGED <<requests, at>>
  /\ UNCHANGED <<size, op, caller, result, stopped, decisions, answer, engine, history>>

JudgeReturns(j) ==
  /\ at[j] = "running"
  /\ at' = [at EXCEPT ![j] = "returned"]
  /\ \E r \in ResultsOf(op) : result' = [result EXCEPT ![j] = r]
  /\ UNCHANGED <<size, op, caller, begun, requests, flow, stopped, decisions, answer, engine,
                 history>>

JudgePanicked(j) ==
  /\ JudgesPanic /\ at[j] = "running"
  /\ at' = [at EXCEPT ![j] = "panicked"]
  /\ UNCHANGED <<size, op, caller, begun, result, requests, flow, stopped, decisions, answer,
                 engine, history>>

-----------------------------------------------------------------------------
(* The engine, between calls.                                               *)

(* Mutant: every drain opens an entry of its own. *)
RecordedApart(entries, taken) == Append(entries, [turn |-> turn, decisions |-> taken])

(* record_judge_decisions: a decision re-taken on the same turn joins that  *)
(* turn's entry.                                                            *)
RecordedUnder(entries, taken) ==
  IF taken = <<>> THEN entries
  ELSE IF entries # <<>> /\ entries[Len(entries)].turn = turn
  THEN [entries EXCEPT ![Len(entries)].decisions = @ \o taken]
  ELSE Append(entries, [turn |-> turn, decisions |-> taken])

(* The engine goes on after a supervise: the run may end here; a note that  *)
(* arrived meanwhile has the decision re-taken on this turn; and Continue    *)
(* opens a later turn, or this one again when the worker lost its own.      *)
Drain ==
  /\ caller = "answered" /\ op \in Supervises /\ ~stopped
  /\ record' = RecordedUnder(record, decisions)
  /\ decisions' = <<>>
  /\ caller' = "idle"
  /\ \/ over' = TRUE /\ turn' = turn
     \/ answer.is # "error" /\ over' = FALSE /\ turn' = turn
     \/ answer.is = "Continue" /\ turn < MaxTurns /\ over' = FALSE /\ turn' = turn + 1
  /\ UNCHANGED <<size, op, threads, stopped, answer, run, history>>

(* A history observation stopped the run: drive returns without draining.   *)
StopUndrained ==
  /\ caller = "answered" /\ op \in Supervises /\ stopped
  /\ caller' = "idle"
  /\ over' = TRUE
  /\ UNCHANGED <<size, op, threads, stopped, decisions, answer, run, turn, record, history>>

Scored ==
  /\ caller = "answered" /\ op \notin Supervises
  /\ caller' = "idle"
  /\ UNCHANGED <<size, op, threads, stopped, decisions, answer, engine, history>>

(* Mutant: reset_telemetry without the panel's own decisions. *)
ResetJudgesOnly == decisions

(* reset_telemetry: what was not drained is gone. *)
Reset == <<>>

NewRun ==
  /\ caller \in {"idle", "unwound"} /\ (over \/ caller = "unwound") /\ calls < MaxCalls[size]
  /\ decisions' = Reset
  /\ record' = <<>>
  /\ run' = run + 1
  /\ turn' = 1
  /\ over' = FALSE
  /\ caller' = "idle"
  /\ UNCHANGED <<size, op, threads, stopped, answer, history>>

-----------------------------------------------------------------------------
PanelStep ==
  \/ ReceiveRequest \/ ReceiveEnds \/ Join
  \/ \E j \in Judges : JudgeAsks(j) \/ JudgeReturns(j)

EngineStep == Drain \/ StopUndrained \/ Scored

Rest == caller \in {"idle", "unwound"} /\ UNCHANGED vars

Next ==
  \/ \E o \in Ops : Call(o)
  \/ PanelStep
  \/ ObserverPanicked
  \/ \E j \in Judges : JudgePanicked(j)
  \/ EngineStep \/ NewRun \/ Rest

Spec == Init /\ [][Next]_vars

(* Every thread that can take a step does, and a judge's provider starts    *)
(* only finitely many candidates before it returns.                         *)
Fairness == WF_vars(PanelStep) /\ WF_vars(EngineStep)
FairSpec == Spec /\ Fairness
=============================================================================
