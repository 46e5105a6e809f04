------------------------- MODULE JudgePanelProperties ------------------------
(***************************************************************************)
(* What a panel of judges owes the engine that calls it, the observer of a *)
(* streaming run, and the reader of the run's record.                      *)
(***************************************************************************)
EXTENDS JudgePanel

(* JudgePanel::each and supervise_observing: "nothing is left running       *)
(* unseen". Whether a call answers, fails or panics, and whichever judge    *)
(* was slow, no judge's thread outlives it.                                 *)
EveryJudgeAwaited ==
  caller \in {"idle", "answered", "unwound"} =>
    \A j \in Judges : at[j] \notin {"running", "asking"}

(* A Break ends the observer's part: a judge that asks later is told so     *)
(* without the observer, which has already ended the run, being asked.      *)
NotAskedAfterBreak ==
  \A i \in DOMAIN seen : seen[i] = "break" => i = Len(seen)

(* "Each candidate waits for acknowledgement before it can publish any      *)
(* events": a judge that goes on does so because the observer saw each of   *)
(* the candidates it began and let it through. A stopped run, a receiver    *)
(* that is gone or a reply that never came is not a permission.             *)
EveryCandidateWasSeen ==
  \A j \in Judges :
    at[j] = "running" /\ flow[j] # "break" => begun[j] = allowed[j]

(* docs/judges.md, "How a panel decides". "A judge that could not run is    *)
(* never read as a pass": an operation with a failed judge fails, naming    *)
(* the first of them in list order. A completion speaks for every judge;    *)
(* an instruction carries the words of those who withheld theirs and of     *)
(* nobody else; a boolean pass is unanimous; a score is the lowest given.   *)
FailedJudges == {j \in Selected(op) : result[j] = Failed}
Withheld == {j \in Judges : result[j].is # "Completed"}
FailedFirst(j) == j \in FailedJudges /\ \A k \in FailedJudges : j <= k

AnswerSpeaksForAll ==
  caller = "answered" =>
    /\ FailedJudges # {} => answer.is = "error" /\ \E j \in answer.by : FailedFirst(j)
    /\ answer.is = "Completed" => Withheld = {}
    /\ answer.is \in {"Continue", "NoInstruction", "Unparseable"} => Withheld # {}
    /\ Multi /\ answer.is = "Continue" => answer.by = Withheld
    /\ Multi /\ answer.is = "Unparseable" => answer.by = Withheld
    /\ answer.is = "yes" => \A j \in Selected(op) : result[j].is = "yes"
    /\ answer.is = "number" =>
         /\ \A j \in Selected(op) : result[j].is = "number" /\ answer.n <= result[j].n
         /\ \E j \in Selected(op) : answer.n = result[j].n

(* JudgedTurn: "one per supervisor turn". However often the decision on a   *)
(* turn is taken again, the record holds one entry for it, in turn order,   *)
(* with a decision of every judge, in list order, for every attempt.        *)
OneEntryPerTurn ==
  /\ \A i, k \in DOMAIN record : i < k => record[i].turn < record[k].turn
  /\ \A i \in DOMAIN record :
       LET entry == record[i].decisions
       IN  /\ Len(entry) > 0 /\ Len(entry) % size = 0
           /\ \A d \in DOMAIN entry : entry[d].judge = 1 + ((d - 1) % size)

(* Every decision on a run's record was taken in that run, on the turn it   *)
(* is recorded under: none of an earlier run, or of a call that was stopped *)
(* before its decisions were drained, is ever reported as this run's.       *)
RecordIsThisRuns ==
  \A i \in DOMAIN record : \A d \in DOMAIN record[i].decisions :
    record[i].decisions[d].taken = [run |-> run, turn |-> record[i].turn]

(* A call ends once its judges' providers have: no judge waits on the       *)
(* caller for a reply while the caller waits on it, and the receiving loop  *)
(* ends when the last judge drops its sender.                               *)
CallsEnd == caller \in {"receiving", "joining", "unwinding"} ~> caller \in {"answered", "unwound"}

-----------------------------------------------------------------------------
(* Why they hold: the inductive invariant.                                  *)

(* A judge's thread lives within the call that spawned it, and waits for a  *)
(* reply only while the caller is there to give one.                        *)
ThreadsInCall ==
  \A j \in Judges :
    /\ at[j] \in {"running", "asking"} =>
         j \in Selected(op) /\ caller \in {"receiving", "joining", "unwinding"}
    /\ at[j] = "asking" => caller = "receiving"

(* The channel holds the requests of judges that wait, one each.            *)
RequestsAreAsked ==
  /\ caller # "receiving" => requests = <<>>
  /\ \A i \in DOMAIN requests : at[requests[i]] = "asking"
  /\ \A i, k \in DOMAIN requests : requests[i] = requests[k] => i = k

(* A judge is told to stop only by a stopped or finished receiving loop; one *)
(* that was not has begun what it was let through, and what it asks about.  *)
FlowsAreAnswers ==
  \A j \in Judges :
    /\ flow[j] = "break" => stopped \/ caller # "receiving"
    /\ flow[j] # "break" => begun[j] = allowed[j] + (IF at[j] = "asking" THEN 1 ELSE 0)

BreakIsHeard == ~stopped => \A i \in DOMAIN seen : seen[i] # "break"

(* What a judge returned fits the operation, and an answered call's answer  *)
(* is the combination of what every selected judge returned.                *)
ResultsFit == \A j \in Judges : at[j] = "returned" => result[j] \in ResultsOf(op)
AnswerIsCombined ==
  caller = "answered" =>
    answer = Combined(op) /\ \A j \in Selected(op) : at[j] = "returned"

(* What waits to be drained was decided on this turn of this run.           *)
DecisionsAreThisTurns ==
  \A d \in DOMAIN decisions : decisions[d].taken = [run |-> run, turn |-> turn]

(* Decisions come in whole calls, each with every judge in list order, and  *)
(* the record's entries in turn order, none of a turn still to come.        *)
InCalls(taken) ==
  /\ \E k \in 0 .. Len(taken) : Len(taken) = k * size
  /\ \A d \in DOMAIN taken : \E q \in 0 .. Len(taken) : d = q * size + taken[d].judge

RecordedInCalls ==
  /\ InCalls(decisions)
  /\ \A i \in DOMAIN record :
       /\ record[i].decisions # <<>> /\ InCalls(record[i].decisions) /\ record[i].turn <= turn
       /\ \A k \in DOMAIN record : i < k => record[i].turn < record[k].turn

PanelInv ==
  /\ ThreadsInCall /\ RequestsAreAsked /\ FlowsAreAnswers
  /\ BreakIsHeard /\ NotAskedAfterBreak
  /\ ResultsFit /\ AnswerIsCombined
  /\ DecisionsAreThisTurns /\ RecordIsThisRuns

-----------------------------------------------------------------------------
(* docs/judges.md: the panel "exposes them through take_judge_decisions,    *)
(* which the engine drains after every supervisor call, Ok or Err".         *)
DrainedAfterEveryCall == caller = "idle" => decisions = <<>>
=============================================================================
