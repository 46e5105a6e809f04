------------------------ MODULE HarnessCallProperties -------------------------
(***************************************************************************)
(* What a provider call must not do to the processes it starts, to whoever  *)
(* observes it and to the run's account of it.                              *)
(***************************************************************************)
EXTENDS HarnessCall

(* A call that is over has left no process of its own behind, however it     *)
(* ended - refused by the hook, abandoned, malformed, failed - but the one   *)
(* whose request could not be written (command.rs:424, spawn.rs:258,         *)
(* `terminate`). The observer is one that returns: one that panics inside    *)
(* `read_stream` (mod.rs:1282) unwinds past the teardown, which is not       *)
(* modelled.                                                                 *)
NoChildLeftBehind ==
  /\ at = "idle" /\ answer.said # "unwritten" => child.at \in {"none", "reaped"}
  /\ child.at # "none" /\ at # "grouping" => recorded \/ provider.library
  /\ child.at = "none" => ~recorded

(* A party's address is the one its last answered turn was controlled at: a  *)
(* later turn that ran without control, and a new run, take it away          *)
(* (`control_address`, `control_unavailable`, `reset_telemetry`).            *)
OpenAddressIsFresh ==
  at = "idle" =>
    \A p \in Parties :
      /\ party[p].outcome = "open" => last[p] = "controlled"
      /\ last[p] \in {"session", "plain"} => party[p].outcome = "unavailable"

(* When a call is answered, its usage is what every report recorded for it   *)
(* spent, through every refusal, evidence request and re-ask; a decision's   *)
(* record holds every tool its reports used; the report answered from is one *)
(* that ran; and a link left for the panel is that of this call's lint run.  *)
AnswerAccounts ==
  at = "back" /\ at' = "idle" =>
    /\ answer'.is # "error" =>
         /\ provider.by = "oneharness" => answer'.usage = telemetry'.usage
         /\ answer'.is = "decision" /\ Evaluates(call) /\ AsksEvents
              => judge_record'.events >= telemetry'.tools
         /\ answer'.is # "aborted" => R!result(got.report).status \in {"ok", "nonzero"}
    /\ provider.by = "llmlint" => (link' <=> got.is = "output")

AnswersAccountForReports == [][AnswerAccounts]_vars

(* A call keeps what it promises its observer, whichever seam runs it.       *)
Turn_ == INSTANCE TurnContract WITH
  phase <- IF at = "idle" THEN "over" ELSE IF outcome = "aborted" THEN "stopped" ELSE "open",
  answer <- [is |-> answer.is, events |-> answer.events]

KeepsTurnContract == Turn_!Spec

(* Past the write of its request no child is left waiting for room in a      *)
(* pipe: whichever pipe it is stuck on, whatever it wrote to the other, and  *)
(* however the stream ended meanwhile, somebody reads that pipe or its read  *)
(* end is dropped, and the child is never waited for in its place (the       *)
(* thread that drains stderr and `drop(reading)` of mod.rs:1268-1286,        *)
(* `read_eof`, wait_with_output, `Running::finish`).                         *)
Stuck == child.at \in Blocked
StuckChildrenGoOn ==
  (Stuck /\ at # "writing") ~> (~Stuck \/ at \in {"writing", "back", "idle"})

(* A child whose turn was abandoned or malformed is dealt with, however it   *)
(* answers the closed pipe and the signal; so is one that reported, once it  *)
(* exits: until then it is waited for with no grace, signal or kill          *)
(* (mod.rs:1287-1294). In both cases a process the child left behind may     *)
(* keep its stderr open, and with it the call (`terminate`, mod.rs:267).     *)
EndedTurnsLetGo ==
  (at \in Closed /\ (outcome = "report" => child.at \notin Alive))
    ~> (at \notin Closed \/ (at = "joining" /\ "err" \in child.open))
===============================================================================
