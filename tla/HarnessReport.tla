----------------------------- MODULE HarnessReport ----------------------------
(***************************************************************************)
(* How one `oneharness run` report becomes a turn: which of its results is  *)
(* the turn, and the classified failure it carries instead                  *)
(* (src/crates/onejudge/src/oneharness/report.rs). A report is              *)
(*                                                                          *)
(*   [results, fallback, socket, redirected]                                *)
(*                                                                          *)
(* with one result per candidate attempted, [id, status, kind, reply,       *)
(* usage, events], and a fallback of NoFallback or [ran, fell], where fell  *)
(* is the candidates the chain fell through, [id, reason].                  *)
(***************************************************************************)
EXTENDS ToolEvents, SequencesExt

None == "none"

Statuses == {"ok", "nonzero", "timeout", "cancelled", "spawn_error", "skipped", "planned"}

(* oneharness's failure taxonomy onto onejudge's. What is no environment     *)
(* category of onejudge's stays "other".                                     *)
classify ==
  [auth |-> "auth", rate_limit |-> "rate_limit", server_overloaded |-> "overloaded",
   model_not_found |-> "model_not_found", quota |-> "quota", tool_deferred |-> "other",
   session_not_found |-> "other", untrusted_directory |-> "other",
   input_too_large |-> "other", model_mismatch |-> "other", app_server_lost |-> "other"]

reason_kind ==
  [not_installed |-> "spawn", spawn_error |-> "spawn", auth |-> "auth", quota |-> "quota",
   model_not_found |-> "model_not_found", rate_limit |-> "rate_limit",
   server_overloaded |-> "overloaded", session_not_found |-> "other",
   untrusted_directory |-> "other", input_too_large |-> "other",
   model_mismatch |-> "other", app_server_lost |-> "other"]

status_kind ==
  [timeout |-> "timeout", cancelled |-> "cancelled", spawn_error |-> "spawn",
   skipped |-> "spawn", planned |-> "protocol"]

(* What a report may be, by what a harness may reply. *)
Results(Replies) ==
  [id : STRING, status : Statuses, kind : DOMAIN classify \cup {None}, reply : Replies,
   usage : Nat, events : Seq(Actions)]
Fallbacks == [ran : STRING \cup {None}, chain : BOOLEAN,
              fell : Seq([id : STRING, reason : DOMAIN reason_kind])]
Reports(Replies) == [results : Seq(Results(Replies)), fallback : Fallbacks,
                     socket : BOOLEAN, redirected : BOOLEAN]

(* The classified error of a candidate that did not produce the turn.        *)
(* A non-zero exit of the harness is no failure by itself: it may have       *)
(* answered. Every other status but "ok" left no text to read.               *)
failure(result) ==
  IF result.kind # None THEN classify[result.kind]
  ELSE IF result.status \in {"ok", "nonzero"} THEN None
  ELSE status_kind[result.status]

NoFallback == [ran |-> None, fell |-> <<>>, chain |-> FALSE]
Fallback(ran, fell) == [ran |-> ran, fell |-> fell, chain |-> TRUE]

(* select: the candidate that ran is the last result of its id, else the     *)
(* last result there is; a chain none of whose candidates ran is a failure   *)
(* named by the last reason; a report without the result it must have        *)
(* describes no run and cannot be read.                                      *)
Matching(report) == {i \in DOMAIN report.results : report.results[i].id = report.fallback.ran}

select(report) ==
  LET results == report.results
      fell == report.fallback.fell
  IN CASE report.fallback.chain /\ report.fallback.ran = None ->
            [read |-> TRUE, ran |-> 0,
             failure |-> IF fell = <<>> THEN "spawn" ELSE reason_kind[Last(fell).reason]]
       [] results = <<>> /\ ~(report.fallback.chain /\ report.fallback.ran = None) ->
            [read |-> FALSE, ran |-> 0, failure |-> "protocol"]
       [] report.fallback.chain /\ results # <<>> /\ report.fallback.ran # None ->
            LET ran == IF Matching(report) = {} THEN Len(results) ELSE Max(Matching(report))
            IN [read |-> TRUE, ran |-> ran, failure |-> failure(results[ran])]
       [] ~report.fallback.chain /\ results # <<>> ->
            [read |-> TRUE, ran |-> 1, failure |-> failure(results[1])]

(* Whether there is an invocation at all, and what it then says. Nothing     *)
(* stands in for a reply the result does not carry.                          *)
readable(report) == select(report).read
failed(report)   == select(report).failure
ran(report)      == select(report).ran
result(report)   == report.results[ran(report)]
reply(report)    == IF ran(report) = 0 THEN None ELSE result(report).reply
usage(report)    == IF ran(report) = 0 THEN 0 ELSE result(report).usage
actions(report)  == IF ran(report) = 0 THEN <<>> ELSE result(report).events

control_socket(report) == report.socket
was_redirected(report) == report.redirected
===============================================================================
