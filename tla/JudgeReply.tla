------------------------------ MODULE JudgeReply ------------------------------
(***************************************************************************)
(* How a judge's answer text is read: a closed request for evidence, a      *)
(* supervisor decision, a verdict or an assessment (the parsers of          *)
(* src/crates/onejudge/src/provider.rs). A reply is what they can tell      *)
(* apart of a text,                                                         *)
(*                                                                          *)
(*   tool       its last line is no object with a `tool`, exactly a known   *)
(*              request ("exact"), or one with anything else ("odd")        *)
(*   completion what the object in it says: "absent", "true" or "false"     *)
(*   reason     whether that object has a reason that is not blank          *)
(*   message    its message: "absent", "blank" or "text"                    *)
(*   value      the verdict on its last line: "absent", "bool" or "number"  *)
(*   blank      whether there is no text at all                             *)
(***************************************************************************)
EXTENDS Naturals

Replies ==
  [tool : {"absent", "exact", "odd"}, completion : {"absent", "true", "false"},
   reason : BOOLEAN, message : {"absent", "blank", "text"},
   value : {"absent", "bool", "number"}, blank : BOOLEAN]

(* resolve_evidence_request: what asks for nothing is the answer; a request  *)
(* that is not one of the two, that comes with no tree to look at, or whose  *)
(* git fails, is refused.                                                    *)
resolve_evidence_request(reply, worktree, git) ==
  CASE reply.tool = "absent" -> "answer"
    [] reply.tool = "exact" /\ worktree /\ git -> "evidence"
    [] OTHER -> "refused"

(* What a supervisor's answer may come to: a decision, or a reason to ask it *)
(* again.                                                                    *)
Usable == {"completed", "continue"}
Reask  == {"no_instruction", "unparseable"}

(* parse_supervisor: two shapes, and nothing it does not understand is an    *)
(* error. A completion must give its reason and must not also instruct.      *)
parse_supervisor(reply) ==
  CASE reply.completion = "true" /\ reply.reason /\ reply.message = "absent" -> "completed"
    [] reply.completion = "false" /\ reply.message = "text"                  -> "continue"
    [] reply.completion = "false" /\ reply.message # "text"                  -> "no_instruction"
    [] OTHER                                                                 -> "unparseable"

(* Ask::note: what is put under the question when it is asked again, by what *)
(* was wrong with the answer before.                                         *)
note == [none |-> "", no_instruction |-> "REASK", unparseable |-> "UNPARSED"]

(* A verdict must be of the kind that was asked for. *)
parse_verdict(kind, reply) ==
  IF reply.value = (IF kind = "boolean" THEN "bool" ELSE "number") THEN "verdict" ELSE "error"
===============================================================================
