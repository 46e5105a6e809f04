----------------------------- MODULE TurnContract -----------------------------
(***************************************************************************)
(* What a provider call promises whoever observes it, whatever process or   *)
(* engine runs it and however often it is attempted: events are shown one   *)
(* at a time and never taken back; a call its observer stopped shows        *)
(* nothing more and comes to exactly what was shown of it, or to an error,  *)
(* and never to a turn; and a turn that showed nothing while it ran is      *)
(* shown from its start when it is over.                                    *)
(***************************************************************************)
EXTENDS ToolEvents, SequencesExt

VARIABLES
  phase,  \* "over", "open", or "stopped" by the observer
  shown,  \* the actions it was shown
  answer  \* what the call came to, [is, events]

Nothing == [is |-> "none", events |-> <<>>]
Failure == [is |-> "error", events |-> <<>>]

Init == phase = "over" /\ shown = <<>> /\ answer = Nothing

Open ==
  /\ phase = "over"
  /\ shown' = <<>>
  /\ \/ phase' = "open" /\ answer' = Nothing
     \/ phase' = "over" /\ answer' \in {Nothing, Failure}

Show ==
  /\ phase = "open"
  /\ \E e \in Actions : shown' = Append(shown, e)
  /\ phase' \in {"open", "stopped"}
  /\ UNCHANGED answer

Stop ==
  /\ phase = "open" /\ phase' = "stopped"
  /\ UNCHANGED <<shown, answer>>

Abandon ==
  /\ phase = "stopped" /\ phase' = "over"
  /\ answer' \in {[is |-> "aborted", events |-> tool_events(shown)], Failure}
  /\ UNCHANGED shown

Finish ==
  /\ phase = "open" /\ phase' = "over"
  /\ answer'.is \notin {"none", "aborted"}
  /\ answer'.is # "turn" => answer'.events = <<>>
  /\ \/ UNCHANGED shown
     \/ shown = <<>> /\ IsPrefix(tool_events(shown'), answer'.events)

Next == Open \/ Show \/ Stop \/ Abandon \/ Finish

Spec == Init /\ [][Next]_<<phase, shown, answer>>
===============================================================================
