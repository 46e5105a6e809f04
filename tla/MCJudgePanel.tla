---------------------------- MODULE MCJudgePanel -----------------------------
(* Instances of JudgePanel for model checking. *)
EXTENDS JudgePanelProperties

(* The second judge scores and does not write, the third the reverse. *)
Scorers == {1, 2}
Writers == {1, 3}

(* Two calls, and a third, show what one leaves to the next; three judges,   *)
(* every row of the table of answers.                                       *)
FewerWhenLarger == [n \in {1, 2, 3} |-> IF n = 3 THEN 1 ELSE IF n = 2 THEN 2 ELSE 3]
=============================================================================
