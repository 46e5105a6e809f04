----------------------------- MODULE NoteContract ----------------------------
(***************************************************************************)
(* What a conversation promises the sender of a note, whatever happens     *)
(* inside it: a note waits until it is taken, given up or refused; once    *)
(* taken it is accepted, handed back, counted towards the decision being   *)
(* made, or at worst let go of; once counted it is accepted, whatever      *)
(* becomes of the decision; an outcome is final; and the channel closes    *)
(* only when nobody holds a note, refusing everything that still waits and *)
(* everything sent later.                                                  *)
(***************************************************************************)
CONSTANT Notes

VARIABLES
  told,   \* how far each note has come, and in the end what its sender is told
  open    \* the channel still accepts notes

Outcomes == {"accepted", "refused", "gone", "lost"}

TypeOK ==
  /\ told \in [Notes -> {"none", "waiting", "held", "counted"} \cup Outcomes]
  /\ open \in BOOLEAN

Init ==
  /\ told = [n \in Notes |-> "none"]
  /\ open = TRUE

Are(S, state) == \A n \in S : told[n] = state
Become(S, state) == [n \in Notes |-> IF n \in S THEN state ELSE told[n]]

Send(n) ==
  /\ told[n] = "none"
  /\ told' = Become({n}, IF open THEN "waiting" ELSE "refused")
  /\ UNCHANGED open

GiveUp(n) ==
  /\ told[n] = "waiting"
  /\ told' = Become({n}, "gone")
  /\ UNCHANGED open

Take(n) ==
  /\ open /\ told[n] = "waiting"
  /\ told' = Become({n}, "held")
  /\ UNCHANGED open

(* A note handed back waits again, unless its deadline passed meanwhile. *)
HandBack(n) ==
  /\ told[n] = "held"
  /\ \E s \in {"waiting", "gone"} : told' = Become({n}, s)
  /\ UNCHANGED open

(* The decision being made is to be taken with the notes of S: none of them *)
(* is handed back or let go of any more.                                    *)
Count(S) ==
  /\ Are(S, "held")
  /\ told' = Become(S, "counted")
  /\ UNCHANGED open

(* Notes are accepted together, those held or counted; held ones may be let *)
(* go of together.                                                          *)
Resolve(S, dropped) ==
  /\ \A n \in S : told[n] \in {"held", "counted"}
  /\ Are(dropped, "held") /\ S \cap dropped = {}
  /\ told' = [n \in Notes |-> IF n \in S THEN "accepted"
                              ELSE IF n \in dropped THEN "lost" ELSE told[n]]
  /\ UNCHANGED open

CloseChannel ==
  /\ open
  /\ \A n \in Notes : told[n] \notin {"held", "counted"}
  /\ told' = Become({n \in Notes : told[n] = "waiting"}, "refused")
  /\ open' = FALSE

Next ==
  \/ \E n \in Notes : Send(n) \/ GiveUp(n) \/ Take(n) \/ HandBack(n)
  \/ \E S \in SUBSET Notes : Count(S)
  \/ \E S, dropped \in SUBSET Notes : Resolve(S, dropped)
  \/ CloseChannel

Spec == Init /\ [][Next]_<<told, open>>
=============================================================================
