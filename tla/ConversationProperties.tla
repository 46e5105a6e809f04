------------------------ MODULE ConversationProperties -----------------------
(***************************************************************************)
(* What a running conversation owes the senders of its notes, its worker   *)
(* and its judge.                                                          *)
(***************************************************************************)
EXTENDS Conversation

RecordedTo(n, p) == {i \in DOMAIN delivered : delivered[i] = [note |-> n, to |-> p]}
TimesRecorded(n) == Cardinality({i \in DOMAIN delivered : delivered[i].note = n})

Awaited == NotesOf(awaiting)

-----------------------------------------------------------------------------
(* Custody. A note that was taken and not yet answered is in the hands of   *)
(* exactly one holder: the batch being drained, the decision awaited, the   *)
(* watch presenting it, or a supervisor redirect not yet read back. Nothing *)
(* else can answer it, so a note without a holder is a sender who waits for *)
(* ever, and a note with two is one that is handed over twice.              *)
HoldersOf(n) ==
  (IF n \in Elems(batch) THEN {"batch"} ELSE {})
    \cup (IF n \in Awaited THEN {"awaiting"} ELSE {})
    \cup (IF n \in watch.note THEN {"watch"} ELSE {})
    \cup (IF n \in Elems(redirects) /\ fate[n] = "taken" THEN {"redirects"} ELSE {})

Custody ==
  \A n \in Notes :
    IF fate[n] = "taken" THEN \E h \in {"batch", "awaiting", "watch", "redirects"} :
                                HoldersOf(n) = {h}
    ELSE HoldersOf(n) = {}

(* converse, Drop and AwaitingDecision's Drop: once the channel is closed   *)
(* every note offered has an outcome, and its sender an answer: one held    *)
(* for a decision that failed, was stopped or unwound too. The only senders *)
(* let go of without one are those of the redirects of the supervisor's own *)
(* turn that a history observation stopped, whose notes are then nowhere on *)
(* the record; DeliveredAreAnswered, below, shows them.                     *)
RedirectOfStoppedTurn(n) ==
  /\ result = "stopped"
  /\ draft[n].how = "interrupt" /\ "Supervisor" \in draft[n].to
  /\ n \notin Recorded

NobodyLeftWaiting ==
  pc = "closed" =>
    \A n \in Notes : /\ fate[n] \notin {"queued", "taken"}
                     /\ fate[n] = "dropped" => RedirectOfStoppedTurn(n)

(* Outside a live call the engine's record (from which the criteria and the *)
(* judge's notes are composed) and the senders' answers agree: an accepted  *)
(* note is recorded once, to the party its answer names, and no other note  *)
(* is recorded but one still awaiting its decision.                         *)
PartyNamed(a) == IF a \in ReachedWorker THEN "Worker" ELSE "Supervisor"
InCall == pc \in {"worker", "workerEnd", "judge", "judgeEnd", "hung", "unwound"}
RecordAgreesWithAnswers ==
  ~InCall =>
    \A n \in Notes :
      /\ fate[n] \in Accepted =>
           TimesRecorded(n) = 1 /\ RecordedTo(n, PartyNamed(fate[n])) # {}
      /\ fate[n] \notin Accepted => TimesRecorded(n) = IF n \in Awaited THEN 1 ELSE 0

(* "Delivered exactly once": the worker is handed no note twice, whether a  *)
(* redirect, a turn-end delivery or the supervisor's message carries it.    *)
(* And it never works on without a note on the record: by the time one of   *)
(* its turns is live it has been handed everything recorded, so the judge   *)
(* is never ahead of it.  A note answered JudgedWith, which the completed   *)
(* run was judged with, is never handed to it at all.                       *)
HandedOnce ==
  \A n \in Notes : /\ handed[n] <= 1
                   /\ pc = "worker" /\ n \in Recorded => handed[n] = 1
                   /\ fate[n] = "JudgedWith" => handed[n] = 0

(* A decision that counts was taken with every note on the record in hand,  *)
(* and so was the completion a run ends with: none was recorded after the   *)
(* query was put and before the decision was acted on.                      *)
DecidedWithEverything ==
  /\ pc = "decided" \/ result = "completed" => Recorded \subseteq inHand
  /\ pc = "judgeDrain" /\ batch = <<>> => Recorded \subseteq inHand

(* Only notes in the watch's custody, or held for the decision, are in the  *)
(* text of a redirect: never one handed back, which may have been withdrawn *)
(* or expired since.                                                        *)
FramedOnlyTaken ==
  watch.at = "sending" => \A n \in Framed : fate[n] = "taken"

(* Interrupted is answered only to an interrupt note addressed to the party *)
(* whose turn was redirected, and only when that party was shown it.        *)
InterruptedOnlyAsAsked ==
  \A n \in Notes, p \in Party :
    fate[n] = Interrupted(p) =>
      /\ draft[n].how = "interrupt" /\ p \in draft[n].to
      /\ p = "Worker" => handed[n] = 1

-----------------------------------------------------------------------------
Settled(f) == f \notin {"unsent", "queued", "taken"}

(* An answer is final: whatever the engine, the watch and the channel do    *)
(* afterwards, a sender's outcome is never changed or taken back.           *)
AnswersAreFinal ==
  [][\A n \in Notes : Settled(fate[n]) => fate'[n] = fate[n]]_vars

(* A decision on a completed conversation is acted on before any further    *)
(* note is taken: after JudgedWith, nothing else is accepted.               *)
NothingAcceptedAfterJudgedWith ==
  [][\A n \in Notes : fate[n] = "JudgedWith" =>
       \A m \in Notes : fate'[m] \in Accepted => fate[m] \in Accepted]_vars

-----------------------------------------------------------------------------
(* The conversation keeps the contract its senders see: every step of the   *)
(* engine, the watch and the senders is a step of NoteContract, or one that *)
(* no sender notices. A note counts from when the engine holds its sender   *)
(* for the decision: from there an accepting answer is the only way on.     *)
Told(f) ==
  CASE f = "unsent" -> "none"
    [] f = "queued" -> "waiting"
    [] f = "taken" -> "held"
    [] f \in Accepted -> "accepted"
    [] f \in Undelivered -> "refused"
    [] f \in {"withdrawn", "expired"} -> "gone"
    [] f = "dropped" -> "lost"

Contract == INSTANCE NoteContract WITH
  told <- [n \in Notes |-> IF n \in Awaited THEN "counted" ELSE Told(fate[n])],
  open <- closed = "open"

KeepsContract == Contract!Spec

-----------------------------------------------------------------------------
(* Every sender that is waiting is told something, gives up, or is let go   *)
(* of. NobodyLeftWaiting says which senders alone can be.                   *)
SendersAnswered ==
  \A n \in Notes : fate[n] \in {"queued", "taken"} ~> fate[n] \notin {"queued", "taken"}

(* A conversation whose worker turns are lost only finitely often ends, and *)
(* its channel closes: the turn cap, the settled decisions and the finite   *)
(* notes leave the loop no other way to go on.                              *)
ConversationEnds == <>[](pc # "lostJudge") => <>(pc = "closed")

-----------------------------------------------------------------------------
(* What the repository's words promise and the code does not always do.     *)

(* Accepted::JudgedWith is documented as "the work was passed with the note *)
(* in hand", and a close that says no completion decision was reached as a  *)
(* run that reached none.                                                   *)
JudgedWithMeansCompleted ==
  pc = "closed" /\ (\E n \in Notes : fate[n] = "JudgedWith") => result = "completed"

(* docs/notes.md: the worker's interrupted turn stands in the transcript,   *)
(* "followed by the note the replacement turn opened with".                 *)
RedirectsStayInTranscript ==
  pc = "worker" => \A n \in Notes :
    fate[n] = "InterruptedWorker" /\ n \in Recorded => n \in transcript

(* engine.rs: "a delivered note whose sender is never answered is the       *)
(* silence this seam exists to refuse".                                     *)
DeliveredAreAnswered == \A n \in Notes : fate[n] # "dropped"

(* Settings::settle_on_noop: "max_turns remains the bound, so opting out    *)
(* can never make a loop unbounded".                                        *)
TurnCapBoundsTheLoop == <>(pc = "closed")
=============================================================================
