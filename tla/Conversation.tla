----------------------------- MODULE Conversation ----------------------------
(***************************************************************************)
(* One run of Engine::converse (src/crates/onejudge/src/engine.rs): the    *)
(* loop of worker and supervisor turns in `drive`, the watch thread that   *)
(* runs beside a controlled live turn (interrupt.rs), the observer that    *)
(* may stop the run at every observation, and the senders of notes, who    *)
(* run on threads of their own.                                            *)
(*                                                                         *)
(* The engine's thread is a program counter `pc`; between two of its       *)
(* values the engine touches nothing another thread can see change. While  *)
(* pc is "worker" or "judge" the engine is inside a provider call, and     *)
(* what the provider answers is any answer it can give. The transcript is  *)
(* kept as the number of assistant turns and, per note, how often the      *)
(* worker was handed it.                                                   *)
(***************************************************************************)
EXTENDS NoteInbox, NoopStreak, Sequences

CONSTANTS
  UserSides,      \* whether the conversation may have a user side, and may not
  MaxTurns,       \* the assistant turns after which it ends
  RecoversLost,   \* Provider::supervises_lost_turns
  SettleOnNoop,   \* Settings::settle_on_noop
  Controlled,     \* the parties whose turns Provider::turn_control addresses
  ObserverStops,  \* the observer may answer an observation with Break
  ObserverPanics, \* the observer may panic
  Exchanges       \* the worker exchanges considered

ASSUME ConversationAssumption ==
  /\ UserSides \subseteq BOOLEAN
  /\ RecoversLost \in BOOLEAN /\ SettleOnNoop \in BOOLEAN
  /\ ObserverStops \in BOOLEAN /\ ObserverPanics \in BOOLEAN
  /\ MaxTurns \in Nat
  /\ Controlled \subseteq Party
  /\ Exchanges \subseteq Exchange

VARIABLES
  supervised, \* Conversation::user is given: more than one turn may follow
  pc,         \* where the engine's thread is
  came,       \* what the last provider call came back with
  broke,      \* the observer asked to stop during the last call
  turns,      \* transcript.assistant_turns()
  transcript, \* the notes the transcript's user messages carry
  streak,     \* the no-op streak
  batch,      \* notes taken and not yet handed to anyone, in order
  delivered,  \* the engine's record of deliveries: [note, to], in order
  forWorker,  \* notes the supervisor was handed and the worker was not yet
  awaiting,   \* AwaitingDecision: held senders, each with its other answer
  result,     \* how the conversation ended
  watch,      \* the watch thread of the live turn
  redirects,  \* the redirects it confirmed, in order
  handed,     \* history: how often the worker was handed each note
  inHand      \* history: notes the judge's decision was asked with

call    == <<supervised, came, broke, turns, streak>>
engine  == <<call, pc, result>>
notes   == <<batch, transcript, delivered, forWorker, awaiting>>
watcher == <<watch, redirects>>
history == <<handed, inHand>>
vars == <<inbox, engine, notes, watcher, history>>

PCs == {"built", "top", "open", "worker", "workerEnd", "lostJudge", "turnEnd",
        "judgeOpen", "judge", "judgeEnd", "judgeDrain", "decided", "closing",
        "unwound", "hung", "closed"}

Decisions == {"Completed", "Continue", "NoInstruction", "Unparseable"}
WorkerAnswers == {"reply", "done", "error", "lost"}
Results == {"none", "completed", "settled", "stopped", "ended", "failed"}

(* The party whose turn is live at a program counter. *)
Live(p) == pc = IF p = "Worker" THEN "worker" ELSE "judge"

Elems(s) == {s[i] : i \in DOMAIN s}
Recorded == {delivered[i].note : i \in DOMAIN delivered}

NoWatch == [party |-> "Worker", at |-> "off", note |-> {}, presented |-> {}, over |-> {}]
WatchStates == [party : Party, at : {"off", "dial", "poll", "sending", "confirmed"},
                note : SUBSET Notes, presented : SUBSET Notes,
                over : SUBSET (Drafts \cup {NoDraft})]

TypeOK ==
  /\ InboxTypeOK
  /\ supervised \in BOOLEAN
  /\ pc \in PCs
  /\ came \in Decisions \cup WorkerAnswers \cup {"none"}
  /\ broke \in BOOLEAN
  /\ turns \in Nat
  /\ streak \in Streak
  /\ transcript \subseteq Notes
  /\ batch \in Seq(Notes)
  /\ delivered \in Seq([note : Notes, to : Party])
  /\ forWorker \subseteq Notes
  /\ awaiting \in SUBSET [note : Notes, otherwise : Accepted]
  /\ result \in Results
  /\ watch \in WatchStates
  /\ redirects \in Seq(Notes)
  /\ handed \in [Notes -> Nat]
  /\ inHand \subseteq Notes

Init ==
  /\ InboxInit
  /\ supervised \in UserSides
  /\ pc = "built"
  /\ came = "none"
  /\ broke = FALSE
  /\ turns = 0
  /\ streak = NoStreak
  /\ transcript = {}
  /\ batch = <<>>
  /\ delivered = <<>>
  /\ forWorker = {}
  /\ awaiting = {}
  /\ result = "none"
  /\ watch = NoWatch
  /\ redirects = <<>>
  /\ handed = [n \in Notes |-> 0]
  /\ inHand = {}

-----------------------------------------------------------------------------
(* Operators of the engine.                                                 *)

(* `record` for each note of a sequence, in order. *)
RecordedAlso(s, p) == delivered \o [i \in DOMAIN s |-> [note |-> s[i], to |-> p]]

HandWorker(S) == handed' = [n \in Notes |-> handed[n] + IF n \in S THEN 1 ELSE 0]

(* A user message carrying the notes of S is pushed.                        *)
PushBlock(S) == HandWorker(S) /\ transcript' = transcript \cup S

(* The senders of S held for the decision, and the notes whose senders are. *)
HeldAs(S, otherwise) == {[note |-> n, otherwise |-> otherwise] : n \in S}
NotesOf(held) == {h.note : h \in held}

(* Mutant: AwaitingDecision without its Drop: its handles are let go of. *)
LetGoUnanswered(held) == AnsweredAll(NotesOf(held), "dropped")

(* AwaitingDecision let go of, or settled by any decision but completion:   *)
(* each sender is answered as the delivery its note was.                    *)
AnsweredOtherwise(held) ==
  [n \in Notes |-> IF \E h \in held : h.note = n
                   THEN (CHOOSE h \in held : h.note = n).otherwise
                   ELSE fate[n]]

(* Mutant: any instruction counts as a judgement. *)
SettledAsJudged(held, decision) ==
  IF decision \in {"Completed", "Continue"}
  THEN AnsweredAll(NotesOf(held), "JudgedWith")
  ELSE AnsweredOtherwise(held)

(* AwaitingDecision::settle. *)
SettledWith(held, decision) ==
  IF decision = "Completed" THEN AnsweredAll(NotesOf(held), "JudgedWith")
  ELSE AnsweredOtherwise(held)

(* A watch over party p's turn, when the provider addresses it. *)
Armed(p) ==
  [NoWatch EXCEPT !.party = p, !.at = IF p \in Controlled THEN "dial" ELSE "off"]

(* drive returns: with an outcome, or with the error it failed with.        *)
Finish(r) == pc' = "closing" /\ result' = r

(* A panic of the observer unwinds out of the engine. *)
Unwind == pc' = "unwound" /\ UNCHANGED result

GoTo(l) == pc' = l /\ UNCHANGED result

(* An observation the run does not survive. *)
ObserverEnds == \/ ObserverStops /\ Finish("stopped")
                \/ ObserverPanics /\ Unwind

-----------------------------------------------------------------------------
(* Building, and dropping an engine that never ran or never returned.       *)

Converse ==
  /\ pc = "built"
  /\ GoTo("top")
  /\ UNCHANGED <<inbox, call, notes, watcher, history>>

DropUnread ==
  /\ pc = "built"
  /\ Close("NoConversation")
  /\ GoTo("closed")
  /\ UNCHANGED <<call, notes, watcher, history>>

DropUnwound ==
  /\ pc = "unwound"
  /\ Close("MemberSettled")
  /\ GoTo("closed")
  /\ UNCHANGED <<call, notes, watcher, history>>

-----------------------------------------------------------------------------
(* take_notes: everything queued, in arrival order, one take at a time,     *)
(* until the queue is found empty.                                          *)

Drained == Queued = {}

TakeNote(n) ==
  /\ pc \in {"top", "turnEnd", "judgeDrain"}
  /\ Earliest(n, Queued)
  /\ fate' = Taken(n)
  /\ batch' = Append(batch, n)
  /\ UNCHANGED <<draft, stamp, arrivals, late, closed, engine, transcript, delivered,
                 forWorker, awaiting, watcher, history>>

(* Mutant: a note answered Queued is left off the record, as the inbox's own *)
(* delivered() leaves it off.                                               *)
DeliverUnrecorded(answer) ==
  /\ delivered' = IF answer = "Queued" THEN delivered ELSE RecordedAlso(batch, "Worker")
  /\ fate' = AnsweredAll(Elems(batch), answer)
  /\ PushBlock(Elems(batch))
  /\ batch' = <<>>
  /\ UNCHANGED <<draft, stamp, arrivals, late, closed, forWorker, awaiting, inHand>>

(* deliver: the notes taken are recorded as handed to the worker and pushed *)
(* as its next message, and each sender is answered.                        *)
DeliverToWorker(answer) ==
  /\ delivered' = RecordedAlso(batch, "Worker")
  /\ fate' = AnsweredAll(Elems(batch), answer)
  /\ PushBlock(Elems(batch))
  /\ batch' = <<>>
  /\ UNCHANGED <<draft, stamp, arrivals, late, closed, forWorker, awaiting, inHand>>

DeliverQueued ==
  /\ pc = "top" /\ Drained
  /\ DeliverToWorker("Queued")
  /\ GoTo("open")
  /\ UNCHANGED <<call, watcher>>

-----------------------------------------------------------------------------
(* The worker's turn.                                                       *)

OpenWorkerTurn ==
  /\ pc = "open"
  /\ \/ ObserverEnds /\ UNCHANGED <<broke, watcher>>
     \/ /\ GoTo("worker")
        /\ broke' = FALSE
        /\ watch' = Armed("Worker")
        /\ redirects' = <<>>
  /\ UNCHANGED <<inbox, supervised, came, turns, streak, notes, history>>

(* One of the observations made during a provider call. A panic unwinds     *)
(* into thread::scope, which waits for the watch thread before it lets the  *)
(* panic go on, and the call of Watch::end is skipped.                      *)
ObservedDuringCall ==
  /\ pc \in {"worker", "judge"} /\ ~broke
  /\ \/ /\ ObserverStops
        /\ broke' = TRUE
        /\ UNCHANGED <<pc, result, fate, awaiting>>
     \/ /\ ObserverPanics /\ watch.at = "off"
        /\ Unwind
        /\ fate' = AnsweredOtherwise(awaiting)
        /\ awaiting' = {}
        /\ UNCHANGED broke
     \/ /\ ObserverPanics /\ watch.at # "off"
        /\ GoTo("hung")
        /\ UNCHANGED <<broke, fate, awaiting>>
  /\ UNCHANGED <<draft, stamp, arrivals, late, closed, supervised, came, turns, streak,
                 batch, transcript, delivered, forWorker, watcher, history>>

(* The provider call returns, and Watch::end tells the watch so. *)
WorkerReturns ==
  /\ pc = "worker"
  /\ came' \in WorkerAnswers
  /\ GoTo("workerEnd")
  /\ UNCHANGED <<inbox, supervised, broke, turns, streak, notes, watcher, history>>

(* push_redirected appends one assistant turn per interrupted turn, each    *)
(* followed by the note that interrupted it, and the call's own reply.      *)
TurnsAfter == turns + Len(redirects) + 1

AtTurnCap == came = "done" \/ TurnsAfter >= MaxTurns

WorkerReplied ==
  /\ pc = "workerEnd" /\ watch.at = "off"
  /\ came \in {"reply", "done"}
  /\ delivered' = RecordedAlso(redirects, "Worker")
  /\ transcript' = transcript \cup Elems(redirects)
  /\ turns' = TurnsAfter
  /\ redirects' = <<>>
  /\ \E x \in Exchanges :
       /\ streak' = Observe(streak, x)
       /\ \/ broke /\ Finish("stopped")
          \/ ~broke /\ ObserverEnds
          \/ ~broke /\ (~supervised \/ AtTurnCap) /\ Finish("ended")
          \/ /\ ~broke /\ supervised /\ ~AtTurnCap
             /\ IF SettleOnNoop /\ Settles(Observe(streak, x)) THEN Finish("settled")
                ELSE GoTo("turnEnd")
  /\ UNCHANGED <<inbox, supervised, came, broke, batch, forWorker, awaiting, watch, history>>

(* A worker turn that was lost is put to the judge side when the provider   *)
(* supervises lost turns; any other error ends the run. Its redirects are   *)
(* recorded; nothing of it is pushed to the transcript.                     *)
Recoverable == RecoversLost /\ came = "lost" /\ supervised

WorkerFailed ==
  /\ pc = "workerEnd" /\ watch.at = "off"
  /\ came \in {"error", "lost"}
  /\ delivered' = RecordedAlso(redirects, "Worker")
  /\ redirects' = <<>>
  /\ \/ (~Recoverable \/ broke \/ ObserverStops) /\ Finish("failed") /\ UNCHANGED inHand
     \/ Recoverable /\ ~broke /\ ObserverPanics /\ Unwind /\ UNCHANGED inHand
     \/ /\ Recoverable /\ ~broke
        /\ GoTo("lostJudge")
        /\ inHand' = Recorded \cup Elems(redirects)
  /\ UNCHANGED <<inbox, call, batch, transcript, forWorker, awaiting, watch, handed>>

(* The recovery decision. No watch runs beside it and no notes are taken    *)
(* after it. When it fails, or gives no instruction, the worker's own error *)
(* ends the run. A Continue retries the worker with nothing else appended.  *)
LostDecided ==
  /\ pc = "lostJudge"
  /\ \/ ObserverEnds
     \/ Finish("completed")
     \/ GoTo("top")
     \/ Finish("failed")
  /\ UNCHANGED <<inbox, call, notes, watcher, history>>

(* Notes that arrived during the worker's turn and did not redirect it open *)
(* the next worker turn, before the supervisor is consulted.                *)
TurnEndNotes ==
  /\ pc = "turnEnd" /\ Drained
  /\ IF batch = <<>>
     THEN GoTo("judgeOpen") /\ UNCHANGED <<inbox, notes, history>>
     ELSE DeliverToWorker(AtTurnEnd("Worker")) /\ GoTo("top")
  /\ UNCHANGED <<call, watcher>>

-----------------------------------------------------------------------------
(* The supervisor's turn.                                                   *)

(* Mutant: the query's notes are read once, before the loop that retakes.   *)
BeginStaleAttempt(r) ==
  /\ GoTo("judge")
  /\ broke' = FALSE
  /\ watch' = Armed("Supervisor")
  /\ redirects' = <<>>
  /\ inHand' = IF pc = "judgeOpen" THEN r ELSE inHand

(* One attempt at the decision, put with every note on the record `r`.      *)
BeginAttempt(r) ==
  /\ GoTo("judge")
  /\ broke' = FALSE
  /\ watch' = Armed("Supervisor")
  /\ redirects' = <<>>
  /\ inHand' = r

OpenSupervisorTurn ==
  /\ pc = "judgeOpen"
  /\ \/ ObserverEnds /\ UNCHANGED <<broke, watcher, inHand>>
     \/ BeginAttempt(Recorded)
  /\ UNCHANGED <<inbox, supervised, came, turns, streak, notes, handed>>

JudgeReturns ==
  /\ pc = "judge"
  /\ came' \in Decisions \cup {"error"}
  /\ GoTo("judgeEnd")
  /\ UNCHANGED <<inbox, supervised, broke, turns, streak, notes, watcher, history>>

(* A history observation stopped the run: drive returns before it reads the *)
(* redirects, so the senders they hold are let go of unanswered, and those  *)
(* awaiting the decision are answered as delivered.                         *)
JudgeStopped ==
  /\ pc = "judgeEnd" /\ watch.at = "off" /\ broke
  /\ fate' = [n \in Notes |-> IF n \in Elems(redirects) THEN "dropped"
                              ELSE AnsweredOtherwise(awaiting)[n]]
  /\ awaiting' = {}
  /\ redirects' = <<>>
  /\ Finish("stopped")
  /\ UNCHANGED <<draft, stamp, arrivals, late, closed, call, batch, transcript, delivered,
                 forWorker, watch, history>>

(* Mutant: a redirected note's sender is not held for the decision. *)
HeldAfterForgotten == awaiting

(* The redirects are recorded and their senders held; then what each judge  *)
(* did is observed; then an error, and after it a stop, ends the run with   *)
(* every held sender answered as delivered.                                 *)
HeldAfter == awaiting \cup HeldAs(Elems(redirects), Interrupted("Supervisor"))

JudgeAnswered ==
  /\ pc = "judgeEnd" /\ watch.at = "off" /\ ~broke
  /\ delivered' = RecordedAlso(redirects, "Supervisor")
  /\ forWorker' = forWorker \cup Elems(redirects)
  /\ redirects' = <<>>
  /\ \/ /\ came # "error"
        /\ GoTo("judgeDrain")
        /\ awaiting' = HeldAfter
        /\ UNCHANGED fate
     \/ /\ \/ came = "error" /\ Finish("failed")
           \/ came # "error" /\ ObserverStops /\ Finish("stopped")
           \/ ObserverPanics /\ Unwind
        /\ awaiting' = {}
        /\ fate' = AnsweredOtherwise(HeldAfter)
  /\ UNCHANGED <<draft, stamp, arrivals, late, closed, call, batch, transcript, watch,
                 history>>

(* Notes that arrived during the turn: the decision is re-taken with them.  *)
RetakeDecision ==
  /\ pc = "judgeDrain" /\ Drained /\ batch # <<>>
  /\ delivered' = RecordedAlso(batch, "Supervisor")
  /\ forWorker' = forWorker \cup Elems(batch)
  /\ awaiting' = awaiting \cup HeldAs(Elems(batch), AtTurnEnd("Supervisor"))
  /\ batch' = <<>>
  /\ BeginAttempt(Recorded \cup Elems(batch))
  /\ UNCHANGED <<inbox, supervised, came, turns, streak, transcript, handed>>

(* None arrived: the decision stands, and every held sender is answered.    *)
SettleDecision ==
  /\ pc = "judgeDrain" /\ Drained /\ batch = <<>>
  /\ fate' = SettledWith(awaiting, came)
  /\ awaiting' = {}
  /\ GoTo("decided")
  /\ UNCHANGED <<draft, stamp, arrivals, late, closed, call, batch, transcript, delivered,
                 forWorker, watcher, history>>

(* Mutant: the notes pushed with the instruction are kept for the next one. *)
InstructUncleared == PushBlock(forWorker) /\ UNCHANGED forWorker /\ GoTo("top")

(* Continue's instruction is pushed with the notes the supervisor was       *)
(* handed in front of it.                                                   *)
Instruct == PushBlock(forWorker) /\ forWorker' = {} /\ GoTo("top")

(* The instruction and the turn's close are observed; then the decision is  *)
(* acted on.                                                                *)
Decided ==
  /\ pc = "decided"
  /\ \/ came = "Continue" /\ Instruct
     \/ /\ \/ ObserverEnds
           \/ came = "Completed" /\ Finish("completed")
           \/ came \in {"NoInstruction", "Unparseable"} /\ Finish("settled")
        /\ UNCHANGED <<handed, transcript, forWorker>>
  /\ UNCHANGED <<inbox, call, batch, delivered, awaiting, watcher, inHand>>

(* Mutant: the channel is closed with the outcome instead of a refusal. *)
RefusalIsOutcome(r) == r

(* converse closes the channel on how the conversation ended. *)
RefusalFor(r) == IF r = "completed" THEN "ConversationCompleted" ELSE "MemberSettled"

CloseInbox ==
  /\ pc = "closing"
  /\ Close(RefusalFor(result))
  /\ GoTo("closed")
  /\ UNCHANGED <<call, notes, watcher, history>>

-----------------------------------------------------------------------------
(* The watch thread, Watch::run: beside the live turn from its opening      *)
(* until it notices Watch::end.                                             *)

(* Mutant: only a worker turn's end is told to the watch. *)
EndedWorkerOnly == pc = "workerEnd"

Ended == pc \in {"workerEnd", "judgeEnd"}

(* Mutant: any note to the live party may interrupt it. *)
InterruptsAnyway(n) == watch.party \in draft[n].to

Interrupts(n) == watch.party \in draft[n].to /\ draft[n].how = "interrupt"

(* The notes take_if_within accepts: passed-over notes are told apart by    *)
(* what they say.                                                           *)
Claimable == {n \in Queued : Interrupts(n) /\ draft[n] \notin watch.over}

(* The turn's socket is seen to exist, which a turn opened with control     *)
(* makes happen at some point of it, if at all.                             *)
WatchConnects ==
  /\ watch.at = "dial"
  /\ watch' = [watch EXCEPT !.at = "poll"]
  /\ UNCHANGED <<inbox, engine, notes, redirects, history>>

(* Watch::end is noticed only between takes, so a take may still follow it. *)
WatchTakes(n) ==
  /\ watch.at = "poll"
  /\ Earliest(n, Claimable)
  /\ fate' = Taken(n)
  /\ watch' = [watch EXCEPT !.at = "sending", !.note = {n}, !.presented = @ \cup {n}]
  /\ UNCHANGED <<draft, stamp, arrivals, late, closed, engine, notes, redirects, history>>

(* The notes a redirect's text carries: the last one for a worker, every    *)
(* one presented to this turn for a supervisor.                             *)
Framed == IF watch.party = "Worker" THEN watch.note ELSE watch.presented

(* oneharness aborts the live turn, opens the replacement with the text,    *)
(* and only then confirms.                                                  *)
RedirectConfirmed ==
  /\ watch.at = "sending" /\ Live(watch.party)
  /\ watch' = [watch EXCEPT !.at = "confirmed"]
  /\ IF watch.party = "Worker"
     THEN HandWorker(Framed) /\ UNCHANGED inHand
     ELSE inHand' = inHand \cup Framed /\ UNCHANGED handed
  /\ UNCHANGED <<inbox, engine, notes, redirects>>

(* Mutant: a note handed back stays among those presented. *)
PassedOverStillPresented ==
  [watch EXCEPT !.at = "poll", !.note = {}, !.over = @ \cup {draft[n] : n \in watch.note}]

(* Too long to frame, or not confirmed: handed back, and passed over for    *)
(* the rest of the turn.                                                    *)
PassedOver == [watch EXCEPT !.at = "poll", !.note = {}, !.presented = @ \ watch.note,
                            !.over = @ \cup {draft[n] : n \in watch.note}]

WatchReleases(n) ==
  /\ watch.at = "sending" /\ n \in watch.note
  /\ fate' = Released(n)
  /\ watch' = PassedOver
  /\ UNCHANGED <<draft, stamp, arrivals, late, closed, engine, notes, redirects, history>>

(* A worker's redirect is the whole delivery, so its sender is answered     *)
(* now; a supervisor's is held for the decision.                            *)
WatchAnswers(n) ==
  /\ watch.at = "confirmed" /\ n \in watch.note
  /\ fate' = IF watch.party = "Worker" THEN AnsweredAll({n}, Interrupted("Worker")) ELSE fate
  /\ redirects' = Append(redirects, n)
  /\ watch' = [watch EXCEPT !.at = "poll", !.note = {}]
  /\ UNCHANGED <<draft, stamp, arrivals, late, closed, engine, notes, history>>

WatchEnds ==
  /\ watch.at \in {"dial", "poll"} /\ Ended
  /\ watch' = NoWatch
  /\ UNCHANGED <<inbox, engine, notes, redirects, history>>

-----------------------------------------------------------------------------
SenderStep(n) ==
  /\ \/ \E d \in Drafts : Offer(n, d)
     \/ Withdraw(n)
     \/ DeadlinePasses(n)
  /\ UNCHANGED <<engine, notes, watcher, history>>

EngineStep ==
  \/ Converse \/ DropUnread \/ DropUnwound \/ DeliverQueued
  \/ \E n \in Notes : TakeNote(n)
  \/ OpenWorkerTurn \/ WorkerReturns \/ WorkerReplied \/ WorkerFailed \/ LostDecided
  \/ TurnEndNotes
  \/ OpenSupervisorTurn \/ JudgeReturns \/ JudgeStopped \/ JudgeAnswered
  \/ RetakeDecision \/ SettleDecision \/ Decided \/ CloseInbox

WatchStep ==
  \/ WatchConnects \/ RedirectConfirmed \/ WatchEnds
  \/ \E n \in Notes : WatchTakes(n) \/ WatchReleases(n) \/ WatchAnswers(n)

(* A closed channel, and a conversation hung on its watch with every note   *)
(* resolved, are where it all may stop.                                     *)
Rest == pc \in {"closed", "hung"} /\ UNCHANGED vars

Next ==
  \/ EngineStep
  \/ ObservedDuringCall
  \/ WatchStep
  \/ \E n \in Notes : SenderStep(n)
  \/ Rest

Spec == Init /\ [][Next]_vars

(* The engine's and the watch's threads keep running and a provider call    *)
(* returns (every harness turn is bounded by its own timeout); a confirmed  *)
(* or refused redirect is one of two outcomes of one call. Nothing makes a  *)
(* sender send, give up or withdraw, nor the observer stop the run.         *)
Fairness == WF_vars(EngineStep) /\ WF_vars(WatchStep)
FairSpec == Spec /\ Fairness
=============================================================================
