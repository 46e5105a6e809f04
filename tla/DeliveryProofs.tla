--------------------------- MODULE DeliveryProofs ---------------------------
(***************************************************************************)
(* What becomes of every note a running conversation takes: that the       *)
(* engine's record, the senders' answers, what the worker was handed and   *)
(* what the judge decided with agree, for any notes, contents, turn cap    *)
(* and settings. The inductive invariant is stated in parts, each          *)
(* preserved with the help of the ones before it.                          *)
(***************************************************************************)
EXTENDS ConversationProofs, FiniteSetTheorems

(* What a watch has presented to its turn and not had handed back is still  *)
(* in its hands or in a redirect.                                           *)
PresentedIsHeld ==
  watch.at # "off" => /\ watch.note \subseteq watch.presented
                      /\ watch.presented \subseteq watch.note \cup Elems(redirects)

LEMMA PresentedInit == Init => PresentedIsHeld
BY DEF Init, NoWatch, PresentedIsHeld

LEMMA PresentedStep == CustodyInv /\ PresentedIsHeld /\ [Next]_vars => PresentedIsHeld'
<1> SUFFICES ASSUME CustodyInv, PresentedIsHeld, [Next]_vars PROVE PresentedIsHeld'
  OBVIOUS
<1>y. /\ watch \in WatchStates /\ redirects \in Seq(Notes)
      /\ WatchInPhase
  BY DEF CustodyInv, TypeOK
<1> USE DEF PresentedIsHeld, inbox, call, engine, notes, watcher, history
<1>1. CASE UNCHANGED <<watch, redirects>>
  BY <1>1
<1>2. CASE OpenWorkerTurn \/ OpenSupervisorTurn \/ RetakeDecision
  BY <1>2, <1>y DEF OpenWorkerTurn, OpenSupervisorTurn, RetakeDecision, BeginAttempt, Armed, NoWatch,
     WatchInPhase, CallPCs
<1>3. CASE WorkerReplied \/ WorkerFailed \/ JudgeStopped \/ JudgeAnswered
  BY <1>3 DEF WorkerReplied, WorkerFailed, JudgeStopped, JudgeAnswered
<1>4. CASE WatchConnects \/ RedirectConfirmed \/ WatchEnds
  BY <1>4, <1>y DEF WatchConnects, RedirectConfirmed, WatchEnds, NoWatch, WatchStates
<1>5. CASE \E n \in Notes : WatchTakes(n)
  BY <1>5, <1>y DEF WatchTakes, WatchStates, WatchInPhase
<1>6. CASE \E n \in Notes : WatchReleases(n)
  BY <1>6, <1>y DEF WatchReleases, PassedOver, WatchStates
<1>7. CASE \E n \in Notes : WatchAnswers(n)
  <2> PICK n \in Notes : WatchAnswers(n)
    BY <1>7
  <2>1. Elems(redirects') = Elems(redirects) \cup {n}
    BY <1>y, ElemsOfAppend DEF WatchAnswers
  <2>2. watch.note = {n}
    BY <1>y DEF WatchAnswers, WatchInPhase
  <2>3. QED
    BY <2>1, <2>2, <1>y DEF WatchAnswers, WatchStates
<1>8. CASE Converse \/ DropUnread \/ DropUnwound \/ CloseInbox \/ DeliverQueued
           \/ TurnEndNotes \/ WorkerReturns \/ LostDecided \/ JudgeReturns \/ SettleDecision
           \/ Decided \/ ObservedDuringCall \/ Rest \/ UNCHANGED vars
           \/ \E n \in Notes : TakeNote(n) \/ SenderStep(n)
  BY <1>8, <1>1 DEF Converse, DropUnread, DropUnwound, CloseInbox, DeliverQueued, TurnEndNotes,
     WorkerReturns, LostDecided, JudgeReturns, SettleDecision, Decided, ObservedDuringCall, Rest,
     vars, TakeNote, SenderStep
<1>9. QED
  BY <1>2, <1>3, <1>4, <1>5, <1>6, <1>7, <1>8 DEF Next, EngineStep, WatchStep

LEMMA PresentedInvariant == Spec => []PresentedIsHeld
BY PresentedInit, PresentedStep, CustodyInvariant, PTL DEF Spec

(* The text of a redirect frames only notes the watch has in custody or a   *)
(* redirect holds for the decision: never one that was handed back.         *)
THEOREM RedirectsFrameTakenNotes == Spec => []FramedOnlyTaken
<1>1. CustodyInv /\ PresentedIsHeld => FramedOnlyTaken
  <2> SUFFICES ASSUME CustodyInv, PresentedIsHeld, watch.at = "sending", NEW n \in Framed
               PROVE  fate[n] = "taken"
    BY DEF FramedOnlyTaken
  <2>1. \A m \in watch.note : fate[m] = "taken"
    BY DEF CustodyInv, HeldIsTaken
  <2>2. CASE watch.party = "Worker"
    BY <2>1, <2>2 DEF Framed
  <2>3. CASE watch.party # "Worker"
    <3>1. ~WorkerCall
      BY <2>3 DEF CustodyInv, WatchInPhase, WorkerCall
    <3>2. n \in watch.note \cup Elems(redirects)
      BY <2>3 DEF Framed, PresentedIsHeld
    <3>3. QED
      BY <2>1, <3>1, <3>2 DEF CustodyInv, HeldIsTaken
  <2>4. QED
    BY <2>2, <2>3
<1>2. QED
  BY <1>1, CustodyInvariant, PresentedInvariant, PTL

-----------------------------------------------------------------------------
(* Where the engine may be once the run has a result, once a note was       *)
(* answered JudgedWith, and while notes wait for the worker.                *)
ResultInPhase == result # "none" => pc \in {"closing", "closed"}

JudgedInPhase ==
  \A n \in Notes : fate[n] = "JudgedWith" =>
    /\ pc \in {"decided", "closing", "unwound", "closed"}
    /\ pc = "decided" => came = "Completed"

JudgePCs == {"judge", "judgeEnd", "judgeDrain", "decided", "closing", "unwound", "hung", "closed"}
ForWorkerInPhase == pc \notin JudgePCs => forWorker = {}

(* The other answer of a sender held for the decision is one of a           *)
(* supervisor's note, and never the decision's own.                         *)
HeldAnswers == \A h \in awaiting : h.otherwise \in {Interrupted("Supervisor"), AtTurnEnd("Supervisor")}

PhaseInv == ResultInPhase /\ JudgedInPhase /\ ForWorkerInPhase /\ HeldAnswers

LEMMA PhaseInit == Init => PhaseInv
BY DEF Init, InboxInit, PhaseInv, ResultInPhase, JudgedInPhase, ForWorkerInPhase, HeldAnswers

(* Answering held senders with their other answer judges none of them.      *)
LEMMA OtherwiseIsOneHeld ==
  ASSUME NEW held \in SUBSET [note : Notes, otherwise : Accepted],
         NEW n \in NotesOf(held)
  PROVE  \E h \in held : h.note = n /\ (n \in Notes => AnsweredOtherwise(held)[n] = h.otherwise)
<1>1. \E h \in held : h.note = n
  BY DEF NotesOf
<1>2. (CHOOSE h \in held : h.note = n) \in held /\ (CHOOSE h \in held : h.note = n).note = n
  BY <1>1
<1>3. QED
  BY <1>1, <1>2 DEF AnsweredOtherwise

LEMMA PhaseStep == CustodyInv /\ PhaseInv /\ [Next]_vars => PhaseInv'
<1> SUFFICES ASSUME CustodyInv, PhaseInv, [Next]_vars PROVE PhaseInv'
  OBVIOUS
<1>y. /\ fate \in [Notes -> Fates] /\ awaiting \in SUBSET [note : Notes, otherwise : Accepted]
      /\ WatchInPhase /\ HoldersInPhase /\ HeldIsTaken /\ OpenUntilClosed
      /\ closed \in {"open"} \cup Undelivered
  BY DEF CustodyInv, TypeOK, InboxTypeOK
<1>p. ResultInPhase /\ JudgedInPhase /\ ForWorkerInPhase /\ HeldAnswers
  BY DEF PhaseInv
<1>w. watch.at # "off" => pc \in CallPCs
  BY <1>y DEF WatchInPhase
<1> USE DEF inbox, call, engine, notes, watcher, history
<1>r. ResultInPhase'
  <2>1. CASE EngineStep
    BY <1>p, <2>1 DEF ResultInPhase, EngineStep, Converse, DropUnread, DropUnwound, CloseInbox,
       DeliverQueued, TakeNote, OpenWorkerTurn, WorkerReturns, WorkerReplied, WorkerFailed,
       LostDecided, TurnEndNotes, OpenSupervisorTurn, BeginAttempt, JudgeReturns, JudgeStopped,
       JudgeAnswered, RetakeDecision, SettleDecision, Decided, Instruct, ObserverEnds, Finish,
       Unwind, GoTo
  <2>2. CASE ~EngineStep
    BY <1>p, <2>2 DEF ResultInPhase, Next, ObservedDuringCall, Unwind, GoTo, WatchStep,
       WatchConnects, RedirectConfirmed, WatchEnds, WatchTakes, WatchReleases, WatchAnswers,
       SenderStep, Rest, vars
  <2>3. QED
    BY <2>1, <2>2
<1>f. ForWorkerInPhase'
  <2>1. CASE EngineStep
    BY <1>p, <2>1 DEF ForWorkerInPhase, JudgePCs, EngineStep, Converse, DropUnread, DropUnwound,
       CloseInbox, DeliverQueued, DeliverToWorker, TakeNote, OpenWorkerTurn, WorkerReturns,
       WorkerReplied, WorkerFailed, LostDecided, TurnEndNotes, OpenSupervisorTurn, BeginAttempt,
       JudgeReturns, JudgeStopped, JudgeAnswered, RetakeDecision, SettleDecision, Decided,
       Instruct, ObserverEnds, Finish, Unwind, GoTo
  <2>2. CASE ~EngineStep
    BY <1>p, <2>2 DEF ForWorkerInPhase, JudgePCs, Next, ObservedDuringCall, Unwind, GoTo,
       WatchStep, WatchConnects, RedirectConfirmed, WatchEnds, WatchTakes, WatchReleases,
       WatchAnswers, SenderStep, Rest, vars
  <2>3. QED
    BY <2>1, <2>2
<1>a. HeldAnswers'
  <2>1. CASE JudgeAnswered
    <3>1. HeldAnswers' \/ awaiting' = HeldAfter
      BY <2>1 DEF JudgeAnswered, HeldAnswers
    <3>2. QED
      BY <3>1, <1>p DEF HeldAnswers, HeldAfter, HeldAs
  <2>2. CASE RetakeDecision
    BY <2>2, <1>p DEF RetakeDecision, HeldAnswers, HeldAs
  <2>3. CASE JudgeStopped \/ SettleDecision \/ ObservedDuringCall
    BY <2>3, <1>p DEF JudgeStopped, SettleDecision, ObservedDuringCall, HeldAnswers
  <2>4. CASE UNCHANGED awaiting
    BY <2>4, <1>p DEF HeldAnswers
  <2>5. QED
    BY <2>1, <2>2, <2>3, <2>4 DEF Next, EngineStep, WatchStep, Converse, DropUnread, DropUnwound,
       CloseInbox, DeliverQueued, DeliverToWorker, TakeNote, OpenWorkerTurn, WorkerReturns,
       WorkerReplied, WorkerFailed, LostDecided, TurnEndNotes, OpenSupervisorTurn, JudgeReturns,
       Decided, WatchConnects, RedirectConfirmed, WatchEnds, WatchTakes, WatchReleases,
       WatchAnswers, SenderStep, Rest, vars

<1>o. ASSUME NEW held \in SUBSET [note : Notes, otherwise : Accepted], NEW n \in Notes,
             \A h \in held : h.otherwise \in {Interrupted("Supervisor"), AtTurnEnd("Supervisor")},
             AnsweredOtherwise(held)[n] = "JudgedWith"
      PROVE  fate[n] = "JudgedWith"
  <2>1. CASE n \in NotesOf(held)
    BY <1>o, <2>1, OtherwiseIsOneHeld DEF Interrupted, AtTurnEnd
  <2>2. CASE n \notin NotesOf(held)
    BY <1>o, <1>y, <2>2, AnsweredOtherwiseType
  <2>3. QED
    BY <2>1, <2>2
(* Only a completion judges a note, and it leads straight to its being      *)
(* acted on.                                                                *)
<1>j. JudgedInPhase'
  <2> SUFFICES ASSUME NEW n \in Notes, fate'[n] = "JudgedWith"
               PROVE  /\ pc' \in {"decided", "closing", "unwound", "closed"}
                      /\ pc' = "decided" => came' = "Completed"
    BY DEF JudgedInPhase
  <2>1. CASE SettleDecision
    <3>1. CASE came = "Completed"
      BY <2>1, <3>1 DEF SettleDecision, GoTo
    <3>2. CASE came # "Completed"
      <4>1. fate[n] = "JudgedWith"
        BY <2>1, <3>2, <1>o, <1>y, <1>p DEF SettleDecision, SettledWith, HeldAnswers
      <4>2. QED
        BY <2>1, <4>1, <1>p DEF SettleDecision, JudgedInPhase
    <3>3. QED
      BY <3>1, <3>2
  <2>2. CASE fate[n] = "JudgedWith"
    <3>1. /\ pc \in {"decided", "closing", "unwound", "closed"}
          /\ pc = "decided" => came = "Completed"
      BY <2>2, <1>p DEF JudgedInPhase
    <3>2. CASE EngineStep
      BY <3>1, <3>2 DEF EngineStep, Converse, DropUnread, DropUnwound, CloseInbox, DeliverQueued,
         TakeNote, OpenWorkerTurn, WorkerReturns, WorkerReplied, WorkerFailed, LostDecided,
         TurnEndNotes, OpenSupervisorTurn, JudgeReturns, JudgeStopped, JudgeAnswered,
         RetakeDecision, SettleDecision, Decided, Instruct, ObserverEnds, Finish, Unwind, GoTo
    <3>3. CASE ~EngineStep
      BY <3>1, <3>3, <1>w DEF Next, CallPCs, ObservedDuringCall, WatchStep, WatchConnects,
         RedirectConfirmed, WatchEnds, WatchTakes, WatchReleases, WatchAnswers, SenderStep, Rest,
         vars
    <3>4. QED
      BY <3>2, <3>3
  <2>3. ASSUME ~SettleDecision PROVE fate[n] = "JudgedWith"
    <3>1. CASE DeliverQueued \/ TurnEndNotes
      BY <3>1, <1>y DEF DeliverQueued, TurnEndNotes, DeliverToWorker, AnsweredAll, AtTurnEnd
    <3>2. CASE JudgeStopped
      BY <3>2, <1>o, <1>y, <1>p DEF JudgeStopped, HeldAnswers
    <3>3. CASE JudgeAnswered
      <4>1. HeldAfter \in SUBSET [note : Notes, otherwise : Accepted]
        BY <1>y, ElemsAreNotes DEF HeldAfter, HeldAs, Interrupted, Accepted, ReachedSupervisor,
           CustodyInv, TypeOK
      <4>2. \A h \in HeldAfter : h.otherwise \in {Interrupted("Supervisor"), AtTurnEnd("Supervisor")}
        BY <1>p DEF HeldAfter, HeldAs, HeldAnswers
      <4>3. QED
        BY <3>3, <4>1, <4>2, <1>o DEF JudgeAnswered
    <3>4. CASE ObservedDuringCall
      BY <3>4, <1>o, <1>y, <1>p DEF ObservedDuringCall, HeldAnswers
    <3>5. CASE DropUnread \/ DropUnwound \/ CloseInbox
      BY <3>5, <1>y DEF DropUnread, DropUnwound, CloseInbox, RefusalFor, Close, AnsweredAll, Queued
    <3>6. CASE \E m \in Notes : TakeNote(m) \/ WatchTakes(m) \/ WatchReleases(m) \/ WatchAnswers(m)
      BY <3>6, <1>y DEF TakeNote, WatchTakes, WatchReleases, WatchAnswers, Taken, Released,
         AnsweredAll, Interrupted
    <3>7. CASE \E m \in Notes : SenderStep(m)
      BY <3>7, <1>y DEF SenderStep, Offer, Withdraw, DeadlinePasses, Undelivered
    <3>8. CASE UNCHANGED fate
      BY <3>8
    <3>9. QED
      BY <2>3, <3>1, <3>2, <3>3, <3>4, <3>5, <3>6, <3>7, <3>8 DEF Next, EngineStep, WatchStep,
         Converse, OpenWorkerTurn, WorkerReturns, WorkerReplied, WorkerFailed, LostDecided,
         OpenSupervisorTurn, JudgeReturns, RetakeDecision, Decided, WatchConnects,
         RedirectConfirmed, WatchEnds, Rest, vars
  <2>4. QED
    BY <2>1, <2>2, <2>3
<1>q. QED
  BY <1>r, <1>j, <1>f, <1>a DEF PhaseInv

LEMMA PhaseInvariant == Spec => []PhaseInv
BY PhaseInit, PhaseStep, CustodyInvariant, PTL DEF Spec

(* After a completed decision is told to the notes' senders, no further     *)
(* note is accepted by anyone.                                              *)
THEOREM NothingIsAcceptedAfterJudgedWith == Spec => NothingAcceptedAfterJudgedWith
<1>1. CustodyInv /\ PhaseInv /\ [Next]_vars =>
        \A n \in Notes : fate[n] = "JudgedWith" =>
          \A m \in Notes : fate'[m] \in Accepted => fate[m] \in Accepted
  <2> SUFFICES ASSUME CustodyInv, PhaseInv, [Next]_vars, NEW n \in Notes, fate[n] = "JudgedWith",
                      NEW m \in Notes, fate'[m] \in Accepted
               PROVE  fate[m] \in Accepted
    OBVIOUS
  <2>1. pc \in {"decided", "closing", "unwound", "closed"}
    BY DEF PhaseInv, JudgedInPhase
  <2>2. watch.at = "off" /\ fate \in [Notes -> Fates] /\ closed \in {"open"} \cup Undelivered
    BY <2>1 DEF CustodyInv, WatchInPhase, CallPCs, TypeOK, InboxTypeOK
  <2> USE DEF inbox, call, engine, notes, watcher, history
  <2>3. CASE UNCHANGED fate
    BY <2>3
  <2>4. CASE \E r \in Undelivered : Close(r)
    BY <2>4, <2>2 DEF Close, AnsweredAll, Queued, Accepted, ReachedWorker, ReachedSupervisor,
       Undelivered
  <2>5. CASE \E k \in Notes : SenderStep(k)
    BY <2>5, <2>2 DEF SenderStep, Offer, Withdraw, DeadlinePasses, Accepted, ReachedWorker,
       ReachedSupervisor, Undelivered
  <2>6. CASE EngineStep
    <3>1. UNCHANGED fate \/ \E r \in Undelivered : Close(r)
      BY <2>6, <2>1 DEF EngineStep, Converse, DropUnread, DropUnwound, CloseInbox, DeliverQueued,
         TakeNote, OpenWorkerTurn, WorkerReturns, WorkerReplied, WorkerFailed, LostDecided,
         TurnEndNotes, OpenSupervisorTurn, JudgeReturns, JudgeStopped, JudgeAnswered,
         RetakeDecision, SettleDecision, Decided, RefusalFor, Undelivered
    <3>2. QED
      BY <3>1, <2>3, <2>4
  <2>7. CASE ~EngineStep
    BY <2>7, <2>1, <2>2, <2>3, <2>5 DEF Next, ObservedDuringCall, WatchStep, WatchConnects,
       RedirectConfirmed, WatchEnds, WatchTakes, WatchReleases, WatchAnswers, Rest, vars
  <2>8. QED
    BY <2>6, <2>7
<1>2. QED
  BY <1>1, CustodyInvariant, PhaseInvariant, PTL DEF NothingAcceptedAfterJudgedWith, Spec

-----------------------------------------------------------------------------
(* A note that was offered keeps what it says.                              *)
LEMMA OfferedKeepsItsDraft ==
  CustodyInv /\ [Next]_vars => \A n \in Notes : fate[n] # "unsent" => draft'[n] = draft[n]
<1> SUFFICES ASSUME CustodyInv, [Next]_vars, NEW n \in Notes, fate[n] # "unsent"
             PROVE  draft'[n] = draft[n]
  OBVIOUS
<1>1. draft \in [Notes -> Drafts \cup {NoDraft}]
  BY DEF CustodyInv, TypeOK, InboxTypeOK
<1> USE DEF inbox, call, engine, notes, watcher, history
<1>2. CASE \E m \in Notes : SenderStep(m)
  BY <1>1, <1>2 DEF SenderStep, Offer, Withdraw, DeadlinePasses
<1>3. CASE ~\E m \in Notes : SenderStep(m)
  <2>1. UNCHANGED draft
    BY <1>3 DEF Next, EngineStep, WatchStep, Converse, DropUnread, DropUnwound, CloseInbox, Close,
       DeliverQueued, DeliverToWorker, TakeNote, OpenWorkerTurn, WorkerReturns, WorkerReplied,
       WorkerFailed, LostDecided, TurnEndNotes, OpenSupervisorTurn, JudgeReturns, JudgeStopped,
       JudgeAnswered, RetakeDecision, SettleDecision, Decided, ObservedDuringCall, WatchConnects,
       RedirectConfirmed, WatchEnds, WatchTakes, WatchReleases, WatchAnswers, Rest, vars
  <2>2. QED
    BY <2>1
<1>4. QED
  BY <1>2, <1>3

(* The note asks to interrupt the party.                                    *)
AskedOf(n, p) == draft[n].how = "interrupt" /\ p \in draft[n].to

(* The party whose call the redirects not yet read back were made in.       *)
CallParty == IF WorkerCall THEN "Worker" ELSE "Supervisor"

WatchAsked == \A n \in watch.note : AskedOf(n, watch.party)
RedirectsAsked == \A n \in Elems(redirects) : AskedOf(n, CallParty)

(* Whoever holds a note as an interrupt, and every sender answered so, has  *)
(* one that asked for it.                                                   *)
Asked ==
  /\ WatchAsked
  /\ RedirectsAsked
  /\ \A h \in awaiting : h.otherwise = Interrupted("Supervisor") => AskedOf(h.note, "Supervisor")
  /\ \A n \in Notes, p \in Party : fate[n] = Interrupted(p) => AskedOf(n, p)

LEMMA AskedInit == Init => Asked
BY ElemsOfEmpty DEF Init, InboxInit, NoWatch, Asked, WatchAsked, RedirectsAsked, Interrupted, Party

LEMMA AskedStep == CustodyInv /\ PhaseInv /\ Asked /\ [Next]_vars => Asked'
<1> SUFFICES ASSUME CustodyInv, PhaseInv, Asked, [Next]_vars PROVE Asked'
  OBVIOUS
<1>y. /\ fate \in [Notes -> Fates] /\ awaiting \in SUBSET [note : Notes, otherwise : Accepted]
      /\ watch \in WatchStates /\ watch.note \subseteq Notes /\ redirects \in Seq(Notes)
      /\ WatchInPhase /\ HoldersInPhase /\ HeldIsTaken /\ Elems(redirects) \subseteq Notes
      /\ Elems(batch) \subseteq Notes /\ HeldAnswers
      /\ closed \in {"open"} \cup Undelivered
  BY ElemsAreNotes DEF CustodyInv, TypeOK, InboxTypeOK, WatchStates, PhaseInv
<1>w. watch.at # "off" => pc \in CallPCs
  BY <1>y DEF WatchInPhase
<1>d. \A n \in Notes, p \in Party : fate[n] # "unsent" /\ AskedOf(n, p) => AskedOf(n, p)'
  BY OfferedKeepsItsDraft DEF AskedOf
<1>k. /\ \A n \in watch.note : fate[n] # "unsent"
      /\ \A n \in Elems(redirects) : fate[n] # "unsent"
      /\ \A h \in awaiting : h.note \in Notes /\ fate[h.note] # "unsent"
  BY <1>y DEF HeldIsTaken, Awaited, NotesOf
<1> USE DEF inbox, call, engine, notes, watcher, history
(* The note the watch has taken. *)
<1>1. WatchAsked'
  <2>1. CASE watch'.note \subseteq watch.note /\ watch'.party = watch.party
    BY <2>1, <1>d, <1>k, <1>y DEF Asked, WatchAsked, RedirectsAsked, WatchStates
  <2>2. CASE watch'.note = {}
    BY <2>2 DEF WatchAsked
  <2>3. CASE \E n \in Notes : WatchTakes(n)
    <3> PICK n \in Notes : WatchTakes(n)
      BY <2>3
    <3>1. AskedOf(n, watch.party) /\ fate[n] # "unsent"
      BY DEF WatchTakes, Earliest, Claimable, Queued, Interrupts, AskedOf
    <3>2. watch'.note = {n} /\ watch'.party = watch.party /\ watch.party \in Party
      BY <1>y DEF WatchTakes, WatchStates
    <3>3. QED
      BY <3>1, <3>2, <1>d DEF WatchAsked
  <2>4. CASE UNCHANGED watch
    BY <2>1, <2>4
  <2>5. CASE OpenWorkerTurn \/ OpenSupervisorTurn \/ RetakeDecision
    BY <2>2, <2>4, <2>5 DEF OpenWorkerTurn, OpenSupervisorTurn, RetakeDecision, BeginAttempt,
       Armed, NoWatch
  <2>6. CASE WatchConnects \/ RedirectConfirmed \/ WatchEnds
    BY <2>1, <2>2, <2>6, <1>y DEF WatchConnects, RedirectConfirmed, WatchEnds, NoWatch, WatchStates
  <2>7. CASE \E n \in Notes : WatchReleases(n) \/ WatchAnswers(n)
    BY <2>2, <2>7, <1>y DEF WatchReleases, WatchAnswers, PassedOver, WatchStates
  <2>8. QED
    BY <2>3, <2>4, <2>5, <2>6, <2>7 DEF Next, EngineStep, WatchStep, Converse, DropUnread,
       DropUnwound, CloseInbox, DeliverQueued, TakeNote, WorkerReturns, WorkerReplied,
       WorkerFailed, LostDecided, TurnEndNotes, JudgeReturns, JudgeStopped, JudgeAnswered,
       SettleDecision, Decided, ObservedDuringCall, SenderStep, Rest, vars
(* The redirects of the call. *)
<1>2. RedirectsAsked'
  <2>1. CASE redirects' = <<>>
    BY <2>1, ElemsOfEmpty DEF RedirectsAsked
  <2>2. CASE UNCHANGED redirects /\ CallParty' = CallParty
    BY <2>2, <1>d, <1>k, <1>y DEF Asked, WatchAsked, RedirectsAsked, CallParty, Party
  <2>3. CASE \E n \in Notes : WatchAnswers(n)
    <3> PICK n \in Notes : WatchAnswers(n)
      BY <2>3
    <3>1. Elems(redirects') = Elems(redirects) \cup {n} /\ n \in watch.note
      BY <1>y, ElemsOfAppend DEF WatchAnswers
    <3>2. CallParty' = CallParty /\ CallParty = watch.party
      BY <1>y, <1>w DEF WatchAnswers, CallParty, WorkerCall, WatchInPhase, CallPCs, WatchStates, Party
    <3>3. QED
      BY <3>1, <3>2, <1>d, <1>k, <1>y DEF Asked, WatchAsked, RedirectsAsked, Party, CallParty
  <2>4. CASE UNCHANGED redirects /\ Elems(redirects) = {}
    BY <2>4 DEF RedirectsAsked
  <2>5. CASE WorkerReturns \/ JudgeReturns \/ ObservedDuringCall
    BY <2>2, <2>4, <2>5, <1>y DEF WorkerReturns, JudgeReturns, ObservedDuringCall, GoTo, Unwind,
       CallParty, WorkerCall, WatchInPhase
  <2>6. CASE \E n \in Notes : WatchTakes(n) \/ WatchReleases(n) \/ SenderStep(n)
    BY <2>2, <2>6, <1>y DEF WatchTakes, WatchReleases, PassedOver, SenderStep, CallParty, WorkerCall,
       WatchStates
  <2>7. CASE WatchConnects \/ RedirectConfirmed \/ WatchEnds \/ UNCHANGED vars \/ Rest
    BY <2>2, <2>7, <1>y DEF WatchConnects, RedirectConfirmed, WatchEnds, Ended, Rest, vars,
       CallParty, WorkerCall, WatchStates
  <2>8. CASE OpenWorkerTurn \/ OpenSupervisorTurn \/ RetakeDecision
    BY <2>1, <2>4, <2>8, <1>y DEF OpenWorkerTurn, OpenSupervisorTurn, RetakeDecision, BeginAttempt,
       HoldersInPhase, CallPCs
  <2>9. CASE WorkerReplied \/ WorkerFailed \/ JudgeStopped \/ JudgeAnswered
    BY <2>1, <2>9 DEF WorkerReplied, WorkerFailed, JudgeStopped, JudgeAnswered
  <2>10. CASE Converse \/ DropUnread \/ DropUnwound \/ CloseInbox \/ DeliverQueued
              \/ (\E n \in Notes : TakeNote(n)) \/ LostDecided \/ TurnEndNotes \/ SettleDecision \/ Decided
    BY <2>4, <2>10, <1>y DEF Converse, DropUnread, DropUnwound, CloseInbox, DeliverQueued, TakeNote,
       LostDecided, TurnEndNotes, SettleDecision, Decided, HoldersInPhase, CallPCs
  <2>11. QED
    BY <2>3, <2>5, <2>6, <2>7, <2>8, <2>9, <2>10 DEF Next, EngineStep, WatchStep

(* The senders held for the decision. *)
<1>3. \A h \in awaiting' : h.otherwise = Interrupted("Supervisor") => AskedOf(h.note, "Supervisor")'
  <2>1. CASE awaiting' \subseteq awaiting
    BY <2>1, <1>d, <1>k DEF Asked, WatchAsked, RedirectsAsked, Party
  <2>2. CASE JudgeAnswered /\ awaiting' = HeldAfter
    <3> SUFFICES ASSUME NEW h \in awaiting', h.otherwise = Interrupted("Supervisor")
                 PROVE  AskedOf(h.note, "Supervisor")'
      OBVIOUS
    <3>1. CASE h \in awaiting
      BY <3>1, <1>d, <1>k DEF Asked, WatchAsked, RedirectsAsked, Party
    <3>2. CASE h \in HeldAs(Elems(redirects), Interrupted("Supervisor"))
      BY <2>2, <3>2, <1>d, <1>k, <1>y DEF HeldAs, Asked, RedirectsAsked, CallParty, WorkerCall, JudgeAnswered, Party
    <3>3. QED
      BY <2>2, <3>1, <3>2 DEF HeldAfter
  <2>3. CASE RetakeDecision
    <3> SUFFICES ASSUME NEW h \in awaiting', h.otherwise = Interrupted("Supervisor")
                 PROVE  AskedOf(h.note, "Supervisor")'
      OBVIOUS
    <3>1. h \in awaiting
      BY <2>3 DEF RetakeDecision, HeldAs, Interrupted, AtTurnEnd
    <3>2. QED
      BY <3>1, <1>d, <1>k DEF Asked, WatchAsked, RedirectsAsked, Party
  <2>4. CASE JudgeAnswered \/ JudgeStopped \/ SettleDecision \/ ObservedDuringCall
    BY <2>1, <2>2, <2>4 DEF JudgeAnswered, JudgeStopped, SettleDecision, ObservedDuringCall
  <2>5. QED
    BY <2>1, <2>3, <2>4 DEF Next, EngineStep, WatchStep, Converse, DropUnread, DropUnwound,
       CloseInbox, DeliverQueued, DeliverToWorker, TakeNote, OpenWorkerTurn, WorkerReturns,
       WorkerReplied, WorkerFailed, LostDecided, TurnEndNotes, OpenSupervisorTurn, JudgeReturns,
       Decided, WatchConnects, RedirectConfirmed, WatchEnds, WatchTakes, WatchReleases,
       WatchAnswers, SenderStep, Rest, vars
(* The senders answered. *)
<1>o. ASSUME NEW held \in SUBSET [note : Notes, otherwise : Accepted], NEW n \in Notes, NEW p \in Party,
             \A h \in held : h.otherwise \in {Interrupted("Supervisor"), AtTurnEnd("Supervisor")},
             \A h \in held : h.otherwise = Interrupted("Supervisor") => AskedOf(h.note, "Supervisor"),
             AnsweredOtherwise(held)[n] = Interrupted(p)
      PROVE  AskedOf(n, p)
  <2>1. CASE n \in NotesOf(held)
    <3>1. PICK h \in held : h.note = n /\ AnsweredOtherwise(held)[n] = h.otherwise
      BY <2>1, OtherwiseIsOneHeld
    <3>2. p = "Supervisor"
      BY <3>1, <1>o DEF Interrupted, AtTurnEnd, Party
    <3>3. QED
      BY <3>1, <3>2, <1>o
  <2>2. CASE n \notin NotesOf(held)
    BY <1>o, <1>y, <2>2, AnsweredOtherwiseType DEF Asked
  <2>3. QED
    BY <2>1, <2>2
<1>4. \A n \in Notes, p \in Party : fate'[n] = Interrupted(p) => AskedOf(n, p)'
  <2> SUFFICES ASSUME NEW n \in Notes, NEW p \in Party, fate'[n] = Interrupted(p)
               PROVE  AskedOf(n, p)'
    OBVIOUS
  <2>p. p \in {"Worker", "Supervisor"} /\ Interrupted(p) \notin Undelivered \cup
          {"unsent", "queued", "taken", "withdrawn", "expired", "dropped", "Queued",
           "AtTurnEndWorker", "JudgedWith"}
    BY DEF Party, Interrupted, Undelivered
  <2>u. fate[n] # "unsent" /\ AskedOf(n, p) => AskedOf(n, p)'
    BY <1>d
  <2>1. CASE fate[n] = Interrupted(p)
    BY <2>1, <2>u, <2>p DEF Asked
  <2>2. ASSUME fate[n] # "unsent", AskedOf(n, p) PROVE AskedOf(n, p)'
    BY <2>2, <2>u
  <2>3. CASE \E m \in Notes : SenderStep(m)
    BY <2>1, <2>3, <2>p, <1>y DEF SenderStep, Offer, Withdraw, DeadlinePasses
  <2>4. CASE DeliverQueued \/ TurnEndNotes
    BY <2>1, <2>4, <2>p DEF DeliverQueued, TurnEndNotes, DeliverToWorker, AnsweredAll, AtTurnEnd
  <2>h. ASSUME NEW held \in SUBSET [note : Notes, otherwise : Accepted],
               \A h \in held : h.otherwise \in {Interrupted("Supervisor"), AtTurnEnd("Supervisor")},
               \A h \in held : h.otherwise = Interrupted("Supervisor") => AskedOf(h.note, "Supervisor"),
               \A m \in NotesOf(held) : fate[m] = "taken",
               AnsweredOtherwise(held)[n] = Interrupted(p)
        PROVE  AskedOf(n, p)'
    <3>1. AskedOf(n, p)
      BY <2>h, <1>o
    <3>2. fate[n] # "unsent"
      BY <2>h, <1>y, <2>p, AnsweredOtherwiseType
    <3>3. QED
      BY <3>1, <3>2, <2>u
  <2>a. /\ \A h \in awaiting : h.otherwise \in {Interrupted("Supervisor"), AtTurnEnd("Supervisor")}
        /\ \A h \in awaiting : h.otherwise = Interrupted("Supervisor") => AskedOf(h.note, "Supervisor")
        /\ \A m \in NotesOf(awaiting) : fate[m] = "taken"
    BY <1>y DEF HeldAnswers, Asked, HeldIsTaken, Awaited
  <2>5. CASE JudgeStopped
    BY <2>5, <2>a, <2>h, <2>p, <1>y DEF JudgeStopped
  <2>6. CASE JudgeAnswered /\ fate' = AnsweredOtherwise(HeldAfter)
    <3>1. HeldAfter \in SUBSET [note : Notes, otherwise : Accepted]
      BY <1>y DEF HeldAfter, HeldAs, Interrupted, Accepted, ReachedSupervisor
    <3>2. \A h \in HeldAfter : h.otherwise \in {Interrupted("Supervisor"), AtTurnEnd("Supervisor")}
      BY <2>a DEF HeldAfter, HeldAs
    <3>3. \A h \in HeldAfter : h.otherwise = Interrupted("Supervisor") => AskedOf(h.note, "Supervisor")
      BY <2>6, <2>a DEF HeldAfter, HeldAs, Asked, RedirectsAsked, CallParty, WorkerCall, JudgeAnswered
    <3>4. NotesOf(HeldAfter) = Awaited \cup Elems(redirects)
      BY HeldNotes DEF HeldAfter, Awaited
    <3>5. \A m \in NotesOf(HeldAfter) : fate[m] = "taken"
      BY <2>6, <3>4, <1>y DEF HeldIsTaken, WorkerCall, JudgeAnswered
    <3>6. QED
      BY <2>6, <3>1, <3>2, <3>3, <3>5, <2>h
  <2>7. CASE fate' = AnsweredOtherwise(awaiting)
    BY <2>7, <2>a, <2>h, <1>y
  <2>8. CASE SettleDecision
    BY <2>1, <2>7, <2>8, <2>p DEF SettleDecision, SettledWith, AnsweredAll
  <2>9. CASE DropUnread \/ DropUnwound \/ CloseInbox
    BY <2>1, <2>9, <2>p DEF DropUnread, DropUnwound, CloseInbox, RefusalFor, Close, AnsweredAll, Undelivered
  <2>10. CASE \E m \in Notes : WatchAnswers(m)
    <3> PICK m \in Notes : WatchAnswers(m)
      BY <2>10
    <3>1. CASE n = m /\ watch.party = "Worker"
      <4>1. p = "Worker" /\ m \in watch.note
        BY <3>1, <1>y, <2>p DEF WatchAnswers, AnsweredAll, Interrupted
      <4>2. QED
        BY <3>1, <4>1, <2>2, <1>k DEF Asked, WatchAsked
    <3>2. CASE fate'[n] = fate[n]
      BY <2>1, <3>2
    <3>3. QED
      BY <3>1, <3>2, <1>y DEF WatchAnswers, AnsweredAll
  <2>11. CASE \E m \in Notes : TakeNote(m) \/ WatchTakes(m) \/ WatchReleases(m)
    BY <2>1, <2>11, <2>p, <1>y DEF TakeNote, WatchTakes, WatchReleases, Taken, Released
  <2>12. CASE UNCHANGED fate
    BY <2>1, <2>12
  <2>13. CASE JudgeAnswered \/ ObservedDuringCall
    BY <2>6, <2>7, <2>12, <2>13 DEF JudgeAnswered, ObservedDuringCall
  <2>14. QED
    BY <2>3, <2>4, <2>5, <2>8, <2>9, <2>10, <2>11, <2>12, <2>13 DEF Next, EngineStep, WatchStep,
       Converse, OpenWorkerTurn, WorkerReturns, WorkerReplied, WorkerFailed, LostDecided,
       OpenSupervisorTurn, JudgeReturns, RetakeDecision, Decided, WatchConnects,
       RedirectConfirmed, WatchEnds, Rest, vars
<1>q. QED
  BY <1>1, <1>2, <1>3, <1>4 DEF Asked

LEMMA AskedInvariant == Spec => []Asked
BY AskedInit, AskedStep, CustodyInvariant, PhaseInvariant, PTL DEF Spec

-----------------------------------------------------------------------------
(* Sequences of notes without repetition, and the record they extend.       *)
Once(s) == \A i, j \in DOMAIN s : s[i] = s[j] => i = j

LEMMA OnceAppend ==
  ASSUME NEW s \in Seq(Notes), Once(s), NEW n \in Notes, n \notin Elems(s)
  PROVE  Once(Append(s, n))
<1>1. /\ Len(Append(s, n)) = Len(s) + 1 /\ Append(s, n) \in Seq(Notes)
      /\ \A i \in 1..Len(s) : Append(s, n)[i] = s[i]
      /\ Append(s, n)[Len(s) + 1] = n
      /\ Len(s) \in Nat
  BY AppendProperties
<1>2. DOMAIN s = 1..Len(s) /\ DOMAIN Append(s, n) = 1..(Len(s) + 1)
  BY <1>1
<1>3. \A i \in 1..(Len(s) + 1) : i \in 1..Len(s) \/ i = Len(s) + 1
  BY <1>1
<1>4. \A i \in 1..Len(s) : s[i] # n
  BY <1>2 DEF Elems
<1>5. QED
  BY <1>1, <1>2, <1>3, <1>4 DEF Once

RecordedOnce == \A i, j \in DOMAIN delivered : delivered[i].note = delivered[j].note => i = j

(* What the record says after a sequence of notes is recorded: its old      *)
(* entries first, then one per note of the sequence.                        *)
LEMMA RecordedAlsoEntries ==
  ASSUME delivered \in Seq(DeliveryRecord), NEW s \in Seq(Notes), NEW p \in Party
  PROVE  LET D == RecordedAlso(s, p) IN
         /\ Len(D) = Len(delivered) + Len(s) /\ DOMAIN D = 1..Len(D)
         /\ Len(delivered) \in Nat /\ Len(s) \in Nat
         /\ \A i \in 1..Len(delivered) : D[i] = delivered[i]
         /\ \A i \in 1..Len(s) : D[Len(delivered) + i] = [note |-> s[i], to |-> p]
         /\ \A i \in 1..Len(D) : i \in 1..Len(delivered) \/ i - Len(delivered) \in 1..Len(s)
<1> DEFINE more == [i \in DOMAIN s |-> [note |-> s[i], to |-> p]]
           D == RecordedAlso(s, p)
<1>1. s \in [1..Len(s) -> Notes] /\ Len(s) \in Nat /\ DOMAIN s = 1..Len(s)
  OBVIOUS
<1>2. more \in [1..Len(s) -> DeliveryRecord]
  BY <1>1 DEF DeliveryRecord
<1>3. more \in Seq(DeliveryRecord) /\ Len(more) = Len(s)
  BY <1>1, <1>2, IsASeq
<1>a. D = delivered \o more
  BY DEF RecordedAlso
<1>b. /\ delivered \o more \in Seq(DeliveryRecord)
      /\ Len(delivered \o more) = Len(delivered) + Len(more)
      /\ \A i \in 1..(Len(delivered) + Len(more)) :
           (delivered \o more)[i] = IF i <= Len(delivered) THEN delivered[i] ELSE more[i - Len(delivered)]
  <2> HIDE DEF more
  <2>1. QED
    BY <1>3, ConcatProperties
<1>4. /\ D \in Seq(DeliveryRecord) /\ Len(D) = Len(delivered) + Len(s) /\ Len(delivered) \in Nat
      /\ \A i \in 1..(Len(delivered) + Len(more)) :
           D[i] = IF i <= Len(delivered) THEN delivered[i] ELSE more[i - Len(delivered)]
  <2> HIDE DEF more, D
  <2>1. QED
    BY <1>a, <1>b, <1>3
<1>5. DOMAIN D = 1..Len(D)
  BY <1>4
<1>6. ASSUME NEW i \in 1..Len(delivered) PROVE D[i] = delivered[i]
  <2> HIDE DEF more, D
  <2>1. i \in Nat /\ 1 <= i /\ i <= Len(delivered) /\ i <= Len(delivered) + Len(more)
    BY <1>1, <1>3, <1>4, <1>6
  <2>2. i \in 1..(Len(delivered) + Len(more))
    BY <2>1, <1>1, <1>3, <1>4
  <2>3. QED
    BY <2>1, <2>2, <1>4
<1>7. ASSUME NEW i \in 1..Len(s) PROVE D[Len(delivered) + i] = [note |-> s[i], to |-> p]
  <2>1. /\ Len(delivered) + i \in 1..(Len(delivered) + Len(more))
        /\ ~(Len(delivered) + i <= Len(delivered)) /\ (Len(delivered) + i) - Len(delivered) = i
    BY <1>1, <1>3, <1>4, <1>7
  <2>2. D[Len(delivered) + i] = more[i]
    BY <2>1, <1>4
  <2>3. QED
    BY <2>2, <1>1
<1>8. ASSUME NEW i \in 1..Len(D) PROVE i \in 1..Len(delivered) \/ i - Len(delivered) \in 1..Len(s)
  BY <1>1, <1>4, <1>8
<1>9. QED
  BY <1>1, <1>4, <1>5, <1>6, <1>7, <1>8

(* Recording notes that are not on the record, none of them twice: exactly  *)
(* they are added, each once and to the given party.                        *)
LEMMA RecordedAlsoOnce ==
  ASSUME delivered \in Seq(DeliveryRecord), RecordedOnce, NEW s \in Seq(Notes), NEW p \in Party,
         Once(s), Elems(s) \cap Recorded = {}, delivered' = RecordedAlso(s, p)
  PROVE  /\ RecordedOnce'
         /\ Recorded' = Recorded \cup Elems(s)
         /\ \A i \in DOMAIN delivered' :
              \/ i \in DOMAIN delivered /\ delivered'[i] = delivered[i]
              \/ delivered'[i].note \in Elems(s) /\ delivered'[i].to = p
<1> DEFINE k == Len(delivered)
<1>1. /\ DOMAIN delivered' = 1..Len(delivered') /\ Len(delivered') = k + Len(s)
      /\ k \in Nat /\ Len(s) \in Nat
      /\ \A i \in 1..k : delivered'[i] = delivered[i]
      /\ \A i \in 1..Len(s) : delivered'[k + i] = [note |-> s[i], to |-> p]
      /\ \A i \in 1..Len(delivered') : i \in 1..k \/ i - k \in 1..Len(s)
  BY RecordedAlsoEntries
<1>2. DOMAIN delivered = 1..k /\ DOMAIN s = 1..Len(s)
  OBVIOUS
<1> HIDE DEF k
<1>3. ASSUME NEW i \in DOMAIN delivered'
      PROVE  \/ i \in 1..k /\ delivered'[i] = delivered[i]
             \/ \E j \in 1..Len(s) : i = k + j /\ delivered'[i] = [note |-> s[j], to |-> p]
  <2>1. CASE i \in 1..k
    BY <2>1, <1>1
  <2>2. CASE i - k \in 1..Len(s)
    <3>1. i = k + (i - k)
      BY <1>1, <1>3, <2>2
    <3>2. QED
      BY <3>1, <2>2, <1>1
  <2>3. QED
    BY <2>1, <2>2, <1>1, <1>3
<1>4. \A i \in 1..k : delivered[i].note \in Recorded
  BY <1>2 DEF Recorded
<1>5. \A j \in 1..Len(s) : s[j] \in Elems(s)
  BY <1>2 DEF Elems
<1>6. RecordedOnce'
  <2> SUFFICES ASSUME NEW i \in DOMAIN delivered', NEW j \in DOMAIN delivered',
                      delivered'[i].note = delivered'[j].note
               PROVE  i = j
    BY DEF RecordedOnce
  <2>1. CASE i \in 1..k /\ delivered'[i] = delivered[i] /\ j \in 1..k /\ delivered'[j] = delivered[j]
    BY <2>1, <1>2 DEF RecordedOnce
  <2>2. ASSUME NEW a \in 1..Len(s), NEW b \in 1..Len(s), i = k + a, j = k + b,
               delivered'[i].note = s[a], delivered'[j].note = s[b]
        PROVE  i = j
    BY <2>2, <1>2 DEF Once
  <2>3. QED
    BY <1>3, <1>4, <1>5, <2>1, <2>2
<1>7. Recorded' \subseteq Recorded \cup Elems(s)
  BY <1>3, <1>4, <1>5 DEF Recorded
<1>8. Recorded \subseteq Recorded'
  <2> SUFFICES ASSUME NEW i \in 1..k PROVE delivered[i].note \in Recorded'
    BY <1>2 DEF Recorded
  <2>1. i \in DOMAIN delivered' /\ delivered'[i] = delivered[i]
    BY <1>1
  <2>2. QED
    BY <2>1 DEF Recorded
<1>9. Elems(s) \subseteq Recorded'
  <2> SUFFICES ASSUME NEW j \in 1..Len(s) PROVE s[j] \in Recorded'
    BY <1>2 DEF Elems
  <2>1. j \in Nat /\ 1 <= j /\ j <= Len(s)
    BY <1>1
  <2>2. k + j \in Nat /\ 1 <= k + j /\ k + j <= Len(delivered')
    BY <2>1, <1>1
  <2>3. k + j \in 1..Len(delivered')
    BY <2>2, <1>1
  <2>4. delivered'[k + j] = [note |-> s[j], to |-> p]
    BY <1>1
  <2>5. delivered'[k + j].note = s[j]
    BY <2>4
  <2>6. QED
    BY <2>3, <2>5, <1>1 DEF Recorded
<1>10. QED
  BY <1>2, <1>3, <1>5, <1>6, <1>7, <1>8, <1>9

-----------------------------------------------------------------------------
(* The record and the answers. A note is on the record exactly while its    *)
(* sender is held for the decision, and from its accepting answer on; a     *)
(* redirect of the worker's is answered before the call's end records it.   *)
OnRecord(n) == (fate[n] \in Accepted /\ n \notin Elems(redirects)) \/ n \in Awaited

RecordedAsHeld == \A n \in Notes : n \in Recorded <=> OnRecord(n)
RecordedToParty == \A i \in DOMAIN delivered : delivered[i].to = PartyNamed(fate[delivered[i].note])

Recording == RecordedOnce /\ RecordedAsHeld /\ RecordedToParty

RecordInv == Once(batch) /\ Once(redirects) /\ Recording

LEMMA RecordInit == Init => RecordInv
BY ElemsOfEmpty DEF Init, InboxInit, RecordInv, Recording, Once, RecordedOnce, RecordedAsHeld, RecordedToParty,
   OnRecord, Recorded, Awaited, NotesOf, Accepted, ReachedWorker, ReachedSupervisor

(* The senders let go of are each told that the supervisor has their note.  *)
LEMMA OtherwiseReachesSupervisor ==
  ASSUME NEW held \in SUBSET [note : Notes, otherwise : Accepted],
         \A h \in held : h.otherwise \in {Interrupted("Supervisor"), AtTurnEnd("Supervisor")}
  PROVE  \A n \in Notes : IF n \in NotesOf(held) THEN AnsweredOtherwise(held)[n] \in ReachedSupervisor
                          ELSE AnsweredOtherwise(held)[n] = fate[n]
<1> SUFFICES ASSUME NEW n \in Notes
             PROVE  IF n \in NotesOf(held) THEN AnsweredOtherwise(held)[n] \in ReachedSupervisor
                    ELSE AnsweredOtherwise(held)[n] = fate[n]
  OBVIOUS
<1>1. CASE n \in NotesOf(held)
  BY <1>1, OtherwiseIsOneHeld DEF Interrupted, AtTurnEnd, ReachedSupervisor
<1>2. CASE n \notin NotesOf(held)
  BY <1>2 DEF AnsweredOtherwise, NotesOf
<1>3. QED
  BY <1>1, <1>2

LEMMA SettledReachesSupervisor ==
  ASSUME NEW held \in SUBSET [note : Notes, otherwise : Accepted], NEW d,
         \A h \in held : h.otherwise \in {Interrupted("Supervisor"), AtTurnEnd("Supervisor")}
  PROVE  \A n \in Notes : IF n \in NotesOf(held) THEN SettledWith(held, d)[n] \in ReachedSupervisor
                          ELSE SettledWith(held, d)[n] = fate[n]
<1>1. CASE d = "Completed"
  BY <1>1 DEF SettledWith, AnsweredAll, ReachedSupervisor
<1>2. CASE d # "Completed"
  BY <1>2, OtherwiseReachesSupervisor DEF SettledWith
<1>3. QED
  BY <1>1, <1>2

LEMMA PartiesNamed ==
  /\ \A a \in ReachedWorker : PartyNamed(a) = "Worker"
  /\ \A a \in ReachedSupervisor \cup {"taken"} : PartyNamed(a) = "Supervisor"
  /\ ReachedWorker \cup ReachedSupervisor = Accepted
BY DEF PartyNamed, ReachedWorker, ReachedSupervisor, Accepted

LEMMA RecordingStep == CustodyInv /\ PhaseInv /\ RecordInv /\ [Next]_vars => Recording'
<1> SUFFICES ASSUME CustodyInv, PhaseInv, RecordInv, [Next]_vars PROVE Recording'
  OBVIOUS
<1>y. /\ fate \in [Notes -> Fates] /\ awaiting \in SUBSET [note : Notes, otherwise : Accepted]
      /\ delivered \in Seq(DeliveryRecord) /\ batch \in Seq(Notes) /\ redirects \in Seq(Notes)
      /\ watch.note \subseteq Notes /\ Awaited \subseteq Notes /\ Recorded \subseteq Notes
      /\ Elems(batch) \subseteq Notes /\ Elems(redirects) \subseteq Notes
      /\ WatchInPhase /\ HoldersInPhase /\ HeldIsTaken /\ HeldOnce
      /\ \A h \in awaiting : h.otherwise \in {Interrupted("Supervisor"), AtTurnEnd("Supervisor")}
      /\ closed \in {"open"} \cup Undelivered
  BY ElemsAreNotes, RecordedAreNotes DEF CustodyInv, TypeOK, InboxTypeOK, WatchStates, PhaseInv,
     DeliveryRecord, Awaited, NotesOf, HeldAnswers
<1>r. Recording /\ Once(batch) /\ Once(redirects)
  BY DEF RecordInv
<1>e. /\ Elems(<<>>) = {} /\ Once(<<>>)
      /\ awaiting' = {} => Awaited' = {}
      /\ awaiting' = awaiting => Awaited' = Awaited
  BY ElemsOfEmpty DEF Awaited, NotesOf, Once
<1>n. "taken" \notin Accepted /\ "queued" \notin Accepted
  BY AcceptedIsSettled
<1> USE DEF inbox, call, engine, notes, watcher, history
(* A step that records nothing. *)
<1>s. ASSUME UNCHANGED delivered, \A n \in Notes : OnRecord(n)' <=> OnRecord(n),
             \A n \in Notes : OnRecord(n) => PartyNamed(fate'[n]) = PartyNamed(fate[n])
      PROVE  Recording'
  <2>1. Recorded' = Recorded
    BY <1>s DEF Recorded
  <2>2. \A i \in DOMAIN delivered : delivered[i].note \in Recorded
    BY DEF Recorded
  <2>3. RecordedAsHeld' /\ RecordedOnce'
    BY <1>s, <1>r, <2>1 DEF Recording, RecordedAsHeld, RecordedOnce
  <2>4. RecordedToParty'
    BY <1>s, <1>r, <1>y, <2>2 DEF Recording, RecordedAsHeld, RecordedToParty
  <2>5. QED
    BY <2>3, <2>4 DEF Recording
(* A step that records the notes of a sequence. *)
<1>m. ASSUME NEW s \in Seq(Notes), NEW p \in Party, delivered' = RecordedAlso(s, p), Once(s),
             \A n \in Elems(s) : ~OnRecord(n) /\ PartyNamed(fate'[n]) = p,
             \A n \in Notes : OnRecord(n)' <=> OnRecord(n) \/ n \in Elems(s),
             \A n \in Notes : OnRecord(n) => PartyNamed(fate'[n]) = PartyNamed(fate[n])
      PROVE  Recording'
  <2>1. Elems(s) \cap Recorded = {} /\ Elems(s) \subseteq Notes
    BY <1>m, <1>r, ElemsAreNotes DEF Recording, RecordedAsHeld
  <2>2. /\ RecordedOnce' /\ Recorded' = Recorded \cup Elems(s)
        /\ \A i \in DOMAIN delivered' :
             \/ i \in DOMAIN delivered /\ delivered'[i] = delivered[i]
             \/ delivered'[i].note \in Elems(s) /\ delivered'[i].to = p
    BY <1>m, <1>r, <1>y, <2>1, RecordedAlsoOnce DEF Recording
  <2>3. RecordedAsHeld'
    BY <1>m, <1>r, <2>2 DEF Recording, RecordedAsHeld
  <2>4. \A i \in DOMAIN delivered : delivered[i].note \in Recorded
    BY DEF Recorded
  <2>5. RecordedToParty'
    BY <1>m, <1>r, <1>y, <2>2, <2>4 DEF Recording, RecordedToParty, RecordedAsHeld
  <2>6. QED
    BY <2>2, <2>3, <2>5 DEF Recording

(* Neither the fates, the redirects nor the held senders change. *)
<1>u. ASSUME UNCHANGED <<fate, redirects, awaiting, delivered>> PROVE Recording'
  BY <1>u, <1>s, <1>e DEF OnRecord
<1>d. ASSUME NEW a \in {"Queued", AtTurnEnd("Worker")}, DeliverToWorker(a), UNCHANGED redirects,
             pc \in {"top", "turnEnd"}
      PROVE  Recording'
  <2>1. /\ fate' = AnsweredAll(Elems(batch), a) /\ delivered' = RecordedAlso(batch, "Worker")
        /\ UNCHANGED awaiting /\ a \in ReachedWorker /\ Awaited = {} /\ Elems(redirects) = {}
    BY <1>d, <1>y DEF DeliverToWorker, AtTurnEnd, ReachedWorker, HoldersInPhase, CallPCs, Awaited, NotesOf
  <2>2. \A n \in Notes : fate'[n] = IF n \in Elems(batch) THEN a ELSE fate[n]
    BY <2>1 DEF AnsweredAll
  <2>3. \A n \in Elems(batch) : ~OnRecord(n) /\ PartyNamed(fate'[n]) = "Worker"
    BY <2>1, <2>2, <1>y, <1>n, PartiesNamed DEF OnRecord, HeldIsTaken, HeldOnce
  <2>4. \A n \in Notes : OnRecord(n)' <=> OnRecord(n) \/ n \in Elems(batch)
    BY <1>d, <2>1, <2>2, <1>e, PartiesNamed DEF OnRecord
  <2>5. \A n \in Notes : OnRecord(n) => PartyNamed(fate'[n]) = PartyNamed(fate[n])
    BY <2>2, <2>3
  <2>6. QED
    BY <2>1, <2>3, <2>4, <2>5, <1>m, <1>r, <1>y DEF Party
<1>1. CASE DeliverQueued \/ TurnEndNotes
  BY <1>1, <1>d, <1>u DEF DeliverQueued, TurnEndNotes
<1>2. CASE WorkerReplied \/ WorkerFailed
  <2>1. /\ delivered' = RecordedAlso(redirects, "Worker") /\ redirects' = <<>> /\ pc = "workerEnd"
        /\ UNCHANGED <<fate, awaiting>>
    BY <1>2 DEF WorkerReplied, WorkerFailed
  <2>2. \A n \in Elems(redirects) : fate[n] = "InterruptedWorker"
    BY <2>1, <1>y DEF HeldIsTaken, WorkerCall
  <2>3. "InterruptedWorker" \in ReachedWorker
    BY DEF ReachedWorker
  <2>4. \A n \in Elems(redirects) : ~OnRecord(n) /\ PartyNamed(fate'[n]) = "Worker"
    BY <2>1, <2>2, <2>3, <1>y, PartiesNamed DEF OnRecord, HeldOnce
  <2>5. \A n \in Notes : OnRecord(n)' <=> OnRecord(n) \/ n \in Elems(redirects)
    BY <2>1, <2>2, <2>3, <1>e, PartiesNamed DEF OnRecord
  <2>6. QED
    BY <2>1, <2>4, <2>5, <1>m, <1>r, <1>y DEF Party
<1>3. CASE JudgeAnswered
  <2>1. /\ delivered' = RecordedAlso(redirects, "Supervisor") /\ redirects' = <<>> /\ pc = "judgeEnd"
    BY <1>3 DEF JudgeAnswered
  <2>2. \A n \in Elems(redirects) : fate[n] = "taken"
    BY <2>1, <1>y DEF HeldIsTaken, WorkerCall
  <2>3. \A n \in Elems(redirects) : ~OnRecord(n)
    BY <2>2, <1>y, <1>n DEF OnRecord, HeldOnce
  <2>4. \A n \in Awaited : fate[n] = "taken"
    BY <1>y DEF HeldIsTaken
  <2>5. CASE awaiting' = HeldAfter /\ UNCHANGED fate
    <3>1. Awaited' = Awaited \cup Elems(redirects)
      BY <2>5, HeldNotes DEF HeldAfter, Awaited
    <3>2. \A n \in Elems(redirects) : PartyNamed(fate'[n]) = "Supervisor"
      BY <2>2, <2>5, PartiesNamed
    <3>3. \A n \in Notes : OnRecord(n)' <=> OnRecord(n) \/ n \in Elems(redirects)
      BY <2>1, <2>2, <2>5, <3>1, <1>n, <1>e DEF OnRecord
    <3>4. QED
      BY <2>1, <2>3, <2>5, <3>2, <3>3, <1>m, <1>r, <1>y DEF Party
  <2>6. CASE awaiting' = {} /\ fate' = AnsweredOtherwise(HeldAfter)
    <3>1. /\ HeldAfter \in SUBSET [note : Notes, otherwise : Accepted]
          /\ \A h \in HeldAfter : h.otherwise \in {Interrupted("Supervisor"), AtTurnEnd("Supervisor")}
      BY <1>y DEF HeldAfter, HeldAs, Interrupted, Accepted, ReachedSupervisor
    <3>2. NotesOf(HeldAfter) = Awaited \cup Elems(redirects)
      BY HeldNotes DEF HeldAfter, Awaited
    <3>3. \A n \in Notes : IF n \in Awaited \cup Elems(redirects) THEN fate'[n] \in ReachedSupervisor
                           ELSE fate'[n] = fate[n]
      BY <2>6, <3>1, <3>2, OtherwiseReachesSupervisor
    <3>4. \A n \in Elems(redirects) : PartyNamed(fate'[n]) = "Supervisor"
      BY <3>3, <1>y, PartiesNamed
    <3>5. \A n \in Notes : OnRecord(n)' <=> OnRecord(n) \/ n \in Elems(redirects)
      BY <2>1, <2>2, <2>6, <3>3, <1>n, <1>e, PartiesNamed DEF OnRecord
    <3>6. \A n \in Notes : OnRecord(n) => PartyNamed(fate'[n]) = PartyNamed(fate[n])
      BY <2>4, <2>3, <3>3, PartiesNamed
    <3>7. QED
      BY <2>1, <2>3, <3>4, <3>5, <3>6, <1>m, <1>r, <1>y DEF Party
  <2>7. QED
    BY <1>3, <2>5, <2>6 DEF JudgeAnswered
<1>4. CASE RetakeDecision
  <2>1. /\ delivered' = RecordedAlso(batch, "Supervisor") /\ redirects' = <<>> /\ pc = "judgeDrain"
        /\ UNCHANGED fate /\ awaiting' = awaiting \cup HeldAs(Elems(batch), AtTurnEnd("Supervisor"))
    BY <1>4 DEF RetakeDecision, BeginAttempt
  <2>2. Awaited' = Awaited \cup Elems(batch) /\ Elems(redirects) = {}
    BY <2>1, <1>y, HeldNotes DEF Awaited, HoldersInPhase, CallPCs
  <2>3. \A n \in Elems(batch) : ~OnRecord(n) /\ PartyNamed(fate'[n]) = "Supervisor"
    BY <2>1, <1>y, <1>n, PartiesNamed DEF OnRecord, HeldIsTaken, HeldOnce
  <2>4. \A n \in Notes : OnRecord(n)' <=> OnRecord(n) \/ n \in Elems(batch)
    BY <2>1, <2>2, <1>e DEF OnRecord
  <2>5. QED
    BY <2>1, <2>3, <2>4, <1>m, <1>r, <1>y DEF Party

(* The held senders are answered, and what is dropped was never recorded. *)
<1>a. ASSUME UNCHANGED delivered, awaiting' = {}, NEW D \in SUBSET Notes,
             \A n \in D : n \notin Awaited /\ fate[n] = "taken" /\ fate'[n] = "dropped",
             \A n \in Notes \ D : IF n \in Awaited THEN fate'[n] \in ReachedSupervisor
                                  ELSE fate'[n] = fate[n],
             \/ redirects' = redirects /\ D = {}
             \/ redirects' = <<>> /\ D = Elems(redirects)
      PROVE  Recording'
  <2>1. "dropped" \notin Accepted
    BY DEF Accepted, ReachedWorker, ReachedSupervisor
  <2>2. \A n \in Awaited : fate[n] = "taken" /\ n \notin Elems(redirects)
    BY <1>y DEF HeldIsTaken, HeldOnce
  <2>3. \A n \in Notes : OnRecord(n)' <=> OnRecord(n)
    BY <1>a, <2>1, <2>2, <1>n, <1>e, PartiesNamed DEF OnRecord
  <2>4. \A n \in Notes : OnRecord(n) => PartyNamed(fate'[n]) = PartyNamed(fate[n])
    BY <1>a, <2>2, <1>n, PartiesNamed DEF OnRecord
  <2>5. QED
    BY <1>a, <2>3, <2>4, <1>s
<1>5. CASE SettleDecision
  <2>1. \A n \in Notes : IF n \in Awaited THEN fate'[n] \in ReachedSupervisor ELSE fate'[n] = fate[n]
    BY <1>5, <1>y, SettledReachesSupervisor DEF SettleDecision, Awaited
  <2>2. UNCHANGED <<delivered, redirects>> /\ awaiting' = {}
    BY <1>5 DEF SettleDecision
  <2>3. QED
    BY <2>1, <2>2, <1>a
<1>o. \A n \in Notes : IF n \in Awaited THEN AnsweredOtherwise(awaiting)[n] \in ReachedSupervisor
                       ELSE AnsweredOtherwise(awaiting)[n] = fate[n]
  BY <1>y, OtherwiseReachesSupervisor DEF Awaited
<1>6. CASE JudgeStopped
  <2>1. /\ redirects' = <<>> /\ awaiting' = {} /\ UNCHANGED delivered /\ pc = "judgeEnd"
        /\ \A n \in Notes : fate'[n] = IF n \in Elems(redirects) THEN "dropped"
                                       ELSE AnsweredOtherwise(awaiting)[n]
    BY <1>6 DEF JudgeStopped
  <2>2. \A n \in Elems(redirects) : n \notin Awaited /\ fate[n] = "taken" /\ fate'[n] = "dropped"
    BY <2>1, <1>y DEF HeldIsTaken, HeldOnce, WorkerCall
  <2>3. QED
    BY <2>1, <2>2, <1>o, <1>y, <1>a
<1>7. CASE ObservedDuringCall
  <2>1. CASE UNCHANGED <<fate, awaiting>>
    BY <2>1, <1>7, <1>u DEF ObservedDuringCall
  <2>2. CASE fate' = AnsweredOtherwise(awaiting) /\ awaiting' = {}
    <3>1. UNCHANGED <<delivered, redirects>>
      BY <1>7 DEF ObservedDuringCall
    <3>2. QED
      BY <2>2, <3>1, <1>o, <1>a
  <2>3. QED
    BY <2>1, <2>2, <1>7 DEF ObservedDuringCall
(* Only the fates of notes that nobody accepted change. *)
<1>f. ASSUME UNCHANGED <<delivered, redirects, awaiting>>,
             \A n \in Notes : fate'[n] = fate[n] \/ (fate[n] \notin Accepted /\ fate'[n] \notin Accepted
                                                     /\ n \notin Awaited)
      PROVE  Recording'
  BY <1>f, <1>s, <1>e DEF OnRecord
<1>8. CASE \E m \in Notes : TakeNote(m) \/ WatchTakes(m)
  <2> PICK m \in Notes : TakeNote(m) \/ WatchTakes(m)
    BY <1>8
  <2>1. /\ fate[m] = "queued" /\ fate' = [fate EXCEPT ![m] = "taken"]
        /\ UNCHANGED <<delivered, redirects, awaiting>>
    BY DEF TakeNote, WatchTakes, Earliest, Queued, Claimable, Taken
  <2>2. m \notin Awaited
    BY <2>1, <1>y DEF HeldIsTaken
  <2>3. QED
    BY <2>1, <2>2, <1>f, <1>n, <1>y
<1>9. CASE \E m \in Notes : WatchReleases(m)
  <2> PICK m \in Notes : WatchReleases(m)
    BY <1>9
  <2>1. /\ m \in watch.note /\ fate[m] = "taken" /\ m \notin Awaited
        /\ UNCHANGED <<delivered, redirects, awaiting>>
        /\ \A n \in Notes : fate'[n] = fate[n] \/ (n = m /\ fate'[n] \in {"queued", "expired"})
    BY <1>y DEF WatchReleases, Released, HeldIsTaken, HeldOnce
  <2>2. {"queued", "expired"} \cap Accepted = {}
    BY DEF Accepted, ReachedWorker, ReachedSupervisor
  <2>3. QED
    BY <2>1, <2>2, <1>f, <1>n
<1>10. CASE \E m \in Notes : WatchAnswers(m)
  <2> PICK m \in Notes : WatchAnswers(m)
    BY <1>10
  <2>1. /\ m \in watch.note /\ fate[m] = "taken" /\ m \notin Awaited
        /\ UNCHANGED <<delivered, awaiting>> /\ \A n \in Notes \ {m} : fate'[n] = fate[n]
    BY <1>y DEF WatchAnswers, HeldIsTaken, HeldOnce, AnsweredAll
  <2>2. Elems(redirects') = Elems(redirects) \cup {m}
    BY <1>y, ElemsOfAppend DEF WatchAnswers
  <2>3. \A n \in Notes : OnRecord(n)' <=> OnRecord(n)
    BY <2>1, <2>2, <1>n, <1>e DEF OnRecord
  <2>4. ~OnRecord(m)
    BY <2>1, <1>n DEF OnRecord
  <2>5. QED
    BY <2>1, <2>3, <2>4, <1>s
<1>11. CASE \E m \in Notes : SenderStep(m)
  <2> PICK m \in Notes : SenderStep(m)
    BY <1>11
  <2>1. UNCHANGED <<delivered, redirects, awaiting>>
    BY DEF SenderStep
  <2>2. CASE UNCHANGED fate
    BY <2>1, <2>2, <1>u
  <2>3. CASE fate' # fate
    <3>1. /\ fate[m] \in {"unsent", "queued"} /\ \A n \in Notes \ {m} : fate'[n] = fate[n]
          /\ fate'[m] \in Undelivered \cup {"queued", "withdrawn", "expired"}
      BY <2>3, <1>y DEF SenderStep, Offer, Withdraw, DeadlinePasses
    <3>2. /\ (Undelivered \cup {"queued", "withdrawn", "expired"}) \cap Accepted = {}
          /\ {"unsent", "queued"} \cap Accepted = {} /\ m \notin Awaited
      BY <3>1, <1>y DEF Undelivered, Accepted, ReachedWorker, ReachedSupervisor, HeldIsTaken
    <3>3. QED
      BY <2>1, <3>1, <3>2, <1>f
  <2>4. QED
    BY <2>2, <2>3
<1>12. CASE DropUnread \/ DropUnwound \/ CloseInbox
  <2>1. PICK r \in Undelivered : Close(r)
    BY <1>12 DEF DropUnread, DropUnwound, CloseInbox, RefusalFor, Undelivered
  <2>2. UNCHANGED <<delivered, redirects, awaiting>>
    BY <1>12 DEF DropUnread, DropUnwound, CloseInbox
  <2>3. \A n \in Notes : fate'[n] = fate[n] \/ (fate[n] = "queued" /\ fate'[n] = r)
    BY <2>1 DEF Close, AnsweredAll, Queued
  <2>4. r \notin Accepted /\ \A n \in Notes : fate[n] = "queued" => n \notin Awaited
    BY <1>y DEF Undelivered, Accepted, ReachedWorker, ReachedSupervisor, HeldIsTaken
  <2>5. QED
    BY <2>2, <2>3, <2>4, <1>f, <1>n
<1>13. CASE OpenWorkerTurn \/ OpenSupervisorTurn
  <2>1. UNCHANGED <<delivered, fate, awaiting>> /\ Elems(redirects) = {}
    BY <1>13, <1>y DEF OpenWorkerTurn, OpenSupervisorTurn, HoldersInPhase, CallPCs
  <2>2. Elems(redirects') = {}
    BY <1>13, <2>1, <1>e DEF OpenWorkerTurn, OpenSupervisorTurn, BeginAttempt
  <2>3. \A n \in Notes : OnRecord(n)' <=> OnRecord(n)
    BY <2>1, <2>2, <1>e DEF OnRecord
  <2>4. QED
    BY <2>1, <2>3, <1>s
<1>14. CASE Converse \/ WorkerReturns \/ LostDecided \/ JudgeReturns \/ Decided \/ WatchConnects
            \/ RedirectConfirmed \/ WatchEnds \/ Rest \/ UNCHANGED vars
  BY <1>14, <1>u DEF Converse, WorkerReturns, LostDecided, JudgeReturns, Decided, WatchConnects,
     RedirectConfirmed, WatchEnds, Rest, vars
<1>15. QED
  BY <1>1, <1>2, <1>3, <1>4, <1>5, <1>6, <1>7, <1>8, <1>9, <1>10, <1>11, <1>12, <1>13, <1>14
  DEF Next, EngineStep, WatchStep

(* No note is batched, nor redirected with, twice. *)
LEMMA OnceStep == CustodyInv /\ RecordInv /\ [Next]_vars => Once(batch)' /\ Once(redirects)'
<1> SUFFICES ASSUME CustodyInv, RecordInv, [Next]_vars PROVE Once(batch)' /\ Once(redirects)'
  OBVIOUS
<1>y. /\ batch \in Seq(Notes) /\ redirects \in Seq(Notes) /\ Once(batch) /\ Once(redirects)
      /\ HeldIsTaken /\ HeldOnce
  BY DEF CustodyInv, TypeOK, RecordInv
<1>e. Once(<<>>)
  BY DEF Once
<1> USE DEF inbox, call, engine, notes, watcher, history
<1>1. Once(batch')
  <2>1. CASE \E m \in Notes : TakeNote(m)
    <3> PICK m \in Notes : TakeNote(m)
      BY <2>1
    <3>1. m \notin Elems(batch) /\ batch' = Append(batch, m)
      BY <1>y DEF TakeNote, Earliest, Queued, HeldIsTaken
    <3>2. QED
      BY <3>1, <1>y, OnceAppend
  <2>2. CASE batch' = <<>> \/ UNCHANGED batch
    BY <2>2, <1>e, <1>y
  <2>3. QED
    BY <2>1, <2>2 DEF Next, EngineStep, WatchStep, Converse, DropUnread, DropUnwound, CloseInbox,
       DeliverQueued, DeliverToWorker, OpenWorkerTurn, WorkerReturns, WorkerReplied, WorkerFailed,
       LostDecided, TurnEndNotes, OpenSupervisorTurn, JudgeReturns, JudgeStopped, JudgeAnswered,
       RetakeDecision, SettleDecision, Decided, ObservedDuringCall, WatchConnects,
       RedirectConfirmed, WatchEnds, WatchTakes, WatchReleases, WatchAnswers, SenderStep, Rest, vars
<1>2. Once(redirects')
  <2>1. CASE \E m \in Notes : WatchAnswers(m)
    <3> PICK m \in Notes : WatchAnswers(m)
      BY <2>1
    <3>1. m \notin Elems(redirects) /\ redirects' = Append(redirects, m)
      BY <1>y DEF WatchAnswers, HeldOnce
    <3>2. QED
      BY <3>1, <1>y, OnceAppend
  <2>2. CASE redirects' = <<>> \/ UNCHANGED redirects
    BY <2>2, <1>e, <1>y
  <2>3. QED
    BY <2>1, <2>2 DEF Next, EngineStep, WatchStep, Converse, DropUnread, DropUnwound, CloseInbox,
       DeliverQueued, TakeNote, OpenWorkerTurn, WorkerReturns, WorkerReplied, WorkerFailed,
       LostDecided, TurnEndNotes, OpenSupervisorTurn, BeginAttempt, JudgeReturns, JudgeStopped,
       JudgeAnswered, RetakeDecision, SettleDecision, Decided, ObservedDuringCall, WatchConnects,
       RedirectConfirmed, WatchEnds, WatchTakes, WatchReleases, SenderStep, Rest, vars
<1>3. QED
  BY <1>1, <1>2

LEMMA RecordStep == CustodyInv /\ PhaseInv /\ RecordInv /\ [Next]_vars => RecordInv'
BY RecordingStep, OnceStep DEF RecordInv

LEMMA RecordInvariant == Spec => []RecordInv
BY RecordInit, RecordStep, CustodyInvariant, PhaseInvariant, PTL DEF Spec

(* Outside a live call, the engine's record and its senders' answers agree: *)
(* an accepted note is recorded exactly once, to the party its answer       *)
(* names, and no other is but one awaiting its decision.                    *)
THEOREM RecordAndAnswersAgree == Spec => []RecordAgreesWithAnswers
<1>1. CustodyInv /\ RecordInv => RecordAgreesWithAnswers
  <2> SUFFICES ASSUME CustodyInv, RecordInv, ~InCall, NEW n \in Notes
               PROVE  /\ fate[n] \in Accepted =>
                           TimesRecorded(n) = 1 /\ RecordedTo(n, PartyNamed(fate[n])) # {}
                      /\ fate[n] \notin Accepted =>
                           TimesRecorded(n) = IF n \in Awaited THEN 1 ELSE 0
    BY DEF RecordAgreesWithAnswers
  <2> DEFINE places == {i \in DOMAIN delivered : delivered[i].note = n}
  <2>1. Elems(redirects) = {} /\ delivered \in Seq(DeliveryRecord)
    BY DEF CustodyInv, HoldersInPhase, CallPCs, InCall, TypeOK, DeliveryRecord
  <2>2. n \in Recorded <=> fate[n] \in Accepted \/ n \in Awaited
    BY <2>1 DEF RecordInv, Recording, RecordedAsHeld, OnRecord
  <2>3. ASSUME n \in Recorded
        PROVE  TimesRecorded(n) = 1 /\ RecordedTo(n, PartyNamed(fate[n])) # {}
    <3>1. PICK i \in DOMAIN delivered : delivered[i].note = n
      BY <2>3 DEF Recorded
    <3>2. places = {i}
      BY <3>1 DEF RecordInv, Recording, RecordedOnce
    <3>3. Cardinality(places) = 1
      BY <3>2, FS_Singleton
    <3>4. delivered[i] \in DeliveryRecord /\ delivered[i].to = PartyNamed(fate[n])
      BY <2>1, <3>1 DEF RecordInv, Recording, RecordedToParty
    <3>5. delivered[i] = [note |-> n, to |-> PartyNamed(fate[n])]
      BY <3>1, <3>4 DEF DeliveryRecord
    <3>6. QED
      BY <3>3, <3>5 DEF TimesRecorded, RecordedTo
  <2>4. ASSUME n \notin Recorded PROVE TimesRecorded(n) = 0
    <3>1. places = {}
      BY <2>4 DEF Recorded
    <3>2. QED
      BY <3>1, FS_EmptySet DEF TimesRecorded
  <2>5. n \in Awaited => fate[n] \notin Accepted
    BY AcceptedIsSettled DEF CustodyInv, HeldIsTaken
  <2>6. QED
    BY <2>2, <2>3, <2>4, <2>5
<1>2. QED
  BY <1>1, CustodyInvariant, RecordInvariant, PTL

-----------------------------------------------------------------------------
(* What is taken or was redirected with is not on the record yet, and is    *)
(* added to it by being recorded.                                           *)
LEMMA RecordingAdds ==
  ASSUME CustodyInv, RecordInv
  PROVE  /\ Elems(batch) \cap Recorded = {} /\ Elems(redirects) \cap Recorded = {}
         /\ watch.note \cap Recorded = {}
         /\ \A p \in Party : /\ delivered' = RecordedAlso(batch, p) => Recorded' = Recorded \cup Elems(batch)
                             /\ delivered' = RecordedAlso(redirects, p) =>
                                  Recorded' = Recorded \cup Elems(redirects)
<1>1. /\ delivered \in Seq(DeliveryRecord) /\ batch \in Seq(Notes) /\ redirects \in Seq(Notes)
      /\ Elems(batch) \subseteq Notes /\ Elems(redirects) \subseteq Notes /\ watch.note \subseteq Notes
      /\ Once(batch) /\ Once(redirects) /\ RecordedOnce /\ RecordedAsHeld /\ HeldIsTaken /\ HeldOnce
  BY ElemsAreNotes DEF CustodyInv, TypeOK, WatchStates, RecordInv, Recording, DeliveryRecord
<1>2. \A n \in Elems(batch) \cup Elems(redirects) \cup watch.note : ~OnRecord(n)
  BY <1>1, AcceptedIsSettled DEF OnRecord, HeldIsTaken, HeldOnce
<1>3. /\ Elems(batch) \cap Recorded = {} /\ Elems(redirects) \cap Recorded = {}
      /\ watch.note \cap Recorded = {}
  BY <1>1, <1>2 DEF RecordedAsHeld
<1>4. QED
  BY <1>1, <1>3, RecordedAlsoOnce

(* The worker has been handed a note: the record says so and the supervisor *)
(* does not hold it for the next instruction, or a redirect of its turn     *)
(* carried it.                                                              *)
WorkerHas(n) ==
  \/ n \in Recorded \ forWorker
  \/ fate[n] = "InterruptedWorker"
  \/ n \in watch.note /\ watch.at = "confirmed" /\ watch.party = "Worker"

HandedInv ==
  /\ Awaited \subseteq forWorker /\ forWorker \subseteq Recorded
  /\ \A n \in forWorker : fate[n] \in {"taken"} \cup ReachedSupervisor
  /\ \A n \in Notes : fate[n] = "JudgedWith" => n \in forWorker
  /\ \A n \in Notes : handed[n] = IF WorkerHas(n) THEN 1 ELSE 0

LEMMA HandedInit == Init => HandedInv
<1> SUFFICES ASSUME Init PROVE HandedInv
  OBVIOUS
<1>1. Awaited = {} /\ forWorker = {} /\ Recorded = {} /\ watch.note = {}
  BY DEF Init, Awaited, NotesOf, Recorded, NoWatch
<1>2. \A n \in Notes : fate[n] = "unsent" /\ handed[n] = 0
  BY DEF Init, InboxInit
<1>3. QED
  BY <1>1, <1>2 DEF HandedInv, WorkerHas

LEMMA HandedStep == CustodyInv /\ PhaseInv /\ RecordInv /\ HandedInv /\ [Next]_vars => HandedInv'
<1> SUFFICES ASSUME CustodyInv, PhaseInv, RecordInv, HandedInv, [Next]_vars PROVE HandedInv'
  OBVIOUS
<1>y. /\ fate \in [Notes -> Fates] /\ awaiting \in SUBSET [note : Notes, otherwise : Accepted]
      /\ redirects \in Seq(Notes) /\ handed \in [Notes -> Nat] /\ watch \in WatchStates
      /\ watch.note \subseteq Notes /\ Awaited \subseteq Notes /\ Recorded \subseteq Notes
      /\ Elems(batch) \subseteq Notes /\ Elems(redirects) \subseteq Notes /\ forWorker \subseteq Notes
      /\ WatchInPhase /\ HoldersInPhase /\ HeldIsTaken /\ HeldOnce
      /\ \A h \in awaiting : h.otherwise \in {Interrupted("Supervisor"), AtTurnEnd("Supervisor")}
      /\ closed \in {"open"} \cup Undelivered
  BY ElemsAreNotes, RecordedAreNotes DEF CustodyInv, TypeOK, InboxTypeOK, WatchStates, PhaseInv,
     DeliveryRecord, Awaited, NotesOf, HeldAnswers
<1>e. /\ awaiting' = {} => Awaited' = {}
      /\ awaiting' = awaiting => Awaited' = Awaited
      /\ delivered' = delivered => Recorded' = Recorded
  BY DEF Awaited, NotesOf, Recorded
<1>x. /\ \A a \in ReachedSupervisor \cup {"taken"} : a # "InterruptedWorker"
      /\ \A a \in Undelivered \cup {"unsent", "queued", "taken", "withdrawn", "expired", "dropped",
                                    "Queued", "AtTurnEndWorker", "InterruptedWorker"} :
           a # "JudgedWith" /\ a \notin ReachedSupervisor
      /\ \A a \in Undelivered \cup {"unsent", "queued", "withdrawn", "expired", "dropped",
                                    "Queued", "AtTurnEndWorker"} : a # "taken" /\ a # "InterruptedWorker"
  BY DEF ReachedSupervisor, Undelivered
<1>c. /\ Elems(batch) \cap Recorded = {} /\ Elems(redirects) \cap Recorded = {}
      /\ watch.note \cap Recorded = {}
      /\ \A p \in Party : /\ delivered' = RecordedAlso(batch, p) => Recorded' = Recorded \cup Elems(batch)
                          /\ delivered' = RecordedAlso(redirects, p) =>
                               Recorded' = Recorded \cup Elems(redirects)
  BY RecordingAdds
<1>h. /\ Awaited \subseteq forWorker /\ forWorker \subseteq Recorded
      /\ \A n \in forWorker : fate[n] \in {"taken"} \cup ReachedSupervisor
      /\ \A n \in Notes : fate[n] = "JudgedWith" => n \in forWorker
      /\ \A n \in Notes : handed[n] = IF WorkerHas(n) THEN 1 ELSE 0
  BY DEF HandedInv
<1> USE DEF inbox, call, engine, notes, watcher, history
(* A step that hands nothing over. *)
<1>s. ASSUME UNCHANGED handed, Awaited' \subseteq forWorker', forWorker' \subseteq Recorded',
             \A n \in forWorker' : fate'[n] \in {"taken"} \cup ReachedSupervisor,
             \A n \in Notes : fate'[n] = "JudgedWith" => n \in forWorker',
             \A n \in Notes : WorkerHas(n)' <=> WorkerHas(n)
      PROVE  HandedInv'
  BY <1>s, <1>h DEF HandedInv
(* A step that hands over the notes of a set. *)
<1>m. ASSUME NEW S \in SUBSET Notes, HandWorker(S), Awaited' \subseteq forWorker', forWorker' \subseteq Recorded',
             \A n \in forWorker' : fate'[n] \in {"taken"} \cup ReachedSupervisor,
             \A n \in Notes : fate'[n] = "JudgedWith" => n \in forWorker',
             \A n \in S : ~WorkerHas(n),
             \A n \in Notes : WorkerHas(n)' <=> WorkerHas(n) \/ n \in S
      PROVE  HandedInv'
  BY <1>m, <1>h DEF HandedInv, HandWorker
<1>d. ASSUME NEW a \in {"Queued", AtTurnEnd("Worker")}, DeliverToWorker(a), UNCHANGED watch,
             pc \in {"top", "turnEnd"}
      PROVE  HandedInv'
  <2>1. /\ fate' = AnsweredAll(Elems(batch), a) /\ Recorded' = Recorded \cup Elems(batch)
        /\ UNCHANGED <<awaiting, forWorker>> /\ a \in {"Queued", "AtTurnEndWorker"} /\ HandWorker(Elems(batch))
    BY <1>d, <1>c DEF DeliverToWorker, PushBlock, AtTurnEnd, Party
  <2>2. forWorker = {} /\ Awaited = {} /\ watch.at = "off"
    BY <1>d, <1>y DEF PhaseInv, ForWorkerInPhase, JudgePCs, HoldersInPhase, WatchInPhase, CallPCs,
       Awaited, NotesOf
  <2>3. \A n \in Notes : fate'[n] = IF n \in Elems(batch) THEN a ELSE fate[n]
    BY <2>1 DEF AnsweredAll
  <2>4. \A n \in Elems(batch) : fate[n] = "taken" /\ n \notin Recorded
    BY <1>y, <1>c DEF HeldIsTaken
  <2>5. \A n \in Elems(batch) : ~WorkerHas(n)
    BY <2>2, <2>4 DEF WorkerHas
  <2>6. \A n \in Notes : WorkerHas(n)' <=> WorkerHas(n) \/ n \in Elems(batch)
    BY <1>d, <2>1, <2>2, <2>3, <2>4, <1>x DEF WorkerHas
  <2>7. \A n \in Notes : fate'[n] = "JudgedWith" => n \in forWorker'
    BY <2>1, <2>3, <1>h, <1>x
  <2>8. QED
    BY <2>1, <2>2, <2>5, <2>6, <2>7, <1>y, <1>e, <1>m
<1>1. CASE DeliverQueued
  BY <1>1, <1>d DEF DeliverQueued
(* Only fates change, of notes nobody holds for the worker. *)
<1>f. ASSUME UNCHANGED <<handed, delivered, forWorker, awaiting>>,
             UNCHANGED watch \/ (watch.at # "confirmed" /\ watch'.at # "confirmed"),
             \A n \in Notes :
               \/ fate'[n] = fate[n]
               \/ /\ n \notin forWorker /\ fate[n] # "InterruptedWorker"
                  /\ fate'[n] \notin {"JudgedWith", "InterruptedWorker"}
      PROVE  HandedInv'
  <2>1. \A n \in Notes : WorkerHas(n)' <=> WorkerHas(n)
    BY <1>f, <1>e DEF WorkerHas
  <2>2. \A n \in forWorker' : fate'[n] \in {"taken"} \cup ReachedSupervisor
    BY <1>f, <1>h, <1>y
  <2>3. \A n \in Notes : fate'[n] = "JudgedWith" => n \in forWorker'
    BY <1>f, <1>h
  <2>4. QED
    BY <1>f, <2>1, <2>2, <2>3, <1>h, <1>e, <1>s
<1>2. CASE TurnEndNotes
  <2>1. CASE batch = <<>>
    BY <2>1, <1>2, <1>f DEF TurnEndNotes
  <2>2. CASE batch # <<>>
    BY <2>2, <1>2, <1>d DEF TurnEndNotes
  <2>3. QED
    BY <2>1, <2>2

<1>3. CASE WorkerReplied \/ WorkerFailed
  <2>1. /\ delivered' = RecordedAlso(redirects, "Worker") /\ pc = "workerEnd"
        /\ UNCHANGED <<fate, awaiting, forWorker, handed, watch>>
    BY <1>3 DEF WorkerReplied, WorkerFailed
  <2>2. forWorker = {} /\ Recorded' = Recorded \cup Elems(redirects)
    BY <2>1, <1>c DEF PhaseInv, ForWorkerInPhase, JudgePCs, Party
  <2>3. \A n \in Elems(redirects) : fate[n] = "InterruptedWorker"
    BY <2>1, <1>y DEF HeldIsTaken, WorkerCall
  <2>4. \A n \in Notes : WorkerHas(n)' <=> WorkerHas(n)
    BY <2>1, <2>2, <2>3 DEF WorkerHas
  <2>5. QED
    BY <2>1, <2>2, <2>4, <1>h, <1>e, <1>s
(* The supervisor is handed the notes of a sequence, none of them recorded. *)
<1>v. ASSUME NEW S \in SUBSET Notes, S \cap Recorded = {}, \A n \in S : fate[n] = "taken",
             Recorded' = Recorded \cup S, forWorker' = forWorker \cup S, UNCHANGED handed,
             Awaited' \subseteq Awaited \cup S, watch.note = {}, watch'.note = {},
             \A n \in Notes : \/ n \in Awaited \cup S /\ fate'[n] \in {"taken"} \cup ReachedSupervisor
                              \/ fate'[n] = fate[n]
      PROVE  HandedInv'
  <2>1. \A n \in Notes : fate'[n] = "InterruptedWorker" <=> fate[n] = "InterruptedWorker"
    BY <1>v, <1>h, <1>x
  <2>2. \A n \in Notes : WorkerHas(n)' <=> WorkerHas(n)
    BY <1>v, <2>1 DEF WorkerHas
  <2>3. \A n \in forWorker' : fate'[n] \in {"taken"} \cup ReachedSupervisor
    BY <1>v, <1>h, <1>y
  <2>4. \A n \in Notes : fate'[n] = "JudgedWith" => n \in forWorker'
    BY <1>v, <1>h
  <2>5. Awaited' \subseteq forWorker' /\ forWorker' \subseteq Recorded'
    BY <1>v, <1>h
  <2>6. QED
    BY <1>v, <2>2, <2>3, <2>4, <2>5, <1>s
<1>4. CASE JudgeAnswered
  <2>1. /\ delivered' = RecordedAlso(redirects, "Supervisor") /\ pc = "judgeEnd" /\ watch.at = "off"
        /\ forWorker' = forWorker \cup Elems(redirects) /\ UNCHANGED <<watch, handed>>
    BY <1>4 DEF JudgeAnswered
  <2>2. Recorded' = Recorded \cup Elems(redirects) /\ watch.note = {}
    BY <2>1, <1>c, <1>y DEF Party, WatchInPhase
  <2>3. \A n \in Elems(redirects) : fate[n] = "taken"
    BY <2>1, <1>y DEF HeldIsTaken, WorkerCall
  <2>4. NotesOf(HeldAfter) = Awaited \cup Elems(redirects)
    BY HeldNotes DEF HeldAfter, Awaited
  <2>5. CASE awaiting' = HeldAfter /\ UNCHANGED fate
    <3>1. Awaited' = Awaited \cup Elems(redirects)
      BY <2>4, <2>5 DEF Awaited
    <3>2. QED
      BY <2>1, <2>2, <2>3, <2>5, <3>1, <1>y, <1>c, <1>v
  <2>6. CASE awaiting' = {} /\ fate' = AnsweredOtherwise(HeldAfter)
    <3>1. /\ HeldAfter \in SUBSET [note : Notes, otherwise : Accepted]
          /\ \A h \in HeldAfter : h.otherwise \in {Interrupted("Supervisor"), AtTurnEnd("Supervisor")}
      BY <1>y DEF HeldAfter, HeldAs, Interrupted, Accepted, ReachedSupervisor
    <3>2. \A n \in Notes : IF n \in Awaited \cup Elems(redirects) THEN fate'[n] \in ReachedSupervisor
                           ELSE fate'[n] = fate[n]
      BY <2>4, <2>6, <3>1, OtherwiseReachesSupervisor
    <3>3. QED
      BY <2>1, <2>2, <2>3, <2>6, <3>2, <1>y, <1>c, <1>e, <1>v
  <2>7. QED
    BY <1>4, <2>5, <2>6 DEF JudgeAnswered
<1>5. CASE RetakeDecision
  <2>1. /\ delivered' = RecordedAlso(batch, "Supervisor") /\ pc = "judgeDrain"
        /\ forWorker' = forWorker \cup Elems(batch) /\ UNCHANGED <<fate, handed>>
        /\ awaiting' = awaiting \cup HeldAs(Elems(batch), AtTurnEnd("Supervisor"))
        /\ watch' = Armed("Supervisor")
    BY <1>5 DEF RetakeDecision, BeginAttempt
  <2>2. Recorded' = Recorded \cup Elems(batch) /\ Awaited' = Awaited \cup Elems(batch)
    BY <2>1, <1>c, HeldNotes DEF Party, Awaited
  <2>3. watch.note = {} /\ watch'.note = {}
    BY <2>1, <1>y DEF WatchInPhase, CallPCs, Armed, NoWatch
  <2>4. \A n \in Elems(batch) : fate[n] = "taken"
    BY <1>y DEF HeldIsTaken
  <2>5. QED
    BY <2>1, <2>2, <2>3, <2>4, <1>y, <1>c, <1>v
(* The held senders are answered. *)
<1>a. ASSUME UNCHANGED <<handed, delivered, forWorker, watch>>, awaiting' = {},
             \A n \in Notes :
               \/ n \in Awaited /\ fate'[n] \in ReachedSupervisor
               \/ n \in Elems(redirects) /\ fate[n] = "taken" /\ fate'[n] = "dropped"
               \/ fate'[n] = fate[n]
      PROVE  HandedInv'
  <2>1. \A n \in Notes : fate'[n] = "InterruptedWorker" <=> fate[n] = "InterruptedWorker"
    BY <1>a, <1>h, <1>x
  <2>2. \A n \in Notes : WorkerHas(n)' <=> WorkerHas(n)
    BY <1>a, <2>1, <1>e DEF WorkerHas
  <2>3. Elems(redirects) \cap forWorker = {}
    BY <1>c, <1>h
  <2>4. \A n \in forWorker' : fate'[n] \in {"taken"} \cup ReachedSupervisor
    BY <1>a, <2>3, <1>h, <1>y
  <2>5. \A n \in Notes : fate'[n] = "JudgedWith" => n \in forWorker'
    BY <1>a, <1>h, <1>x
  <2>6. QED
    BY <1>a, <2>2, <2>4, <2>5, <1>h, <1>e, <1>s
<1>o. \A n \in Notes : IF n \in Awaited THEN AnsweredOtherwise(awaiting)[n] \in ReachedSupervisor
                       ELSE AnsweredOtherwise(awaiting)[n] = fate[n]
  BY <1>y, OtherwiseReachesSupervisor DEF Awaited
<1>6. CASE SettleDecision
  <2>1. \A n \in Notes : IF n \in Awaited THEN fate'[n] \in ReachedSupervisor ELSE fate'[n] = fate[n]
    BY <1>6, <1>y, SettledReachesSupervisor DEF SettleDecision, Awaited
  <2>2. QED
    BY <1>6, <2>1, <1>a DEF SettleDecision
<1>7. CASE JudgeStopped
  <2>1. \A n \in Elems(redirects) : fate[n] = "taken"
    BY <1>7, <1>y DEF HeldIsTaken, WorkerCall, JudgeStopped
  <2>2. QED
    BY <1>7, <2>1, <1>o, <1>a DEF JudgeStopped
<1>8. CASE ObservedDuringCall
  <2>1. CASE UNCHANGED <<fate, awaiting>>
    BY <2>1, <1>8, <1>f DEF ObservedDuringCall
  <2>2. CASE fate' = AnsweredOtherwise(awaiting) /\ awaiting' = {}
    BY <2>2, <1>8, <1>o, <1>a DEF ObservedDuringCall
  <2>3. QED
    BY <1>8, <2>1, <2>2 DEF ObservedDuringCall
<1>9. CASE Decided
  <2>1. CASE UNCHANGED <<handed, transcript, forWorker>>
    BY <2>1, <1>9, <1>f DEF Decided
  <2>2. CASE came = "Continue" /\ Instruct
    <3>1. /\ pc = "decided" /\ HandWorker(forWorker) /\ forWorker' = {}
          /\ UNCHANGED <<fate, delivered, awaiting, watch>>
      BY <2>2, <1>9 DEF Decided, Instruct, PushBlock
    <3>2. watch.at = "off" /\ Awaited = {}
      BY <3>1, <1>y DEF WatchInPhase, CallPCs, HoldersInPhase, Awaited, NotesOf
    <3>3. \A n \in Notes : fate[n] # "JudgedWith"
      BY <2>2, <3>1 DEF PhaseInv, JudgedInPhase
    <3>4. \A n \in forWorker : ~WorkerHas(n)
      BY <3>2, <1>h, <1>x DEF WorkerHas
    <3>5. \A n \in Notes : WorkerHas(n)' <=> WorkerHas(n) \/ n \in forWorker
      BY <3>1, <3>2, <1>h, <1>e DEF WorkerHas
    <3>6. QED
      BY <3>1, <3>2, <3>3, <3>4, <3>5, <1>y, <1>e, <1>m
  <2>3. QED
    BY <1>9, <2>1, <2>2 DEF Decided

<1>10. CASE RedirectConfirmed
  <2>1. /\ watch.at = "sending" /\ watch' = [watch EXCEPT !.at = "confirmed"]
        /\ UNCHANGED <<fate, delivered, awaiting, forWorker>>
    BY <1>10 DEF RedirectConfirmed
  <2>2. watch'.at = "confirmed" /\ watch'.party = watch.party /\ watch'.note = watch.note
    BY <2>1, <1>y DEF WatchStates
  <2>3. CASE watch.party = "Worker"
    <3>1. HandWorker(watch.note)
      BY <2>3, <1>10 DEF RedirectConfirmed, Framed
    <3>2. \A n \in watch.note : ~WorkerHas(n)
      BY <2>1, <1>y, <1>c DEF WorkerHas, HeldIsTaken
    <3>3. \A n \in Notes : WorkerHas(n)' <=> WorkerHas(n) \/ n \in watch.note
      BY <2>1, <2>2, <2>3, <1>e DEF WorkerHas
    <3>4. QED
      BY <2>1, <3>1, <3>2, <3>3, <1>y, <1>h, <1>e, <1>m
  <2>4. CASE watch.party # "Worker"
    <3>1. UNCHANGED handed
      BY <2>4, <1>10 DEF RedirectConfirmed
    <3>2. \A n \in Notes : WorkerHas(n)' <=> WorkerHas(n)
      BY <2>1, <2>2, <2>4, <1>e DEF WorkerHas
    <3>3. QED
      BY <2>1, <3>1, <3>2, <1>y, <1>h, <1>e, <1>s
  <2>5. QED
    BY <2>3, <2>4
<1>11. CASE \E m \in Notes : WatchAnswers(m)
  <2> PICK m \in Notes : WatchAnswers(m)
    BY <1>11
  <2>1. /\ watch.at = "confirmed" /\ m \in watch.note /\ fate[m] = "taken"
        /\ watch'.note = {} /\ UNCHANGED <<delivered, awaiting, forWorker, handed>>
    BY <1>y DEF WatchAnswers, HeldIsTaken, WatchStates
  <2>2. m \notin forWorker /\ watch.note = {m}
    BY <2>1, <1>y, <1>c, <1>h DEF WatchInPhase
  <2>3. CASE watch.party = "Worker"
    <3>1. \A n \in Notes : fate'[n] = IF n = m THEN "InterruptedWorker" ELSE fate[n]
      BY <2>3 DEF WatchAnswers, AnsweredAll, Interrupted
    <3>2. \A n \in Notes : WorkerHas(n)' <=> WorkerHas(n)
      BY <2>1, <2>2, <2>3, <3>1, <1>e DEF WorkerHas
    <3>3. QED
      BY <2>1, <2>2, <3>1, <3>2, <1>y, <1>h, <1>e, <1>x, <1>s
  <2>4. CASE watch.party # "Worker"
    <3>1. UNCHANGED fate
      BY <2>4 DEF WatchAnswers
    <3>2. \A n \in Notes : WorkerHas(n)' <=> WorkerHas(n)
      BY <2>1, <2>4, <3>1, <1>e DEF WorkerHas
    <3>3. QED
      BY <2>1, <3>1, <3>2, <1>h, <1>e, <1>s
  <2>5. QED
    BY <2>3, <2>4
<1>12. CASE \E m \in Notes : TakeNote(m)
  BY <1>12, <1>f, <1>h, <1>y, <1>x DEF TakeNote, Earliest, Queued, Taken
<1>13. CASE \E m \in Notes : WatchTakes(m)
  <2> PICK m \in Notes : WatchTakes(m)
    BY <1>13
  <2>1. /\ watch.at = "poll" /\ watch'.at = "sending" /\ fate[m] = "queued"
        /\ UNCHANGED <<handed, delivered, forWorker, awaiting>>
        /\ \A n \in Notes : fate'[n] = IF n = m THEN "taken" ELSE fate[n]
    BY <1>y DEF WatchTakes, WatchStates, Earliest, Claimable, Queued, Taken
  <2>2. m \notin forWorker
    BY <2>1, <1>h, <1>x
  <2>3. QED
    BY <2>1, <2>2, <1>f
<1>14. CASE \E m \in Notes : WatchReleases(m)
  <2> PICK m \in Notes : WatchReleases(m)
    BY <1>14
  <2>1. /\ watch.at = "sending" /\ watch'.at = "poll" /\ m \in watch.note /\ fate[m] = "taken"
        /\ UNCHANGED <<handed, delivered, forWorker, awaiting>>
        /\ \A n \in Notes : fate'[n] = fate[n] \/ (n = m /\ fate'[n] \in {"queued", "expired"})
    BY <1>y DEF WatchReleases, PassedOver, WatchStates, Released, HeldIsTaken
  <2>2. m \notin forWorker
    BY <2>1, <1>h, <1>c
  <2>3. QED
    BY <2>1, <2>2, <1>f
<1>15. CASE \E m \in Notes : SenderStep(m)
  <2> PICK m \in Notes : SenderStep(m)
    BY <1>15
  <2>1. UNCHANGED <<handed, delivered, forWorker, awaiting, watch>>
    BY DEF SenderStep
  <2>2. \A n \in Notes : \/ fate'[n] = fate[n]
                         \/ /\ fate[n] \in {"unsent", "queued"}
                            /\ fate'[n] \in Undelivered \cup {"queued", "withdrawn", "expired"}
    BY <1>y DEF SenderStep, Offer, Withdraw, DeadlinePasses
  <2>3. QED
    BY <2>1, <2>2, <1>f, <1>h, <1>x
<1>16. CASE DropUnread \/ DropUnwound \/ CloseInbox
  <2>1. PICK r \in Undelivered : Close(r)
    BY <1>16 DEF DropUnread, DropUnwound, CloseInbox, RefusalFor, Undelivered
  <2>2. \A n \in Notes : fate'[n] = fate[n] \/ (fate[n] = "queued" /\ fate'[n] = r)
    BY <2>1 DEF Close, AnsweredAll, Queued
  <2>3. QED
    BY <1>16, <2>2, <1>f, <1>h, <1>x DEF DropUnread, DropUnwound, CloseInbox
<1>17. CASE OpenWorkerTurn \/ OpenSupervisorTurn
  <2>1. /\ UNCHANGED <<handed, delivered, forWorker, awaiting, fate>>
        /\ pc \in {"open", "judgeOpen"} /\ (UNCHANGED watch \/ \E p \in Party : watch' = Armed(p))
    BY <1>17 DEF OpenWorkerTurn, OpenSupervisorTurn, BeginAttempt, Party
  <2>2. UNCHANGED watch \/ (watch.at # "confirmed" /\ watch'.at # "confirmed")
    BY <2>1, <1>y DEF WatchInPhase, CallPCs, Armed, NoWatch
  <2>3. QED
    BY <2>1, <2>2, <1>f
<1>18. CASE Converse \/ WorkerReturns \/ LostDecided \/ JudgeReturns \/ WatchConnects
            \/ WatchEnds \/ Rest \/ UNCHANGED vars
  BY <1>18, <1>f, <1>y DEF Converse, WorkerReturns, LostDecided, JudgeReturns, WatchConnects,
     WatchEnds, NoWatch, WatchStates, Rest, vars
<1>19. QED
  BY <1>1, <1>2, <1>3, <1>4, <1>5, <1>6, <1>7, <1>8, <1>9, <1>10, <1>11, <1>12, <1>13, <1>14, <1>15,
     <1>16, <1>17, <1>18 DEF Next, EngineStep, WatchStep

LEMMA HandedInvariant == Spec => []HandedInv
BY HandedInit, HandedStep, CustodyInvariant, PhaseInvariant, RecordInvariant, PTL DEF Spec

(* The worker is handed no note twice by whichever way, has been handed     *)
(* everything on the record whenever a turn of its is live, and is never    *)
(* handed a note the completed run was judged with.                         *)
THEOREM WorkerIsHandedOnce == Spec => []HandedOnce
<1>1. CustodyInv /\ PhaseInv /\ HandedInv => HandedOnce
  <2> SUFFICES ASSUME CustodyInv, PhaseInv, HandedInv, NEW n \in Notes
               PROVE  /\ handed[n] <= 1
                      /\ pc = "worker" /\ n \in Recorded => handed[n] = 1
                      /\ fate[n] = "JudgedWith" => handed[n] = 0
    BY DEF HandedOnce
  <2>1. handed[n] = IF WorkerHas(n) THEN 1 ELSE 0
    BY DEF HandedInv
  <2>2. pc = "worker" /\ n \in Recorded => WorkerHas(n)
    BY DEF PhaseInv, ForWorkerInPhase, JudgePCs, WorkerHas
  <2>3. fate[n] = "JudgedWith" => ~WorkerHas(n)
    BY DEF HandedInv, WorkerHas, CustodyInv, HeldIsTaken
  <2>4. QED
    BY <2>1, <2>2, <2>3
<1>2. QED
  BY <1>1, CustodyInvariant, PhaseInvariant, HandedInvariant, PTL

(* A sender is answered Interrupted only for a note that asked to interrupt *)
(* the party redirected, and a worker so answered for was handed it.        *)
THEOREM InterruptsAreAsAsked == Spec => []InterruptedOnlyAsAsked
<1>1. Asked /\ HandedInv => InterruptedOnlyAsAsked
  <2> SUFFICES ASSUME Asked, HandedInv, NEW n \in Notes, NEW p \in Party, fate[n] = Interrupted(p)
               PROVE  /\ draft[n].how = "interrupt" /\ p \in draft[n].to
                      /\ p = "Worker" => handed[n] = 1
    BY DEF InterruptedOnlyAsAsked
  <2>1. AskedOf(n, p)
    BY DEF Asked
  <2>2. p = "Worker" => WorkerHas(n)
    BY DEF WorkerHas, Interrupted
  <2>3. QED
    BY <2>1, <2>2 DEF AskedOf, HandedInv
<1>2. QED
  BY <1>1, AskedInvariant, HandedInvariant, PTL

-----------------------------------------------------------------------------
(* A sender let go of unanswered: its note asked to interrupt the           *)
(* supervisor, and the run was stopped.                                     *)
DroppedByStop ==
  \A n \in Notes : fate[n] = "dropped" => result = "stopped" /\ AskedOf(n, "Supervisor")

LEMMA DroppedStep ==
  CustodyInv /\ PhaseInv /\ Asked /\ DroppedByStop /\ [Next]_vars => DroppedByStop'
<1> SUFFICES ASSUME CustodyInv, PhaseInv, Asked, DroppedByStop, [Next]_vars,
                    NEW n \in Notes, fate'[n] = "dropped"
             PROVE  result' = "stopped" /\ AskedOf(n, "Supervisor")'
  BY DEF DroppedByStop
<1>y. /\ fate \in [Notes -> Fates] /\ closed \in {"open"} \cup Undelivered
      /\ HeldIsTaken
  BY DEF CustodyInv, TypeOK, InboxTypeOK
<1>a. "dropped" \notin Accepted \cup Undelivered \cup Unresolved \cup {"withdrawn", "expired"}
  BY DEF Accepted, ReachedWorker, ReachedSupervisor, Undelivered, Unresolved
<1>d. fate[n] # "unsent" /\ AskedOf(n, "Supervisor") => AskedOf(n, "Supervisor")'
  BY OfferedKeepsItsDraft DEF AskedOf
<1> USE DEF inbox, call, engine, notes, watcher, history
(* One let go of before: the run is over. *)
<1>1. CASE fate[n] = "dropped"
  <2>1. result = "stopped" /\ pc \in {"closing", "closed"} /\ AskedOf(n, "Supervisor")
    BY <1>1 DEF DroppedByStop, PhaseInv, ResultInPhase
  <2>2. UNCHANGED result
    <3>1. CASE EngineStep
      BY <2>1, <3>1 DEF EngineStep, Converse, DropUnread, DropUnwound, CloseInbox, DeliverQueued,
         TakeNote, OpenWorkerTurn, WorkerReturns, WorkerReplied, WorkerFailed, LostDecided,
         TurnEndNotes, OpenSupervisorTurn, JudgeReturns, JudgeStopped, JudgeAnswered,
         RetakeDecision, SettleDecision, Decided, GoTo
    <3>2. CASE ~EngineStep
      BY <2>1, <3>2 DEF Next, ObservedDuringCall, WatchStep, WatchConnects, RedirectConfirmed,
         WatchEnds, WatchTakes, WatchReleases, WatchAnswers, SenderStep, Rest, vars
    <3>3. QED
      BY <3>1, <3>2
  <2>3. QED
    BY <2>1, <2>2, <1>1, <1>d
(* One let go of by this step: a redirect of the turn that was stopped. *)
<1>2. CASE fate[n] # "dropped"
  <2>1. JudgeStopped
    <3>h. ASSUME NEW held \in SUBSET [note : Notes, otherwise : Accepted]
          PROVE  AnsweredOtherwise(held)[n] # "dropped"
      BY <1>2, <1>a, <1>y, AnsweredOtherwiseType
    <3>a. awaiting \in SUBSET [note : Notes, otherwise : Accepted]
      BY DEF CustodyInv, TypeOK
    <3>1. CASE fate' = AnsweredOtherwise(awaiting)
      BY <3>1, <3>h, <3>a
    <3>2. CASE fate' = AnsweredOtherwise(HeldAfter)
      <4>1. Elems(redirects) \subseteq Notes
        BY ElemsAreNotes DEF CustodyInv, TypeOK
      <4>2. HeldAfter \in SUBSET [note : Notes, otherwise : Accepted]
        BY <4>1, <3>a DEF HeldAfter, HeldAs, Interrupted, Accepted, ReachedSupervisor
      <4>3. QED
        BY <3>2, <4>2, <3>h
    <3>3. CASE SettleDecision
      BY <3>3, <3>a, <1>2, <1>a, <1>y, SettledWithType DEF SettleDecision
    <3>4. CASE DeliverQueued \/ TurnEndNotes
      BY <3>4, <1>2 DEF DeliverQueued, TurnEndNotes, DeliverToWorker, AnsweredAll, AtTurnEnd
    <3>5. CASE \E m \in Notes : TakeNote(m) \/ WatchTakes(m) \/ WatchReleases(m) \/ WatchAnswers(m)
      BY <3>5, <1>2, <1>y DEF TakeNote, WatchTakes, WatchReleases, WatchAnswers, Taken, Released,
         AnsweredAll, Interrupted
    <3>6. CASE DropUnread \/ DropUnwound \/ CloseInbox
      BY <3>6, <1>2, <1>y DEF DropUnread, DropUnwound, CloseInbox, RefusalFor, Close, AnsweredAll
    <3>7. CASE \E m \in Notes : SenderStep(m)
      BY <3>7, <1>2, <1>a, <1>y DEF SenderStep, Offer, Withdraw, DeadlinePasses
    <3>8. CASE UNCHANGED fate
      BY <3>8, <1>2
    <3>9. QED
      BY <3>1, <3>2, <3>3, <3>4, <3>5, <3>6, <3>7, <3>8 DEF Next, EngineStep, WatchStep,
         Converse, OpenWorkerTurn, WorkerReturns, WorkerReplied, WorkerFailed, LostDecided,
         OpenSupervisorTurn, JudgeReturns, JudgeAnswered, RetakeDecision, Decided,
         ObservedDuringCall, WatchConnects, RedirectConfirmed, WatchEnds, Rest, vars
  <2>2. n \in Elems(redirects) /\ fate[n] = "taken" /\ result' = "stopped"
    <3>1. awaiting \in SUBSET [note : Notes, otherwise : Accepted]
      BY DEF CustodyInv, TypeOK
    <3>2. n \in Elems(redirects)
      BY <2>1, <3>1, <1>2, <1>a, <1>y, AnsweredOtherwiseType DEF JudgeStopped
    <3>3. QED
      BY <2>1, <3>2, <1>y DEF JudgeStopped, HeldIsTaken, WorkerCall, Finish
  <2>3. AskedOf(n, "Supervisor")
    BY <2>1, <2>2 DEF Asked, RedirectsAsked, CallParty, WorkerCall, JudgeStopped
  <2>4. QED
    BY <2>2, <2>3, <1>d
<1>3. QED
  BY <1>1, <1>2

(* Whichever way a run ends, and whoever held the notes when it did, a      *)
(* closed channel leaves no offered note without an outcome, and no sender  *)
(* without an answer but those of a stopped supervisor turn's own           *)
(* redirects: converse's close, Drop for an engine that never ran or        *)
(* unwound, and AwaitingDecision's Drop.                                    *)
THEOREM NobodyIsLeftWaiting == Spec => []NobodyLeftWaiting
<1>1. Init => DroppedByStop
  BY DEF Init, InboxInit, DroppedByStop
<1>2. CustodyInv /\ RecordInv /\ DroppedByStop => NobodyLeftWaiting
  <2> SUFFICES ASSUME CustodyInv, RecordInv, DroppedByStop, pc = "closed", NEW n \in Notes
               PROVE  /\ fate[n] \notin {"queued", "taken"}
                      /\ fate[n] = "dropped" => RedirectOfStoppedTurn(n)
    BY DEF NobodyLeftWaiting
  <2>1. fate[n] # "queued"
    BY DEF CustodyInv, OpenUntilClosed
  <2>2. Elems(batch) = {} /\ Awaited = {} /\ watch.note = {} /\ Elems(redirects) = {}
    BY DEF CustodyInv, HoldersInPhase, WatchInPhase, CallPCs, Awaited, NotesOf
  <2>3. fate[n] # "taken"
    BY <2>2 DEF CustodyInv, TakenIsHeld
  <2>4. "dropped" \notin Accepted
    BY DEF Accepted, ReachedWorker, ReachedSupervisor
  <2>5. fate[n] = "dropped" => n \notin Recorded
    BY <2>2, <2>4 DEF RecordInv, Recording, RecordedAsHeld, OnRecord
  <2>6. QED
    BY <2>1, <2>3, <2>5 DEF DroppedByStop, AskedOf, RedirectOfStoppedTurn
<1>3. QED
  BY <1>1, <1>2, DroppedStep, CustodyInvariant, PhaseInvariant, AskedInvariant, RecordInvariant, PTL
  DEF Spec

-----------------------------------------------------------------------------
(* What the judge has in hand. From the query on, everything on the record, *)
(* and every note a redirect of its turn carried, is in hand; nothing is    *)
(* recorded after the decision.                                             *)
InHandInv ==
  /\ pc \in {"judge", "judgeEnd", "judgeDrain", "decided", "lostJudge"} \/ result = "completed" =>
       Recorded \subseteq inHand
  /\ pc \in {"judge", "judgeEnd"} => Elems(redirects) \subseteq inHand
  /\ pc \in {"judge", "judgeEnd"} /\ watch.at = "confirmed" => watch.note \subseteq inHand

LEMMA InHandInit == Init => InHandInv
BY DEF Init, InHandInv

LEMMA InHandStep ==
  CustodyInv /\ PhaseInv /\ PresentedIsHeld /\ RecordInv /\ InHandInv /\ [Next]_vars => InHandInv'
<1> SUFFICES ASSUME CustodyInv, PhaseInv, PresentedIsHeld, RecordInv, InHandInv, [Next]_vars
             PROVE  InHandInv'
  OBVIOUS
<1>y. /\ redirects \in Seq(Notes) /\ watch \in WatchStates
      /\ WatchInPhase /\ HoldersInPhase /\ ResultInPhase /\ TypeOK
  BY DEF CustodyInv, TypeOK, PhaseInv
<1>e. /\ delivered' = delivered => Recorded' = Recorded
      /\ Elems(<<>>) = {}
  BY ElemsOfEmpty DEF Recorded
<1>c. \A p \in Party :
        /\ delivered' = RecordedAlso(batch, p) => Recorded' = Recorded \cup Elems(batch)
        /\ delivered' = RecordedAlso(redirects, p) => Recorded' = Recorded \cup Elems(redirects)
  BY RecordingAdds
<1> USE DEF InHandInv, inbox, call, engine, notes, watcher, history
<1>1. CASE OpenSupervisorTurn
  <2>1. CASE BeginAttempt(Recorded)
    BY <2>1, <1>1, <1>e DEF OpenSupervisorTurn, BeginAttempt, GoTo, Armed, NoWatch
  <2>2. CASE ObserverEnds
    BY <2>2, <1>1, <1>y, <1>e DEF OpenSupervisorTurn, ObserverEnds, Finish, Unwind, ResultInPhase
  <2>3. QED
    BY <1>1, <2>1, <2>2 DEF OpenSupervisorTurn
<1>2. CASE RetakeDecision
  <2>1. /\ pc' = "judge" /\ inHand' = Recorded \cup Elems(batch) /\ redirects' = <<>>
        /\ Recorded' = Recorded \cup Elems(batch) /\ watch'.at # "confirmed"
    BY <1>2, <1>c DEF RetakeDecision, BeginAttempt, GoTo, Armed, NoWatch, Party
  <2>2. QED
    BY <2>1, <1>e
<1>3. CASE JudgeAnswered
  <2>1. /\ pc = "judgeEnd" /\ pc' \in {"judgeDrain", "closing", "unwound"}
        /\ Recorded' = Recorded \cup Elems(redirects) /\ UNCHANGED inHand
    BY <1>3, <1>c DEF JudgeAnswered, GoTo, Finish, Unwind, Party
  <2>2. QED
    BY <2>1
<1>4. CASE WorkerReplied \/ WorkerFailed
  <2>1. /\ pc = "workerEnd" /\ result' # "completed"
        /\ pc' \in {"closing", "unwound", "turnEnd", "lostJudge"}
        /\ Recorded' = Recorded \cup Elems(redirects)
    BY <1>4, <1>c, <1>y DEF WorkerReplied, WorkerFailed, ObserverEnds, Finish, Unwind, GoTo, Party,
       ResultInPhase
  <2>2. pc' = "lostJudge" => inHand' = Recorded \cup Elems(redirects)
    BY <1>4 DEF WorkerReplied, WorkerFailed, ObserverEnds, Finish, Unwind, GoTo
  <2>3. QED
    BY <2>1, <2>2
<1>5. CASE DeliverQueued \/ TurnEndNotes
  <2>1. pc' \in {"open", "top", "judgeOpen"} /\ result' # "completed"
    BY <1>5, <1>y DEF DeliverQueued, TurnEndNotes, GoTo, ResultInPhase
  <2>2. QED
    BY <2>1
<1>6. CASE RedirectConfirmed
  <2>1. /\ watch.at = "sending" /\ Live(watch.party) /\ watch'.note = watch.note
        /\ UNCHANGED <<delivered, redirects, pc, result>>
    BY <1>6, <1>y DEF RedirectConfirmed, WatchStates
  <2>2. CASE watch.party = "Worker"
    BY <2>1, <2>2, <1>6, <1>e, <1>y DEF RedirectConfirmed, Live, ResultInPhase
  <2>3. CASE watch.party # "Worker"
    <3>1. inHand' = inHand \cup Framed /\ Framed = watch.presented /\ pc = "judge"
      BY <2>1, <2>3, <1>6 DEF RedirectConfirmed, Framed, Live
    <3>2. watch.note \subseteq inHand'
      BY <2>1, <3>1 DEF PresentedIsHeld
    <3>3. QED
      BY <2>1, <3>1, <3>2, <1>e
  <2>4. QED
    BY <2>2, <2>3
<1>7. CASE \E n \in Notes : WatchAnswers(n)
  <2> PICK n \in Notes : WatchAnswers(n)
    BY <1>7
  <2>1. /\ watch.at = "confirmed" /\ n \in watch.note /\ Elems(redirects') = Elems(redirects) \cup {n}
        /\ UNCHANGED <<delivered, pc, result, inHand>> /\ watch'.at = "poll"
    BY <1>y, ElemsOfAppend DEF WatchAnswers, WatchStates
  <2>2. QED
    BY <2>1, <1>e
<1>8. CASE WatchConnects \/ WatchEnds \/ \E n \in Notes : WatchTakes(n) \/ WatchReleases(n)
  <2>1. UNCHANGED <<delivered, redirects, pc, result, inHand>> /\ watch'.at # "confirmed"
    <3>1. CASE WatchConnects
      BY <3>1, <1>y DEF WatchConnects, WatchStates
    <3>2. CASE WatchEnds
      BY <3>2 DEF WatchEnds, NoWatch
    <3>3. CASE \E n \in Notes : WatchTakes(n)
      BY <3>3, <1>y DEF WatchTakes, WatchStates
    <3>4. CASE \E n \in Notes : WatchReleases(n)
      BY <3>4, <1>y DEF WatchReleases, PassedOver, WatchStates
    <3>5. QED
      BY <1>8, <3>1, <3>2, <3>3, <3>4
  <2>2. QED
    BY <2>1, <1>e
<1>9. CASE UNCHANGED <<delivered, redirects, watch, inHand>>
  <2>1. CASE WorkerReturns \/ JudgeReturns \/ ObservedDuringCall
    BY <1>9, <2>1, <1>e, <1>y DEF WorkerReturns, JudgeReturns, ObservedDuringCall, GoTo, Unwind,
       ResultInPhase
  <2>2. CASE LostDecided \/ Decided \/ SettleDecision
    BY <1>9, <2>2, <1>e, <1>y DEF LostDecided, Decided, SettleDecision, Instruct, ObserverEnds,
       Finish, Unwind, GoTo, ResultInPhase
  <2>3. CASE Converse \/ DropUnread \/ DropUnwound \/ CloseInbox
    BY <1>9, <2>3, <1>e, <1>y DEF Converse, DropUnread, DropUnwound, CloseInbox, GoTo, ResultInPhase
  <2>4. CASE UNCHANGED <<pc, result>>
    BY <1>9, <2>4, <1>e
  <2>5. CASE OpenWorkerTurn
    BY <1>9, <2>5, <1>e, <1>y DEF OpenWorkerTurn, ObserverEnds, Finish, Unwind, GoTo, ResultInPhase
  <2>6. CASE JudgeStopped
    BY <1>9, <2>6, <1>e DEF JudgeStopped, Finish
  <2>7. QED
    BY <2>1, <2>2, <2>3, <2>4, <2>5, <2>6, <1>1, <1>2, <1>3, <1>4, <1>5, <1>6, <1>7, <1>8
    DEF Next, EngineStep, WatchStep, TakeNote, SenderStep, Rest, vars
<1>10. CASE OpenWorkerTurn \/ JudgeStopped
  <2>1. pc' \in {"worker", "closing", "unwound"} /\ result' # "completed"
    BY <1>10, <1>y DEF OpenWorkerTurn, JudgeStopped, ObserverEnds, Finish, Unwind, GoTo, ResultInPhase
  <2>2. QED
    BY <2>1
<1>11. QED
  BY <1>1, <1>2, <1>3, <1>4, <1>5, <1>6, <1>7, <1>8, <1>9, <1>10
  DEF Next, EngineStep, WatchStep, Converse, DropUnread, DropUnwound, CloseInbox, TakeNote,
      WorkerReturns, LostDecided, JudgeReturns, SettleDecision, Decided, ObservedDuringCall,
      SenderStep, Rest, vars, Instruct, PushBlock

LEMMA InHandInvariant == Spec => []InHandInv
BY InHandInit, InHandStep, CustodyInvariant, PhaseInvariant, PresentedInvariant, RecordInvariant, PTL
DEF Spec

(* The supervisor's decision, and the completion a run ends with, is taken  *)
(* with every note on the record in hand.                                   *)
THEOREM DecisionsHaveEverything == Spec => []DecidedWithEverything
<1>1. InHandInv => DecidedWithEverything
  BY DEF InHandInv, DecidedWithEverything
<1>2. QED
  BY <1>1, InHandInvariant, PTL
=============================================================================
