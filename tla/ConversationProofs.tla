-------------------------- MODULE ConversationProofs -------------------------
(***************************************************************************)
(* What holds of every conversation, for any notes, contents, turn cap and *)
(* settings: the theorems about Conversation.                              *)
(***************************************************************************)
EXTENDS ConversationProperties, SequenceTheorems, WellFoundedInduction, TLAPS

USE ConversationAssumption, DraftsAssumption, NoopAssumption

DeliveryRecord == [note : Notes, to : Party]

(* Recording a sequence of notes extends the record by deliveries. *)
LEMMA RecordedAlsoType ==
  ASSUME delivered \in Seq(DeliveryRecord), NEW s \in Seq(Notes), NEW p \in Party
  PROVE  RecordedAlso(s, p) \in Seq(DeliveryRecord)
<1> DEFINE more == [i \in DOMAIN s |-> [note |-> s[i], to |-> p]]
<1>1. s \in [1..Len(s) -> Notes] /\ Len(s) \in Nat /\ DOMAIN s = 1..Len(s)
  OBVIOUS
<1>2. more \in [1..Len(s) -> DeliveryRecord]
  BY <1>1 DEF DeliveryRecord
<1>3. more \in Seq(DeliveryRecord)
  BY <1>1, <1>2, IsASeq
<1>4. QED
  BY <1>3 DEF RecordedAlso

(* The elements of a sequence of notes are notes. *)
LEMMA ElemsAreNotes ==
  ASSUME NEW s \in Seq(Notes)
  PROVE  Elems(s) \subseteq Notes
BY DEF Elems

LEMMA RecordedAreNotes ==
  ASSUME delivered \in Seq(DeliveryRecord)
  PROVE  Recorded \subseteq Notes
<1>1. SUFFICES ASSUME NEW i \in DOMAIN delivered PROVE delivered[i].note \in Notes
  BY DEF Recorded
<1>2. delivered[i] \in DeliveryRecord
  OBVIOUS
<1>3. QED
  BY <1>2 DEF DeliveryRecord

(* However a set of held senders is answered, each gets an accepted answer  *)
(* and nobody else's fate changes.                                          *)
LEMMA AnsweredOtherwiseType ==
  ASSUME fate \in [Notes -> Fates],
         NEW held \in SUBSET [note : Notes, otherwise : Accepted]
  PROVE  /\ AnsweredOtherwise(held) \in [Notes -> Fates]
         /\ \A n \in Notes :
              IF n \in NotesOf(held) THEN AnsweredOtherwise(held)[n] \in Accepted
              ELSE AnsweredOtherwise(held)[n] = fate[n]
<1>1. ASSUME NEW n \in Notes, \E h \in held : h.note = n
      PROVE  (CHOOSE h \in held : h.note = n).otherwise \in Accepted
  <2>1. (CHOOSE h \in held : h.note = n) \in held
    BY <1>1
  <2>2. QED
    BY <2>1
<1>2. Accepted \subseteq Fates
  BY DEF Fates
<1>3. QED
  BY <1>1, <1>2 DEF AnsweredOtherwise, NotesOf

LEMMA SettledWithType ==
  ASSUME fate \in [Notes -> Fates], NEW d,
         NEW held \in SUBSET [note : Notes, otherwise : Accepted]
  PROVE  /\ SettledWith(held, d) \in [Notes -> Fates]
         /\ \A n \in Notes :
              IF n \in NotesOf(held) THEN SettledWith(held, d)[n] \in Accepted
              ELSE SettledWith(held, d)[n] = fate[n]
<1>1. CASE d = "Completed"
  <2>1. "JudgedWith" \in Accepted /\ Accepted \subseteq Fates
    BY DEF Accepted, ReachedSupervisor, Fates
  <2>2. QED
    BY <1>1, <2>1 DEF SettledWith, AnsweredAll, NotesOf
<1>2. CASE d # "Completed"
  BY <1>2, AnsweredOtherwiseType DEF SettledWith
<1>3. QED
  BY <1>1, <1>2

(* A streak stays a streak, whatever exchange follows. *)
LEMMA ObserveType ==
  ASSUME streak \in Streak, NEW x \in Exchanges
  PROVE  Observe(streak, x) \in Streak
<1>1. x \in Exchange
  OBVIOUS
<1>2. QED
  BY <1>1 DEF Exchange, Observe, Quiet, NoStreak, Streak

-----------------------------------------------------------------------------
(* TypeOK, action by action. *)

LEMMA TypeOKInit == Init => TypeOK
<1> SUFFICES ASSUME Init PROVE TypeOK
  OBVIOUS
<1>1. InboxTypeOK
  BY DEF Init, InboxInit, InboxTypeOK, Fates, Unresolved
<1>2. NoStreak \in Streak
  BY DEF NoStreak, Streak
<1>3. NoWatch \in WatchStates
  BY DEF NoWatch, WatchStates, Party
<1>4. supervised \in BOOLEAN /\ broke \in BOOLEAN
  BY DEF Init
<1>5. pc \in PCs /\ came \in Decisions \cup WorkerAnswers \cup {"none"} /\ result \in Results
  BY DEF Init, PCs, Results
<1>6. turns \in Nat /\ handed \in [Notes -> Nat]
  BY DEF Init
<1>7. batch \in Seq(Notes) /\ redirects \in Seq(Notes) /\ delivered \in Seq([note : Notes, to : Party])
  BY DEF Init
<1>8. QED
  BY <1>1, <1>2, <1>3, <1>4, <1>5, <1>6, <1>7 DEF Init, TypeOK

(* The senders' steps and the close change only the inbox. *)
LEMMA InboxTypeStep ==
  ASSUME InboxTypeOK,
         \/ \E n \in Notes : (\E d \in Drafts : Offer(n, d)) \/ Withdraw(n) \/ DeadlinePasses(n)
         \/ \E r \in Undelivered : Close(r)
  PROVE  InboxTypeOK'
<1> USE DEF InboxTypeOK, Fates, Unresolved
<1>1. CASE \E n \in Notes, d \in Drafts : Offer(n, d)
  BY <1>1 DEF Offer
<1>2. CASE \E n \in Notes : Withdraw(n)
  BY <1>2 DEF Withdraw
<1>3. CASE \E n \in Notes : DeadlinePasses(n)
  BY <1>3 DEF DeadlinePasses
<1>4. CASE \E r \in Undelivered : Close(r)
  BY <1>4 DEF Close, AnsweredAll, Queued
<1>5. QED
  BY <1>1, <1>2, <1>3, <1>4

(* Armed, Finish and the other small pieces of the actions. *)
LEMMA ArmedType == ASSUME NEW p \in Party PROVE Armed(p) \in WatchStates
BY DEF Armed, NoWatch, WatchStates, Party

LEMMA WatchUpdated ==
  ASSUME watch \in WatchStates,
         NEW a \in {"off", "dial", "poll", "sending", "confirmed"}, NEW S \in SUBSET Notes,
         NEW P \in SUBSET Notes, NEW O \in SUBSET (Drafts \cup {NoDraft})
  PROVE  /\ [watch EXCEPT !.at = a, !.note = S] \in WatchStates
         /\ [watch EXCEPT !.at = a, !.note = S, !.presented = P] \in WatchStates
         /\ [watch EXCEPT !.at = a, !.note = S, !.presented = P, !.over = O] \in WatchStates
BY DEF WatchStates

LEMMA TypeOKStep == TypeOK /\ [Next]_vars => TypeOK'
<1> SUFFICES ASSUME TypeOK, [Next]_vars PROVE TypeOK'
  OBVIOUS
<1> USE DEF TypeOK, inbox, call, engine, notes, watcher, history
<1>1. CASE Converse
  BY <1>1 DEF Converse, GoTo, PCs, InboxTypeOK
<1>2. CASE DropUnread \/ DropUnwound \/ CloseInbox
  <2>1. \E r \in Undelivered : Close(r)
    BY <1>2 DEF DropUnread, DropUnwound, CloseInbox, RefusalFor, Undelivered
  <2>2. InboxTypeOK'
    BY <2>1, InboxTypeStep
  <2>3. QED
    BY <1>2, <2>2 DEF DropUnread, DropUnwound, CloseInbox, GoTo, PCs
<1>u. UNCHANGED inbox => InboxTypeOK'
  BY DEF InboxTypeOK
<1>f. ASSUME fate' \in [Notes -> Fates], UNCHANGED <<draft, stamp, arrivals, late, closed>>
      PROVE  InboxTypeOK'
  BY <1>f DEF InboxTypeOK
<1>d. ASSUME NEW a \in Accepted, DeliverToWorker(a)
      PROVE  /\ InboxTypeOK'
             /\ delivered' \in Seq([note : Notes, to : Party])
             /\ batch' \in Seq(Notes)
             /\ handed' \in [Notes -> Nat]
             /\ transcript' \subseteq Notes
             /\ UNCHANGED <<forWorker, awaiting, inHand>>
  <2>1. fate' \in [Notes -> Fates]
    BY <1>d DEF DeliverToWorker, AnsweredAll, InboxTypeOK, Fates
  <2>2. InboxTypeOK'
    BY <2>1, <1>f, <1>d DEF DeliverToWorker
  <2>3. delivered' \in Seq([note : Notes, to : Party])
    BY <1>d, RecordedAlsoType DEF DeliverToWorker, DeliveryRecord, Party
  <2>4. Elems(batch) \subseteq Notes
    BY ElemsAreNotes
  <2>5. handed' \in [Notes -> Nat] /\ transcript' \subseteq Notes
    BY <1>d, <2>4 DEF DeliverToWorker, PushBlock, HandWorker
  <2>6. batch' \in Seq(Notes)
    BY <1>d DEF DeliverToWorker
  <2>7. QED
    BY <1>d, <2>2, <2>3, <2>5, <2>6 DEF DeliverToWorker
<1>3. CASE DeliverQueued
  <2>1. "Queued" \in Accepted /\ DeliverToWorker("Queued")
    BY <1>3 DEF DeliverQueued, Accepted, ReachedWorker
  <2>2. QED
    BY <1>3, <2>1, <1>d DEF DeliverQueued, GoTo, PCs
<1>4. CASE \E n \in Notes : TakeNote(n)
  <2> PICK n \in Notes : TakeNote(n)
    BY <1>4
  <2>1. fate' \in [Notes -> Fates]
    BY DEF TakeNote, Taken, InboxTypeOK, Fates, Unresolved
  <2>2. InboxTypeOK'
    BY <2>1, <1>f DEF TakeNote
  <2>3. batch' \in Seq(Notes)
    BY DEF TakeNote
  <2>4. QED
    BY <2>2, <2>3 DEF TakeNote
<1>w. Armed("Worker") \in WatchStates /\ Armed("Supervisor") \in WatchStates
  <2>1. "Worker" \in Party /\ "Supervisor" \in Party
    BY DEF Party
  <2>2. QED
    BY <2>1, ArmedType
<1>5. CASE OpenWorkerTurn
  <2>1. pc' \in PCs /\ result' \in Results /\ broke' \in BOOLEAN
    BY <1>5 DEF OpenWorkerTurn, ObserverEnds, Finish, Unwind, GoTo, PCs, Results
  <2>2. watch' \in WatchStates
    BY <1>5, <1>w DEF OpenWorkerTurn
  <2>3. redirects' \in Seq(Notes)
    <3>1. <<>> \in Seq(Notes) /\ redirects \in Seq(Notes)
      BY EmptySeq
    <3>2. redirects' = redirects \/ redirects' = <<>>
      BY <1>5 DEF OpenWorkerTurn
    <3>3. QED
      BY <3>1, <3>2
  <2>4. QED
    BY <1>5, <1>u, <2>1, <2>2, <2>3 DEF OpenWorkerTurn
<1>6. CASE WorkerReturns
  BY <1>6, <1>u DEF WorkerReturns, GoTo, PCs
<1>r. /\ RecordedAlso(redirects, "Worker") \in Seq([note : Notes, to : Party])
      /\ RecordedAlso(redirects, "Supervisor") \in Seq([note : Notes, to : Party])
      /\ RecordedAlso(batch, "Supervisor") \in Seq([note : Notes, to : Party])
      /\ Elems(redirects) \subseteq Notes /\ Elems(batch) \subseteq Notes
      /\ Recorded \subseteq Notes
  BY RecordedAlsoType, RecordedAreNotes, ElemsAreNotes DEF DeliveryRecord, Party
<1>7. CASE WorkerReplied
  <2>1. turns' \in Nat
    BY <1>7 DEF WorkerReplied, TurnsAfter
  <2>2. streak' \in Streak
    BY <1>7, ObserveType DEF WorkerReplied
  <2>3. pc' \in PCs /\ result' \in Results
    BY <1>7 DEF WorkerReplied, ObserverEnds, Finish, Unwind, GoTo, PCs, Results
  <2>4. delivered' \in Seq([note : Notes, to : Party]) /\ redirects' \in Seq(Notes)
        /\ transcript' \subseteq Notes
    BY <1>7, <1>r DEF WorkerReplied
  <2>5. QED
    BY <1>7, <1>u, <2>1, <2>2, <2>3, <2>4 DEF WorkerReplied
<1>8. CASE WorkerFailed
  <2>1. pc' \in PCs /\ result' \in Results
    BY <1>8 DEF WorkerFailed, Finish, Unwind, GoTo, PCs, Results
  <2>2. delivered' \in Seq([note : Notes, to : Party]) /\ redirects' \in Seq(Notes)
        /\ inHand' \subseteq Notes
    BY <1>8, <1>r DEF WorkerFailed
  <2>3. QED
    BY <1>8, <1>u, <2>1, <2>2 DEF WorkerFailed
<1>9. CASE LostDecided
  <2>1. pc' \in PCs /\ result' \in Results
    BY <1>9 DEF LostDecided, ObserverEnds, Finish, Unwind, GoTo, PCs, Results
  <2>2. QED
    BY <1>9, <1>u, <2>1 DEF LostDecided
<1>10. CASE TurnEndNotes
  <2>1. CASE batch = <<>>
    BY <1>10, <1>u, <2>1 DEF TurnEndNotes, GoTo, PCs
  <2>2. CASE batch # <<>>
    <3>1. AtTurnEnd("Worker") \in Accepted /\ DeliverToWorker(AtTurnEnd("Worker"))
      BY <1>10, <2>2 DEF TurnEndNotes, AtTurnEnd, Accepted, ReachedWorker
    <3>2. QED
      BY <1>10, <2>2, <3>1, <1>d DEF TurnEndNotes, GoTo, PCs
  <2>3. QED
    BY <2>1, <2>2
<1>b. ASSUME NEW r \in SUBSET Notes, BeginAttempt(r)
      PROVE  /\ pc' \in PCs /\ result' \in Results /\ broke' \in BOOLEAN
             /\ watch' \in WatchStates /\ redirects' \in Seq(Notes) /\ inHand' \subseteq Notes
  <2>1. pc' \in PCs /\ result' \in Results /\ broke' \in BOOLEAN
    BY <1>b DEF BeginAttempt, GoTo, PCs
  <2>2. watch' \in WatchStates
    BY <1>b, <1>w DEF BeginAttempt
  <2>3. redirects' \in Seq(Notes) /\ inHand' \subseteq Notes
    BY <1>b DEF BeginAttempt
  <2>4. QED
    BY <2>1, <2>2, <2>3
<1>11. CASE OpenSupervisorTurn
  <2>1. CASE BeginAttempt(Recorded)
    BY <1>11, <1>u, <1>b, <1>r, <2>1 DEF OpenSupervisorTurn
  <2>2. CASE ObserverEnds /\ UNCHANGED <<broke, watcher, inHand>>
    BY <1>11, <1>u, <2>2 DEF OpenSupervisorTurn, ObserverEnds, Finish, Unwind, PCs, Results
  <2>3. QED
    BY <1>11, <2>1, <2>2 DEF OpenSupervisorTurn
<1>12. CASE JudgeReturns
  BY <1>12, <1>u DEF JudgeReturns, GoTo, PCs, WorkerAnswers
<1>a. fate \in [Notes -> Fates] /\ AnsweredOtherwise(awaiting) \in [Notes -> Fates]
  BY AnsweredOtherwiseType DEF InboxTypeOK
<1>13. CASE JudgeStopped
  <2>1. fate' \in [Notes -> Fates]
    BY <1>13, <1>a DEF JudgeStopped, Fates
  <2>2. InboxTypeOK'
    BY <1>13, <2>1, <1>f DEF JudgeStopped
  <2>3. QED
    BY <1>13, <2>2 DEF JudgeStopped, Finish, PCs, Results
<1>14. CASE JudgeAnswered
  <2>1. HeldAfter \in SUBSET [note : Notes, otherwise : Accepted]
    BY <1>r DEF HeldAfter, HeldAs, Interrupted, Accepted, ReachedSupervisor
  <2>2. fate' \in [Notes -> Fates]
    BY <1>14, <1>a, <2>1, AnsweredOtherwiseType DEF JudgeAnswered
  <2>3. InboxTypeOK'
    BY <1>14, <2>2, <1>f DEF JudgeAnswered
  <2>4. awaiting' \in SUBSET [note : Notes, otherwise : Accepted]
    BY <1>14, <2>1 DEF JudgeAnswered
  <2>5. pc' \in PCs /\ result' \in Results
    BY <1>14 DEF JudgeAnswered, Finish, Unwind, GoTo, PCs, Results
  <2>6. delivered' \in Seq([note : Notes, to : Party]) /\ redirects' \in Seq(Notes)
        /\ forWorker' \subseteq Notes
    BY <1>14, <1>r DEF JudgeAnswered
  <2>7. QED
    BY <1>14, <2>3, <2>4, <2>5, <2>6 DEF JudgeAnswered
<1>15. CASE RetakeDecision
  <2>1. awaiting' \in SUBSET [note : Notes, otherwise : Accepted]
    BY <1>15, <1>r DEF RetakeDecision, HeldAs, AtTurnEnd, Accepted, ReachedSupervisor
  <2>2. delivered' \in Seq([note : Notes, to : Party]) /\ batch' \in Seq(Notes)
        /\ forWorker' \subseteq Notes
    BY <1>15, <1>r DEF RetakeDecision
  <2>3. BeginAttempt(Recorded \cup Elems(batch)) /\ Recorded \cup Elems(batch) \in SUBSET Notes
    BY <1>15, <1>r DEF RetakeDecision
  <2>4. QED
    BY <1>15, <1>u, <1>b, <2>1, <2>2, <2>3 DEF RetakeDecision
<1>16. CASE SettleDecision
  <2>1. fate' \in [Notes -> Fates]
    BY <1>16, <1>a, SettledWithType DEF SettleDecision
  <2>2. InboxTypeOK'
    BY <1>16, <2>1, <1>f DEF SettleDecision
  <2>3. QED
    BY <1>16, <2>2 DEF SettleDecision, GoTo, PCs
<1>17. CASE Decided
  <2>1. pc' \in PCs /\ result' \in Results
    BY <1>17 DEF Decided, Instruct, ObserverEnds, Finish, Unwind, GoTo, PCs, Results
  <2>2. handed' \in [Notes -> Nat] /\ transcript' \subseteq Notes /\ forWorker' \subseteq Notes
    BY <1>17, SMTT(30) DEF Decided, Instruct, PushBlock, HandWorker
  <2>3. QED
    BY <1>17, <1>u, <2>1, <2>2 DEF Decided
<1>18. CASE ObservedDuringCall
  <2>1. fate' \in [Notes -> Fates]
    BY <1>18, <1>a DEF ObservedDuringCall
  <2>2. InboxTypeOK'
    BY <1>18, <2>1, <1>f DEF ObservedDuringCall
  <2>3. pc' \in PCs /\ result' \in Results /\ broke' \in BOOLEAN
    BY <1>18 DEF ObservedDuringCall, Unwind, GoTo, PCs
  <2>4. awaiting' \in SUBSET [note : Notes, otherwise : Accepted]
    BY <1>18 DEF ObservedDuringCall
  <2>5. QED
    BY <1>18, <2>2, <2>3, <2>4 DEF ObservedDuringCall
<1>19. CASE WatchStep
  <2>1. CASE WatchConnects
    BY <1>u, <2>1 DEF WatchConnects, WatchStates
  <2>2. CASE RedirectConfirmed
    <3>1. Framed \subseteq Notes /\ watch' \in WatchStates
      BY <2>2 DEF RedirectConfirmed, Framed, WatchStates
    <3>2. handed' \in [Notes -> Nat] /\ inHand' \subseteq Notes
      <4>1. CASE watch.party = "Worker"
        <5>1. UNCHANGED inHand /\ HandWorker(Framed)
          BY <2>2, <4>1 DEF RedirectConfirmed
        <5>2. \A n \in Notes : handed[n] + (IF n \in Framed THEN 1 ELSE 0) \in Nat
          OBVIOUS
        <5>3. QED
          BY <5>1, <5>2 DEF HandWorker
      <4>2. CASE watch.party # "Worker"
        BY <2>2, <3>1, <4>2 DEF RedirectConfirmed
      <4>3. QED
        BY <4>1, <4>2
    <3>3. QED
      BY <1>u, <2>2, <3>1, <3>2 DEF RedirectConfirmed
  <2>3. CASE WatchEnds
    BY <1>u, <2>3 DEF WatchEnds, NoWatch, WatchStates, Party
  <2>4. CASE \E n \in Notes : WatchTakes(n)
    <3>1. fate' \in [Notes -> Fates]
      BY <2>4 DEF WatchTakes, Taken, InboxTypeOK, Fates, Unresolved
    <3>2. InboxTypeOK'
      BY <2>4, <3>1, <1>f DEF WatchTakes
    <3>3. watch' \in WatchStates
      <4> PICK n \in Notes : WatchTakes(n)
        BY <2>4
      <4>1. watch' = [watch EXCEPT !.at = "sending", !.note = {n},
                                   !.presented = watch.presented \cup {n}]
        BY DEF WatchTakes
      <4>2. watch.presented \cup {n} \in SUBSET Notes /\ {n} \in SUBSET Notes
        BY DEF WatchStates
      <4>3. QED
        BY <4>1, <4>2, WatchUpdated
    <3>4. QED
      BY <2>4, <3>2, <3>3 DEF WatchTakes
  <2>5. CASE \E n \in Notes : WatchReleases(n)
    <3>1. fate' \in [Notes -> Fates]
      BY <2>5 DEF WatchReleases, Released, InboxTypeOK, Fates, Unresolved
    <3>2. InboxTypeOK'
      BY <2>5, <3>1, <1>f DEF WatchReleases
    <3>3. {draft[n] : n \in watch.note} \subseteq Drafts \cup {NoDraft}
      BY DEF InboxTypeOK, WatchStates
    <3>4. watch' \in WatchStates
      <4>1. watch' = [watch EXCEPT !.at = "poll", !.note = {},
                                   !.presented = watch.presented \ watch.note,
                                   !.over = watch.over \cup {draft[n] : n \in watch.note}]
        BY <2>5 DEF WatchReleases, PassedOver
      <4>2. /\ watch.presented \ watch.note \in SUBSET Notes /\ {} \in SUBSET Notes
            /\ watch.over \cup {draft[n] : n \in watch.note} \in SUBSET (Drafts \cup {NoDraft})
        BY <3>3 DEF WatchStates
      <4>3. QED
        BY <4>1, <4>2, WatchUpdated
    <3>5. QED
      BY <2>5, <3>2, <3>4 DEF WatchReleases
  <2>6. CASE \E n \in Notes : WatchAnswers(n)
    <3>1. fate' \in [Notes -> Fates]
      BY <1>a, <2>6 DEF WatchAnswers, AnsweredAll, Interrupted, Fates, Accepted, ReachedWorker
    <3>2. InboxTypeOK'
      BY <2>6, <3>1, <1>f DEF WatchAnswers
    <3>3. watch' \in WatchStates /\ redirects' \in Seq(Notes)
      <4>1. watch' = [watch EXCEPT !.at = "poll", !.note = {}]
        BY <2>6 DEF WatchAnswers
      <4>2. watch' \in WatchStates
        BY <4>1, WatchUpdated
      <4>3. redirects' \in Seq(Notes)
        BY <2>6 DEF WatchAnswers
      <4>4. QED
        BY <4>2, <4>3
    <3>4. QED
      BY <2>6, <3>2, <3>3 DEF WatchAnswers
  <2>7. QED
    BY <1>19, <2>1, <2>2, <2>3, <2>4, <2>5, <2>6 DEF WatchStep
<1>20. CASE \E n \in Notes : SenderStep(n)
  <2>1. InboxTypeOK'
    BY <1>20, InboxTypeStep DEF SenderStep
  <2>2. QED
    BY <1>20, <2>1 DEF SenderStep
<1>21. CASE Rest \/ UNCHANGED vars
  BY <1>21, <1>u DEF Rest, vars
<1>22. QED
  BY <1>1, <1>2, <1>3, <1>4, <1>5, <1>6, <1>7, <1>8, <1>9, <1>10, <1>11, <1>12, <1>13, <1>14,
     <1>15, <1>16, <1>17, <1>18, <1>19, <1>20, <1>21 DEF Next, EngineStep

(* TypeOK: every variable keeps to the values the code's types allow.       *)
THEOREM TypeCorrect == Spec => []TypeOK
<1>1. Init => TypeOK
  BY TypeOKInit
<1>2. TypeOK /\ [Next]_vars => TypeOK'
  BY TypeOKStep
<1>3. QED
  BY <1>1, <1>2, PTL DEF Spec

-----------------------------------------------------------------------------
(* The inductive invariant behind custody. Who may hold a note depends on   *)
(* where the engine is: a batch exists only where notes are taken, a        *)
(* decision is awaited only around the supervisor's turn, a watch and its   *)
(* redirects only around a live call.                                       *)
WorkerCall == pc \in {"worker", "workerEnd"} \/ (pc = "hung" /\ watch.party = "Worker")
CallPCs == {"worker", "workerEnd", "judge", "judgeEnd", "hung"}

HoldersInPhase ==
  /\ pc \notin {"top", "turnEnd", "judgeDrain"} => Elems(batch) = {}
  /\ pc \notin {"judge", "judgeEnd", "judgeDrain", "hung"} => awaiting = {}
  /\ pc \notin CallPCs => Elems(redirects) = {}

WatchInPhase ==
  /\ watch.at # "off" => /\ pc \in CallPCs
                         /\ pc \in {"worker", "workerEnd"} => watch.party = "Worker"
                         /\ pc \in {"judge", "judgeEnd"} => watch.party = "Supervisor"
  /\ pc = "hung" => watch.at # "off"
  /\ pc \in {"worker", "judge"} /\ watch.at = "off" => Elems(redirects) = {}
  /\ watch.at \notin {"sending", "confirmed"} => watch.note = {}
  /\ \A m, n \in watch.note : m = n

OpenUntilClosed ==
  /\ closed = "open" <=> pc # "closed"
  /\ closed # "open" => \A n \in Notes : fate[n] # "queued"

(* What each holder holds is taken, except that a worker's redirects are    *)
(* answered as they are made; what is taken has a holder; and no two        *)
(* holders that can exist together share a note.                            *)
HeldIsTaken ==
  /\ \A n \in Elems(batch) \cup Awaited \cup watch.note : fate[n] = "taken"
  /\ \A n \in Elems(redirects) : fate[n] = IF WorkerCall THEN "InterruptedWorker" ELSE "taken"

TakenIsHeld ==
  \A n \in Notes : fate[n] = "taken" =>
    n \in Elems(batch) \cup Awaited \cup watch.note \cup Elems(redirects)

HeldOnce ==
  /\ \A n \in Awaited : n \notin Elems(batch) \cup watch.note \cup Elems(redirects)
  /\ \A n \in watch.note : n \notin Elems(redirects)

CustodyInv == /\ TypeOK /\ HoldersInPhase /\ WatchInPhase /\ OpenUntilClosed
              /\ HeldIsTaken /\ TakenIsHeld /\ HeldOnce

LEMMA ElemsOfEmpty == Elems(<<>>) = {}
BY DEF Elems

LEMMA ElemsOfAppend ==
  ASSUME NEW s \in Seq(Notes), NEW n \in Notes
  PROVE  Elems(Append(s, n)) = Elems(s) \cup {n}
<1>1. /\ Append(s, n) \in Seq(Notes) /\ Len(Append(s, n)) = Len(s) + 1
      /\ \A i \in 1..Len(s) : Append(s, n)[i] = s[i]
      /\ Append(s, n)[Len(s) + 1] = n
      /\ Len(s) \in Nat
  BY AppendProperties
<1>2. DOMAIN s = 1..Len(s) /\ DOMAIN Append(s, n) = 1..(Len(s) + 1)
  BY <1>1
<1>3. \A i \in 1..(Len(s) + 1) : i \in 1..Len(s) \/ i = Len(s) + 1
  BY <1>1
<1>4. 1..Len(s) \subseteq 1..(Len(s) + 1) /\ Len(s) + 1 \in 1..(Len(s) + 1)
  BY <1>1
<1>5. Elems(Append(s, n)) \subseteq Elems(s) \cup {n}
  BY <1>1, <1>2, <1>3 DEF Elems
<1>6. Elems(s) \cup {n} \subseteq Elems(Append(s, n))
  BY <1>1, <1>2, <1>4 DEF Elems
<1>7. QED
  BY <1>5, <1>6

(* No accepted answer leaves a note taken or waiting. *)
LEMMA AcceptedIsSettled ==
  \A a \in Accepted \cup Undelivered : a \notin {"unsent", "queued", "taken"}
BY DEF Accepted, ReachedWorker, ReachedSupervisor, Undelivered

(* Holding more senders for the decision adds exactly their notes. *)
LEMMA HeldNotes ==
  \A H, S, a : NotesOf(H \cup HeldAs(S, a)) = NotesOf(H) \cup S
<1> SUFFICES ASSUME NEW H, NEW S, NEW a
             PROVE  NotesOf(H \cup HeldAs(S, a)) = NotesOf(H) \cup S
  OBVIOUS
<1>1. ASSUME NEW h \in HeldAs(S, a) PROVE h.note \in S
  BY <1>1 DEF HeldAs
<1>2. ASSUME NEW n \in S PROVE n \in NotesOf(HeldAs(S, a))
  <2>1. [note |-> n, otherwise |-> a] \in HeldAs(S, a)
    BY DEF HeldAs
  <2>2. [note |-> n, otherwise |-> a].note = n
    OBVIOUS
  <2>3. QED
    BY <2>1, <2>2 DEF NotesOf
<1>3. NotesOf(HeldAs(S, a)) = S
  BY <1>1, <1>2 DEF NotesOf
<1>4. NotesOf(H \cup HeldAs(S, a)) = NotesOf(H) \cup NotesOf(HeldAs(S, a))
  BY DEF NotesOf
<1>5. QED
  BY <1>3, <1>4

LEMMA CustodyInit == Init => CustodyInv
<1> SUFFICES ASSUME Init PROVE CustodyInv
  OBVIOUS
<1>1. Elems(batch) = {} /\ Elems(redirects) = {} /\ awaiting = {} /\ Awaited = {}
  BY ElemsOfEmpty DEF Init, Awaited, NotesOf
<1>2. watch.at = "off" /\ watch.note = {} /\ pc = "built"
  BY DEF Init, NoWatch
<1>3. closed = "open" /\ \A n \in Notes : fate[n] = "unsent"
  BY DEF Init, InboxInit
<1>4. TypeOK
  BY TypeOKInit
<1>5. QED
  BY <1>1, <1>2, <1>3, <1>4 DEF CustodyInv, HoldersInPhase, WatchInPhase, OpenUntilClosed,
     HeldIsTaken, TakenIsHeld, HeldOnce

LEMMA CustodyStep == CustodyInv /\ [Next]_vars => CustodyInv'
<1> SUFFICES ASSUME CustodyInv, [Next]_vars PROVE CustodyInv'
  OBVIOUS
<1> DEFINE Held == HoldersInPhase /\ WatchInPhase /\ OpenUntilClosed /\ HeldIsTaken
                   /\ TakenIsHeld /\ HeldOnce
<1>t. TypeOK'
  BY TypeOKStep DEF CustodyInv
<1>g. SUFFICES Held'
  BY <1>t DEF CustodyInv
<1>h. Held /\ TypeOK
  BY DEF CustodyInv
<1>y. /\ fate \in [Notes -> Fates] /\ batch \in Seq(Notes) /\ redirects \in Seq(Notes)
      /\ awaiting \in SUBSET [note : Notes, otherwise : Accepted]
      /\ Elems(batch) \subseteq Notes /\ Elems(redirects) \subseteq Notes
      /\ Awaited \subseteq Notes /\ watch.note \subseteq Notes
  BY <1>h, ElemsAreNotes DEF TypeOK, InboxTypeOK, Awaited, NotesOf, WatchStates
<1>e. /\ Elems(<<>>) = {}
      /\ awaiting = {} => Awaited = {}
      /\ awaiting' = {} => Awaited' = {}
      /\ awaiting' = awaiting => Awaited' = Awaited
  BY ElemsOfEmpty DEF Awaited, NotesOf
<1>c. \A a \in Accepted : a \notin {"unsent", "queued", "taken"}
  BY AcceptedIsSettled
<1> HIDE DEF Held
<1> USE DEF inbox, call, engine, notes, watcher, history
<1>1. CASE Converse
  BY <1>1, <1>h, <1>e DEF Converse, GoTo, Held, HoldersInPhase, WatchInPhase, OpenUntilClosed,
     HeldIsTaken, TakenIsHeld, HeldOnce, WorkerCall, CallPCs
<1>2. CASE DropUnread \/ DropUnwound \/ CloseInbox
  <2>1. PICK r \in Undelivered : Close(r)
    BY <1>2 DEF DropUnread, DropUnwound, CloseInbox, RefusalFor, Undelivered
  <2>2. /\ pc \in {"built", "unwound", "closing"} /\ pc' = "closed"
        /\ UNCHANGED <<batch, awaiting, watch, redirects>>
    BY <1>2 DEF DropUnread, DropUnwound, CloseInbox, GoTo
  <2>3. closed' = r /\ r # "open" /\ fate' = AnsweredAll(Queued, r)
    BY <2>1, <2>2, <1>h DEF Close, Undelivered, Held, OpenUntilClosed
  <2>4. \A n \in Notes : fate[n] # "taken"
    BY <2>2, <1>h, <1>e DEF Held, HoldersInPhase, WatchInPhase, TakenIsHeld, CallPCs
  <2>5. \A n \in Notes : fate'[n] \notin {"taken", "queued"}
    BY <2>3, <2>4, AcceptedIsSettled DEF AnsweredAll, Queued
  <2>6. QED
    BY <2>2, <2>3, <2>5, <1>h, <1>e, <1>y DEF Held, HoldersInPhase, WatchInPhase, OpenUntilClosed,
     HeldIsTaken, TakenIsHeld, HeldOnce, WorkerCall, CallPCs
<1>d. ASSUME NEW a \in Accepted, DeliverToWorker(a), pc \in {"top", "turnEnd"},
             pc' \in {"open", "top"}, UNCHANGED watcher
      PROVE  Held'
  <2>1. /\ fate' = AnsweredAll(Elems(batch), a) /\ batch' = <<>>
        /\ UNCHANGED <<closed, awaiting, watch, redirects>>
    BY <1>d DEF DeliverToWorker
  <2>2. \A n \in Notes : fate'[n] = IF n \in Elems(batch) THEN a ELSE fate[n]
    BY <2>1 DEF AnsweredAll
  <2>3. QED
    BY <1>d, <2>1, <2>2, <1>h, <1>e, <1>y, <1>c DEF Held, HoldersInPhase, WatchInPhase,
     OpenUntilClosed, HeldIsTaken, TakenIsHeld, HeldOnce, WorkerCall, CallPCs
<1>3. CASE DeliverQueued
  <2>1. "Queued" \in Accepted
    BY DEF Accepted, ReachedWorker
  <2>2. QED
    BY <1>3, <2>1, <1>d DEF DeliverQueued, GoTo
<1>4. CASE \E n \in Notes : TakeNote(n)
  <2> PICK n \in Notes : TakeNote(n)
    BY <1>4
  <2>1. /\ pc \in {"top", "turnEnd", "judgeDrain"} /\ fate[n] = "queued"
        /\ fate' = [fate EXCEPT ![n] = "taken"] /\ batch' = Append(batch, n)
        /\ UNCHANGED <<pc, closed, awaiting, watch, redirects>>
    BY DEF TakeNote, Taken, Earliest, Queued
  <2>2. Elems(batch') = Elems(batch) \cup {n}
    BY <2>1, <1>y, ElemsOfAppend
  <2>3. QED
    BY <2>1, <2>2, <1>h, <1>e, <1>y DEF Held, HoldersInPhase, WatchInPhase,
     OpenUntilClosed, HeldIsTaken, TakenIsHeld, HeldOnce, WorkerCall, CallPCs
<1>5. CASE OpenWorkerTurn
  <2>1. CASE pc' = "worker" /\ watch' = Armed("Worker") /\ redirects' = <<>>
    <3>1. watch'.note = {} /\ watch'.party = "Worker" /\ watch'.at \in {"off", "dial"}
      BY <2>1 DEF Armed, NoWatch
    <3>2. QED
      BY <1>5, <2>1, <3>1, <1>h, <1>e DEF OpenWorkerTurn, Held, HoldersInPhase, WatchInPhase,
       OpenUntilClosed, HeldIsTaken, TakenIsHeld, HeldOnce, WorkerCall, CallPCs
  <2>2. CASE pc' \in {"closing", "unwound"} /\ UNCHANGED watcher
    BY <1>5, <2>2, <1>h, <1>e DEF OpenWorkerTurn, Held, HoldersInPhase, WatchInPhase,
     OpenUntilClosed, HeldIsTaken, TakenIsHeld, HeldOnce, WorkerCall, CallPCs
  <2>3. QED
    BY <1>5, <2>1, <2>2 DEF OpenWorkerTurn, ObserverEnds, Finish, Unwind, GoTo
<1>6. CASE WorkerReturns
  BY <1>6, <1>h, <1>e DEF WorkerReturns, GoTo, Held, HoldersInPhase, WatchInPhase, OpenUntilClosed,
     HeldIsTaken, TakenIsHeld, HeldOnce, WorkerCall, CallPCs
<1>7. CASE WorkerReplied \/ WorkerFailed
  <2>1. /\ pc = "workerEnd" /\ watch.at = "off" /\ redirects' = <<>>
        /\ pc' \in {"closing", "unwound", "turnEnd", "lostJudge"}
        /\ UNCHANGED <<fate, closed, batch, awaiting, watch>>
    BY <1>7 DEF WorkerReplied, WorkerFailed, ObserverEnds, Finish, Unwind, GoTo
  <2>2. QED
    BY <2>1, <1>h, <1>e DEF Held, HoldersInPhase, WatchInPhase, OpenUntilClosed,
     HeldIsTaken, TakenIsHeld, HeldOnce, WorkerCall, CallPCs
<1>8. CASE LostDecided \/ Decided
  <2>1. /\ pc \in {"lostJudge", "decided"} /\ pc' \in {"closing", "unwound", "top"}
        /\ UNCHANGED <<fate, closed, batch, awaiting, watch, redirects>>
    BY <1>8 DEF LostDecided, Decided, Instruct, ObserverEnds, Finish, Unwind, GoTo
  <2>2. QED
    BY <2>1, <1>h, <1>e DEF Held, HoldersInPhase, WatchInPhase, OpenUntilClosed,
     HeldIsTaken, TakenIsHeld, HeldOnce, WorkerCall, CallPCs
<1>9. CASE TurnEndNotes
  <2>1. CASE batch = <<>>
    BY <2>1, <1>9, <1>h, <1>e DEF TurnEndNotes, GoTo, Held, HoldersInPhase, WatchInPhase,
     OpenUntilClosed, HeldIsTaken, TakenIsHeld, HeldOnce, WorkerCall, CallPCs
  <2>2. CASE batch # <<>>
    <3>1. AtTurnEnd("Worker") \in Accepted
      BY DEF AtTurnEnd, Accepted, ReachedWorker
    <3>2. QED
      BY <2>2, <3>1, <1>9, <1>d DEF TurnEndNotes, GoTo
  <2>3. QED
    BY <2>1, <2>2
<1>b. ASSUME NEW r, BeginAttempt(r), pc \in {"judgeOpen", "judgeDrain"}, Elems(batch') = {},
             \A n \in Awaited' : n \in Awaited \cup Elems(batch),
             \A n \in Awaited \cup Elems(batch) : n \in Awaited',
             UNCHANGED <<fate, closed>>
      PROVE  Held'
  <2>1. /\ pc' = "judge" /\ redirects' = <<>> /\ watch' = Armed("Supervisor")
    BY <1>b DEF BeginAttempt, GoTo
  <2>2. watch'.note = {} /\ watch'.party = "Supervisor" /\ watch'.at \in {"off", "dial"}
    BY <2>1 DEF Armed, NoWatch
  <2>3. QED
    BY <1>b, <2>1, <2>2, <1>h, <1>e DEF Held, HoldersInPhase, WatchInPhase,
     OpenUntilClosed, HeldIsTaken, TakenIsHeld, HeldOnce, WorkerCall, CallPCs
<1>10. CASE OpenSupervisorTurn
  <2>1. CASE BeginAttempt(Recorded)
    BY <2>1, <1>10, <1>b, <1>h, <1>e DEF OpenSupervisorTurn, Held, HoldersInPhase
  <2>2. CASE pc' \in {"closing", "unwound"} /\ UNCHANGED watcher
    BY <2>2, <1>10, <1>h, <1>e DEF OpenSupervisorTurn, Held, HoldersInPhase, WatchInPhase, OpenUntilClosed,
      HeldIsTaken, TakenIsHeld, HeldOnce, WorkerCall, CallPCs
  <2>3. QED
    BY <2>1, <2>2, <1>10 DEF OpenSupervisorTurn, ObserverEnds, Finish, Unwind
<1>11. CASE JudgeReturns
  BY <1>11, <1>h, <1>e DEF JudgeReturns, GoTo, Held, HoldersInPhase, WatchInPhase, OpenUntilClosed,
     HeldIsTaken, TakenIsHeld, HeldOnce, WorkerCall, CallPCs
<1>o. /\ \A n \in Awaited : AnsweredOtherwise(awaiting)[n] \in Accepted
      /\ \A n \in Notes \ Awaited : AnsweredOtherwise(awaiting)[n] = fate[n]
  BY <1>y, AnsweredOtherwiseType DEF Awaited
<1>12. CASE JudgeStopped
  <2>1. /\ pc = "judgeEnd" /\ pc' = "closing" /\ watch.at = "off"
        /\ awaiting' = {} /\ redirects' = <<>> /\ UNCHANGED <<closed, batch, watch>>
    BY <1>12 DEF JudgeStopped, Finish
  <2>2. \A n \in Notes : fate'[n] = IF n \in Elems(redirects) THEN "dropped"
                                   ELSE AnsweredOtherwise(awaiting)[n]
    BY <1>12 DEF JudgeStopped
  <2>3. QED
    BY <2>1, <2>2, <1>o, <1>h, <1>e, <1>y, <1>c DEF Held, HoldersInPhase, WatchInPhase, OpenUntilClosed,
      HeldIsTaken, TakenIsHeld, HeldOnce, WorkerCall, CallPCs
<1>13. CASE JudgeAnswered
  <2>1. /\ pc = "judgeEnd" /\ watch.at = "off" /\ redirects' = <<>>
        /\ UNCHANGED <<closed, batch, watch>>
    BY <1>13 DEF JudgeAnswered
  <2>2. /\ HeldAfter \in SUBSET [note : Notes, otherwise : Accepted]
        /\ NotesOf(HeldAfter) = Awaited \cup Elems(redirects)
    <3>1. Interrupted("Supervisor") \in Accepted
      BY DEF Interrupted, Accepted, ReachedSupervisor
    <3>2. HeldAfter \in SUBSET [note : Notes, otherwise : Accepted]
      BY <3>1, <1>y DEF HeldAfter, HeldAs
    <3>3. NotesOf(HeldAfter) = Awaited \cup Elems(redirects)
      BY HeldNotes DEF HeldAfter, Awaited
    <3>4. QED
      BY <3>2, <3>3
  <2>3. CASE pc' = "judgeDrain" /\ awaiting' = HeldAfter /\ UNCHANGED fate
    <3>1. Awaited' = Awaited \cup Elems(redirects)
      BY <2>2, <2>3 DEF Awaited
    <3>2. QED
      BY <2>1, <2>3, <3>1, <1>h, <1>e DEF Held, HoldersInPhase, WatchInPhase, OpenUntilClosed,
       HeldIsTaken, TakenIsHeld, HeldOnce, WorkerCall, CallPCs
  <2>4. CASE /\ pc' \in {"closing", "unwound"} /\ awaiting' = {}
             /\ fate' = AnsweredOtherwise(HeldAfter)
    <3>1. \A n \in Notes : IF n \in Awaited \cup Elems(redirects) THEN fate'[n] \in Accepted
                           ELSE fate'[n] = fate[n]
      BY <2>2, <2>4, <1>y, AnsweredOtherwiseType
    <3>2. QED
      BY <2>1, <2>4, <3>1, <1>h, <1>e, <1>y, <1>c DEF Held, HoldersInPhase, WatchInPhase, OpenUntilClosed,
       HeldIsTaken, TakenIsHeld, HeldOnce, WorkerCall, CallPCs
  <2>5. QED
    BY <1>13, <2>3, <2>4 DEF JudgeAnswered, Finish, Unwind, GoTo
<1>14. CASE RetakeDecision
  <2>1. Awaited' = Awaited \cup Elems(batch)
    BY <1>14, HeldNotes DEF RetakeDecision, Awaited
  <2>2. QED
    BY <1>14, <2>1, <1>b, <1>e DEF RetakeDecision
<1>15. CASE SettleDecision
  <2>1. \A n \in Notes : IF n \in Awaited THEN fate'[n] \in Accepted ELSE fate'[n] = fate[n]
    BY <1>15, <1>y, SettledWithType DEF SettleDecision, Awaited
  <2>2. /\ pc = "judgeDrain" /\ pc' = "decided" /\ awaiting' = {} /\ Elems(batch) = {}
        /\ UNCHANGED <<closed, batch, watch, redirects>>
    BY <1>15, <1>e DEF SettleDecision, GoTo
  <2>3. QED
    BY <2>1, <2>2, <1>h, <1>e, <1>y, <1>c DEF Held, HoldersInPhase, WatchInPhase, OpenUntilClosed,
      HeldIsTaken, TakenIsHeld, HeldOnce, WorkerCall, CallPCs
<1>16. CASE ObservedDuringCall
  <2>1. pc \in {"worker", "judge"} /\ UNCHANGED <<closed, batch, watch, redirects>>
    BY <1>16 DEF ObservedDuringCall
  <2>2. CASE UNCHANGED <<pc, fate, awaiting>>
    BY <2>1, <2>2, <1>h, <1>e DEF Held, HoldersInPhase, WatchInPhase, OpenUntilClosed,
      HeldIsTaken, TakenIsHeld, HeldOnce, WorkerCall, CallPCs
  <2>3. CASE /\ watch.at = "off" /\ pc' = "unwound" /\ awaiting' = {}
             /\ fate' = AnsweredOtherwise(awaiting)
    BY <2>1, <2>3, <1>o, <1>h, <1>e, <1>y, <1>c DEF Held, HoldersInPhase, WatchInPhase, OpenUntilClosed,
      HeldIsTaken, TakenIsHeld, HeldOnce, WorkerCall, CallPCs
  <2>4. CASE watch.at # "off" /\ pc' = "hung" /\ UNCHANGED <<fate, awaiting>>
    BY <2>1, <2>4, <1>h, <1>e DEF Held, HoldersInPhase, WatchInPhase, OpenUntilClosed,
      HeldIsTaken, TakenIsHeld, HeldOnce, WorkerCall, CallPCs
  <2>5. QED
    BY <1>16, <2>2, <2>3, <2>4 DEF ObservedDuringCall, Unwind, GoTo
<1>17. CASE WatchStep
  <2>1. UNCHANGED <<pc, closed, batch, awaiting>>
    BY <1>17 DEF WatchStep, WatchConnects, RedirectConfirmed, WatchEnds, WatchTakes,
       WatchReleases, WatchAnswers
  <2>2. CASE WatchConnects \/ RedirectConfirmed
    <3>1. /\ watch.at # "off" /\ watch'.at # "off" /\ UNCHANGED <<fate, redirects>>
          /\ watch'.party = watch.party /\ watch'.note = watch.note
          /\ watch.at \in {"sending", "confirmed"} <=> watch'.at \in {"sending", "confirmed"}
      BY <2>2, <1>h DEF WatchConnects, RedirectConfirmed, TypeOK, WatchStates
    <3>2. QED
      BY <2>1, <3>1, <1>h, <1>e DEF Held, HoldersInPhase, WatchInPhase, OpenUntilClosed,
       HeldIsTaken, TakenIsHeld, HeldOnce, WorkerCall, CallPCs
  <2>3. CASE WatchEnds
    <3>1. /\ watch.at \in {"dial", "poll"} /\ pc \in {"workerEnd", "judgeEnd"}
          /\ watch'.at = "off" /\ watch'.note = {} /\ UNCHANGED <<fate, redirects>>
      BY <2>3 DEF WatchEnds, Ended, NoWatch
    <3>2. QED
      BY <2>1, <3>1, <1>h, <1>e DEF Held, HoldersInPhase, WatchInPhase, OpenUntilClosed,
       HeldIsTaken, TakenIsHeld, HeldOnce, WorkerCall, CallPCs
  <2>4. CASE \E n \in Notes : WatchTakes(n)
    <3> PICK n \in Notes : WatchTakes(n)
      BY <2>4
    <3>1. /\ watch.at = "poll" /\ fate[n] = "queued" /\ fate' = [fate EXCEPT ![n] = "taken"]
          /\ watch'.at = "sending" /\ watch'.note = {n} /\ watch'.party = watch.party
          /\ UNCHANGED redirects
      BY <1>h DEF WatchTakes, Earliest, Claimable, Queued, Taken, TypeOK, WatchStates
    <3>2. QED
      BY <2>1, <3>1, <1>h, <1>e, <1>y DEF Held, HoldersInPhase, WatchInPhase, OpenUntilClosed,
       HeldIsTaken, TakenIsHeld, HeldOnce, WorkerCall, CallPCs
  <2>5. CASE \E n \in Notes : WatchReleases(n)
    <3> PICK n \in Notes : WatchReleases(n)
      BY <2>5
    <3>1. /\ watch.at = "sending" /\ n \in watch.note /\ watch'.at = "poll"
          /\ watch'.note = {} /\ watch'.party = watch.party /\ UNCHANGED redirects
      BY <1>h DEF WatchReleases, PassedOver, TypeOK, WatchStates
    <3>2. \A m \in Notes : IF m = n THEN fate'[m] \in {"expired", "queued"}
                          ELSE fate'[m] = fate[m]
      BY <1>y DEF WatchReleases, Released
    <3>3. QED
      BY <2>1, <3>1, <3>2, <1>h, <1>e, <1>y DEF Held, HoldersInPhase, WatchInPhase, OpenUntilClosed,
       HeldIsTaken, TakenIsHeld, HeldOnce, WorkerCall, CallPCs
  <2>6. CASE \E n \in Notes : WatchAnswers(n)
    <3> PICK n \in Notes : WatchAnswers(n)
      BY <2>6
    <3>1. /\ watch.at = "confirmed" /\ n \in watch.note /\ watch'.at = "poll"
          /\ watch'.note = {} /\ watch'.party = watch.party
          /\ redirects' = Append(redirects, n)
      BY <1>h DEF WatchAnswers, TypeOK, WatchStates
    <3>2. Elems(redirects') = Elems(redirects) \cup {n}
      BY <3>1, <1>y, ElemsOfAppend
    <3>3. \A m \in Notes : fate'[m] = IF m = n /\ watch.party = "Worker"
                                     THEN "InterruptedWorker" ELSE fate[m]
      BY DEF WatchAnswers, AnsweredAll, Interrupted
    <3>4. WorkerCall' = WorkerCall /\ (WorkerCall <=> watch.party = "Worker")
      BY <2>1, <3>1, <1>h DEF Held, HoldersInPhase, WatchInPhase, OpenUntilClosed,
       HeldIsTaken, TakenIsHeld, HeldOnce, WorkerCall, CallPCs, TypeOK, WatchStates, Party
    <3>5. QED
      BY <2>1, <3>1, <3>2, <3>3, <3>4, <1>h, <1>e, <1>y DEF Held, HoldersInPhase, WatchInPhase,
         OpenUntilClosed, HeldIsTaken, TakenIsHeld, HeldOnce, CallPCs
  <2>7. QED
    BY <1>17, <2>2, <2>3, <2>4, <2>5, <2>6 DEF WatchStep
<1>18. CASE \E n \in Notes : SenderStep(n)
  <2> PICK n \in Notes : SenderStep(n)
    BY <1>18
  <2>1. UNCHANGED <<pc, closed, batch, awaiting, watch, redirects>>
    BY DEF SenderStep, Offer, Withdraw, DeadlinePasses
  <2>2. closed \in {"open"} \cup Undelivered
    BY <1>h DEF TypeOK, InboxTypeOK
  <2>3. \A m \in Notes : \/ fate'[m] = fate[m]
                         \/ /\ fate[m] \in {"unsent", "queued"} /\ fate'[m] # "taken"
                            /\ fate'[m] = "queued" => closed = "open"
    BY <2>2, <1>y, AcceptedIsSettled DEF SenderStep, Offer, Withdraw, DeadlinePasses
  <2>4. QED
    BY <2>1, <2>3, <1>h, <1>e, <1>y DEF Held, HoldersInPhase, WatchInPhase, OpenUntilClosed,
      HeldIsTaken, TakenIsHeld, HeldOnce, WorkerCall, CallPCs
<1>19. CASE Rest \/ UNCHANGED vars
  BY <1>19, <1>h, <1>e DEF Rest, vars, Held, HoldersInPhase, WatchInPhase, OpenUntilClosed,
     HeldIsTaken, TakenIsHeld, HeldOnce, WorkerCall, CallPCs
<1>20. QED
  BY <1>1, <1>2, <1>3, <1>4, <1>5, <1>6, <1>7, <1>8, <1>9, <1>10, <1>11, <1>12, <1>13, <1>14,
     <1>15, <1>16, <1>17, <1>18, <1>19 DEF Next, EngineStep

LEMMA CustodyInvariant == Spec => []CustodyInv
<1>1. Init => CustodyInv
  BY CustodyInit
<1>2. CustodyInv /\ [Next]_vars => CustodyInv'
  BY CustodyStep
<1>3. QED
  BY <1>1, <1>2, PTL DEF Spec

(* A taken note has exactly one holder, and no other note has any, on every *)
(* path of the engine and the watch: what makes each note answerable once.  *)
THEOREM CustodyHolds == Spec => []Custody
<1>1. CustodyInv => Custody
  <2> SUFFICES ASSUME CustodyInv, NEW n \in Notes
               PROVE  IF fate[n] = "taken"
                      THEN \E h \in {"batch", "awaiting", "watch", "redirects"} : HoldersOf(n) = {h}
                      ELSE HoldersOf(n) = {}
    BY DEF Custody
  <2>1. CASE fate[n] # "taken"
    BY <2>1 DEF CustodyInv, HeldIsTaken, HoldersOf
  <2>2. CASE fate[n] = "taken"
    <3>1. n \in Elems(batch) =>
            n \notin Awaited /\ n \notin watch.note /\ n \notin Elems(redirects)
      BY DEF CustodyInv, HoldersInPhase, WatchInPhase, HeldOnce, CallPCs
    <3>2. n \in Awaited => n \notin watch.note /\ n \notin Elems(redirects)
      BY DEF CustodyInv, HeldOnce
    <3>3. n \in watch.note => n \notin Elems(redirects)
      BY DEF CustodyInv, HeldOnce
    <3>4. n \in Elems(batch) \cup Awaited \cup watch.note \cup Elems(redirects)
      BY <2>2 DEF CustodyInv, TakenIsHeld
    <3>5. CASE n \in Elems(batch)
      BY <2>2, <3>1, <3>5 DEF HoldersOf
    <3>6. CASE n \in Awaited
      BY <2>2, <3>1, <3>2, <3>6 DEF HoldersOf
    <3>7. CASE n \in watch.note
      BY <2>2, <3>1, <3>2, <3>3, <3>7 DEF HoldersOf
    <3>8. CASE n \in Elems(redirects)
      BY <2>2, <3>1, <3>2, <3>3, <3>8 DEF HoldersOf
    <3>9. QED
      BY <3>4, <3>5, <3>6, <3>7, <3>8
  <2>3. QED
    BY <2>1, <2>2
<1>2. QED
  BY <1>1, CustodyInvariant, PTL

-----------------------------------------------------------------------------
(* What one step of the conversation may do to the notes' fates, and to the *)
(* notes that wait for the decision.                                        *)
Resolved(S, dropped) ==
  /\ \A n \in Notes :
       /\ n \in S => fate[n] = "taken" /\ fate'[n] \in Accepted
       /\ n \in dropped => fate[n] = "taken" /\ fate'[n] = "dropped"
       /\ n \notin S \cup dropped => fate'[n] = fate[n]
  /\ dropped \cap (S \cup Awaited) = {}
  /\ Awaited' = Awaited \ S

FateStep ==
  \/ UNCHANGED <<fate, closed, Awaited>>
  \/ \E S \in SUBSET Notes : /\ UNCHANGED <<fate, closed>>
                             /\ \A n \in S : fate[n] = "taken" /\ n \notin Awaited
                             /\ Awaited' = Awaited \cup S
  \/ /\ \E n \in Notes : (\E d \in Drafts : Offer(n, d)) \/ Withdraw(n) \/ DeadlinePasses(n)
     /\ UNCHANGED Awaited
  \/ \E n \in Notes : /\ fate[n] = "queued" /\ closed = "open"
                      /\ fate' = Taken(n) /\ UNCHANGED <<closed, Awaited>>
  \/ \E n \in Notes : /\ fate[n] = "taken" /\ n \notin Awaited
                      /\ fate' = Released(n) /\ UNCHANGED <<closed, Awaited>>
  \/ \E S, dropped \in SUBSET Notes : Resolved(S, dropped) /\ UNCHANGED closed
  \/ /\ \E r \in Undelivered : Close(r)
     /\ closed = "open" /\ UNCHANGED Awaited
     /\ \A n \in Notes : fate[n] # "taken"

LEMMA NextIsFateStep == CustodyInv /\ [Next]_vars => FateStep
<1> SUFFICES ASSUME CustodyInv, [Next]_vars PROVE FateStep
  OBVIOUS
<1>y. /\ fate \in [Notes -> Fates]
      /\ Elems(batch) \subseteq Notes /\ Elems(redirects) \subseteq Notes
      /\ Awaited \subseteq Notes /\ watch.note \subseteq Notes
      /\ awaiting \in SUBSET [note : Notes, otherwise : Accepted]
  BY ElemsAreNotes DEF CustodyInv, TypeOK, InboxTypeOK, Awaited, NotesOf, WatchStates
<1>h. HoldersInPhase /\ WatchInPhase /\ OpenUntilClosed /\ HeldIsTaken /\ TakenIsHeld /\ HeldOnce
  BY DEF CustodyInv
<1>e. awaiting = {} => Awaited = {}
  BY DEF Awaited, NotesOf
<1>r. ASSUME NEW S \in SUBSET Notes, NEW dropped \in SUBSET Notes,
             Resolved(S, dropped), UNCHANGED closed
      PROVE  FateStep
  BY <1>r DEF FateStep
<1>u. UNCHANGED awaiting => UNCHANGED Awaited
  BY DEF Awaited
<1>n. awaiting' = {} => Awaited' = {}
  BY DEF Awaited, NotesOf
<1> USE DEF inbox, call, engine, notes, watcher, history
<1>1. CASE UNCHANGED <<fate, closed, awaiting>>
  BY <1>1, <1>u DEF FateStep
<1>2. CASE DropUnread \/ DropUnwound \/ CloseInbox
  <2>1. \E r \in Undelivered : Close(r)
    BY <1>2 DEF DropUnread, DropUnwound, CloseInbox, RefusalFor, Undelivered
  <2>2. pc \in {"built", "unwound", "closing"}
    BY <1>2 DEF DropUnread, DropUnwound, CloseInbox
  <2>3. closed = "open"
    BY <2>2, <1>h DEF OpenUntilClosed
  <2>4. \A n \in Notes : fate[n] # "taken"
    BY <2>2, <1>h, <1>e DEF HoldersInPhase, WatchInPhase, TakenIsHeld, CallPCs
  <2>5. UNCHANGED Awaited
    BY <1>2, <1>u DEF DropUnread, DropUnwound, CloseInbox
  <2>6. QED
    BY <2>1, <2>3, <2>4, <2>5 DEF FateStep
<1>d. ASSUME NEW a \in Accepted, DeliverToWorker(a) PROVE FateStep
  <2>1. Awaited' = Awaited \ Elems(batch)
    BY <1>d, <1>h, <1>u DEF DeliverToWorker, HeldOnce
  <2>2. Resolved(Elems(batch), {}) /\ UNCHANGED closed
    BY <1>d, <2>1, <1>h DEF DeliverToWorker, AnsweredAll, Resolved, HeldIsTaken
  <2>3. QED
    BY <2>2, <1>y, <1>r
<1>3. CASE DeliverQueued
  BY <1>3, <1>d DEF DeliverQueued, Accepted, ReachedWorker
<1>4. CASE \E n \in Notes : TakeNote(n)
  BY <1>4, <1>h, <1>u DEF TakeNote, Earliest, Queued, OpenUntilClosed, FateStep
<1>5. CASE TurnEndNotes
  <2>1. CASE batch = <<>>
    BY <2>1, <1>5, <1>1 DEF TurnEndNotes
  <2>2. CASE batch # <<>>
    BY <2>2, <1>5, <1>d DEF TurnEndNotes, AtTurnEnd, Accepted, ReachedWorker
  <2>3. QED
    BY <2>1, <2>2
<1>o. ASSUME NEW held \in SUBSET [note : Notes, otherwise : Accepted]
      PROVE  \A n \in Notes : IF n \in NotesOf(held) THEN AnsweredOtherwise(held)[n] \in Accepted
                             ELSE AnsweredOtherwise(held)[n] = fate[n]
  BY <1>y, AnsweredOtherwiseType
<1>6. CASE JudgeStopped
  <2>1. \A n \in Elems(redirects) : fate[n] = "taken"
    BY <1>6, <1>h DEF JudgeStopped, HeldIsTaken, WorkerCall
  <2>2. Awaited \cap Elems(redirects) = {}
    BY <1>h DEF HeldOnce
  <2>3. \A n \in Notes :
          /\ n \in Awaited => fate[n] = "taken" /\ fate'[n] \in Accepted
          /\ n \in Elems(redirects) => fate[n] = "taken" /\ fate'[n] = "dropped"
          /\ n \notin Awaited \cup Elems(redirects) => fate'[n] = fate[n]
    BY <1>6, <2>1, <2>2, <1>y, <1>h, <1>o DEF JudgeStopped, HeldIsTaken, Awaited
  <2>4. Awaited' = Awaited \ Awaited
    BY <1>6, <1>n DEF JudgeStopped
  <2>5. Resolved(Awaited, Elems(redirects)) /\ UNCHANGED closed
    BY <1>6, <2>2, <2>3, <2>4 DEF JudgeStopped, Resolved
  <2>6. QED
    BY <2>5, <1>y, <1>r
<1>7. CASE JudgeAnswered
  <2>1. CASE UNCHANGED fate /\ awaiting' = HeldAfter
    <3>1. Awaited' = Awaited \cup Elems(redirects)
      BY <2>1, HeldNotes DEF HeldAfter, Awaited
    <3>2. \A n \in Elems(redirects) : fate[n] = "taken" /\ n \notin Awaited
      BY <1>7, <1>h DEF JudgeAnswered, HeldIsTaken, HeldOnce, WorkerCall
    <3>3. UNCHANGED closed
      BY <1>7 DEF JudgeAnswered
    <3>4. QED
      BY <2>1, <3>1, <3>2, <3>3, <1>y DEF FateStep
  <2>2. CASE fate' = AnsweredOtherwise(HeldAfter) /\ awaiting' = {}
    <3>1. \A n \in Elems(redirects) : fate[n] = "taken"
      BY <1>7, <1>h DEF JudgeAnswered, HeldIsTaken, WorkerCall
    <3>2. HeldAfter \in SUBSET [note : Notes, otherwise : Accepted]
      BY <1>y DEF HeldAfter, HeldAs, Interrupted, Accepted, ReachedSupervisor
    <3>3. NotesOf(HeldAfter) = Awaited \cup Elems(redirects)
      BY HeldNotes DEF HeldAfter, Awaited
    <3>4. \A n \in Notes : IF n \in Awaited \cup Elems(redirects) THEN fate'[n] \in Accepted
                           ELSE fate'[n] = fate[n]
      BY <2>2, <3>2, <3>3, <1>o
    <3>5. Resolved(Awaited \cup Elems(redirects), {})
      BY <2>2, <3>1, <3>4, <1>h, <1>n DEF Resolved, HeldIsTaken
    <3>6. QED
      BY <3>5, <1>7, <1>y, <1>r DEF JudgeAnswered
  <2>3. QED
    BY <1>7, <2>1, <2>2 DEF JudgeAnswered
<1>8. CASE SettleDecision
  <2>1. \A n \in Notes : IF n \in Awaited THEN fate'[n] \in Accepted ELSE fate'[n] = fate[n]
    BY <1>8, <1>y, SettledWithType DEF SettleDecision, Awaited
  <2>2. Resolved(Awaited, {})
    BY <2>1, <1>8, <1>h, <1>n DEF SettleDecision, Resolved, HeldIsTaken
  <2>3. QED
    BY <2>2, <1>8, <1>y, <1>r DEF SettleDecision
<1>9. CASE ObservedDuringCall
  <2>1. CASE UNCHANGED <<fate, awaiting>>
    BY <2>1, <1>9, <1>1 DEF ObservedDuringCall
  <2>2. CASE fate' = AnsweredOtherwise(awaiting) /\ awaiting' = {}
    <3>1. Resolved(Awaited, {})
      <4>1. \A n \in Notes : IF n \in Awaited THEN fate'[n] \in Accepted ELSE fate'[n] = fate[n]
        BY <2>2, <1>y, <1>o DEF Awaited
      <4>2. QED
        BY <2>2, <4>1, <1>h, <1>n DEF Resolved, HeldIsTaken
    <3>2. QED
      BY <3>1, <1>9, <1>y, <1>r DEF ObservedDuringCall
  <2>3. QED
    BY <1>9, <2>1, <2>2 DEF ObservedDuringCall
<1>10. CASE \E n \in Notes : WatchTakes(n)
  <2>1. pc # "closed"
    BY <1>10, <1>h DEF WatchTakes, WatchInPhase, CallPCs
  <2>2. QED
    BY <1>10, <2>1, <1>h, <1>u DEF WatchTakes, Earliest, Claimable, Queued, OpenUntilClosed, FateStep
<1>11. CASE \E n \in Notes : WatchReleases(n)
  BY <1>11, <1>h, <1>u DEF WatchReleases, HeldIsTaken, HeldOnce, FateStep
<1>12. CASE \E n \in Notes : WatchAnswers(n)
  <2> PICK n \in Notes : WatchAnswers(n)
    BY <1>12
  <2>1. CASE watch.party # "Worker"
    BY <2>1, <1>1 DEF WatchAnswers
  <2>2. CASE watch.party = "Worker"
    <3>1. "InterruptedWorker" \in Accepted
      BY DEF Accepted, ReachedWorker
    <3>n. n \in watch.note /\ fate[n] = "taken" /\ n \notin Awaited
      BY <1>h DEF WatchAnswers, HeldIsTaken, HeldOnce
    <3>u. UNCHANGED Awaited
      BY <1>u DEF WatchAnswers
    <3>2. Resolved({n}, {})
      BY <2>2, <3>1, <3>n, <3>u DEF WatchAnswers, AnsweredAll, Interrupted, Resolved
    <3>3. QED
      BY <3>2, <1>r DEF WatchAnswers
  <2>3. QED
    BY <2>1, <2>2
<1>13. CASE \E n \in Notes : SenderStep(n)
  BY <1>13, <1>u DEF SenderStep, FateStep
<1>14. CASE Converse \/ OpenWorkerTurn \/ WorkerReturns \/ WorkerReplied \/ WorkerFailed
            \/ LostDecided \/ OpenSupervisorTurn \/ JudgeReturns \/ Decided
  BY <1>14, <1>1 DEF Converse, OpenWorkerTurn, WorkerReturns, WorkerReplied, WorkerFailed,
     LostDecided, OpenSupervisorTurn, JudgeReturns, Decided
<1>t. CASE RetakeDecision
  <2>1. Awaited' = Awaited \cup Elems(batch)
    BY <1>t, HeldNotes DEF RetakeDecision, Awaited
  <2>2. \A n \in Elems(batch) : fate[n] = "taken" /\ n \notin Awaited
    BY <1>h DEF HeldIsTaken, HeldOnce
  <2>3. UNCHANGED <<fate, closed>>
    BY <1>t DEF RetakeDecision
  <2>4. QED
    BY <2>1, <2>2, <2>3, <1>y DEF FateStep
<1>15. CASE WatchConnects \/ RedirectConfirmed \/ WatchEnds \/ Rest \/ UNCHANGED vars
  BY <1>15, <1>1 DEF WatchConnects, RedirectConfirmed, WatchEnds, Rest, vars
<1>16. QED
  BY <1>2, <1>3, <1>4, <1>5, <1>6, <1>7, <1>8, <1>9, <1>10, <1>11, <1>12, <1>13, <1>14, <1>t, <1>15
  DEF Next, EngineStep, WatchStep

(* No step of the engine, the watch or the channel changes an outcome a     *)
(* sender was given.                                                        *)
THEOREM AnswersStayFinal == Spec => AnswersAreFinal
<1>1. CustodyInv /\ [Next]_vars =>
        \A n \in Notes : Settled(fate[n]) => fate'[n] = fate[n]
  <2> SUFFICES ASSUME CustodyInv, [Next]_vars, NEW n \in Notes, Settled(fate[n])
               PROVE  fate'[n] = fate[n]
    OBVIOUS
  <2>y. fate \in [Notes -> Fates] /\ fate[n] \notin {"unsent", "queued", "taken"}
    BY DEF CustodyInv, TypeOK, InboxTypeOK, Settled
  <2>s. FateStep
    BY NextIsFateStep
  <2>1. CASE UNCHANGED fate
    BY <2>1
  <2>2. CASE \E m \in Notes : (\E d \in Drafts : Offer(m, d)) \/ Withdraw(m) \/ DeadlinePasses(m)
    BY <2>2, <2>y DEF Offer, Withdraw, DeadlinePasses
  <2>3. CASE \E m \in Notes : fate[m] \in {"queued", "taken"} /\ (fate' = Taken(m) \/ fate' = Released(m))
    BY <2>3, <2>y DEF Taken, Released
  <2>4. CASE \E S, dropped \in SUBSET Notes : Resolved(S, dropped)
    BY <2>4, <2>y DEF Resolved
  <2>5. CASE \E r \in Undelivered : Close(r)
    BY <2>5, <2>y DEF Close, AnsweredAll, Queued
  <2>6. QED
    BY <2>s, <2>1, <2>2, <2>3, <2>4, <2>5 DEF FateStep
<1>2. QED
  BY <1>1, CustodyInvariant, PTL DEF AnswersAreFinal, Spec

-----------------------------------------------------------------------------
(* The refinement: what a sender is told follows NoteContract.              *)
told == [n \in Notes |-> IF n \in Awaited THEN "counted" ELSE Told(fate[n])]

LEMMA ToldOf ==
  /\ Told("unsent") = "none" /\ Told("queued") = "waiting" /\ Told("taken") = "held"
  /\ \A a \in Accepted : Told(a) = "accepted"
  /\ \A r \in Undelivered : Told(r) = "refused"
  /\ Told("withdrawn") = "gone" /\ Told("expired") = "gone" /\ Told("dropped") = "lost"
BY DEF Told, Accepted, ReachedWorker, ReachedSupervisor, Undelivered

LEMMA ContractInit == Init => Contract!Init
BY ToldOf DEF Init, InboxInit, Awaited, NotesOf, Contract!Init

LEMMA ContractStep ==
  CustodyInv /\ FateStep => Contract!Next \/ UNCHANGED <<told, closed = "open">>
<1> SUFFICES ASSUME CustodyInv, FateStep
             PROVE  Contract!Next \/ UNCHANGED <<told, closed = "open">>
  OBVIOUS
<1>y. /\ fate \in [Notes -> Fates] /\ closed \in {"open"} \cup Undelivered
      /\ \A n \in Awaited : fate[n] = "taken"
  BY DEF CustodyInv, TypeOK, InboxTypeOK, HeldIsTaken
<1> HIDE DEF Awaited
<1>1. CASE UNCHANGED <<fate, closed, Awaited>>
  BY <1>1 DEF told
<1>c. CASE \E S \in SUBSET Notes : /\ UNCHANGED <<fate, closed>>
                                   /\ \A n \in S : fate[n] = "taken" /\ n \notin Awaited
                                   /\ Awaited' = Awaited \cup S
  <2> PICK S \in SUBSET Notes : /\ UNCHANGED <<fate, closed>>
                                /\ \A n \in S : fate[n] = "taken" /\ n \notin Awaited
                                /\ Awaited' = Awaited \cup S
    BY <1>c
  <2>1. Contract!Count(S)
    BY <1>y, ToldOf DEF Contract!Count, Contract!Are, Contract!Become
  <2>2. QED
    BY <2>1 DEF Contract!Next
<1>2. CASE UNCHANGED Awaited /\ \E n \in Notes, d \in Drafts : Offer(n, d)
  <2> PICK n \in Notes, d \in Drafts : Offer(n, d)
    BY <1>2
  <2>1. n \notin Awaited
    BY <1>y DEF Offer
  <2>2. Contract!Send(n)
    BY <1>2, <1>y, <2>1, ToldOf DEF Offer, Contract!Send, Contract!Become
  <2>3. QED
    BY <2>2 DEF Contract!Next
<1>3. CASE UNCHANGED Awaited /\ \E n \in Notes : Withdraw(n) \/ DeadlinePasses(n)
  <2> PICK n \in Notes : Withdraw(n) \/ DeadlinePasses(n)
    BY <1>3
  <2>1. CASE fate[n] = "queued"
    <3>1. n \notin Awaited
      BY <2>1, <1>y
    <3>2. Contract!GiveUp(n)
      BY <1>3, <2>1, <3>1, <1>y, ToldOf DEF Withdraw, DeadlinePasses, Contract!GiveUp, Contract!Become
    <3>3. QED
      BY <3>2 DEF Contract!Next
  <2>2. CASE fate[n] # "queued"
    BY <1>3, <2>2 DEF Withdraw, DeadlinePasses, told
  <2>3. QED
    BY <2>1, <2>2
<1>4. CASE \E n \in Notes : /\ fate[n] = "queued" /\ closed = "open"
                            /\ fate' = Taken(n) /\ UNCHANGED <<closed, Awaited>>
  <2> PICK n \in Notes : /\ fate[n] = "queued" /\ closed = "open"
                         /\ fate' = Taken(n) /\ UNCHANGED <<closed, Awaited>>
    BY <1>4
  <2>1. n \notin Awaited
    BY <1>y
  <2>2. Contract!Take(n)
    BY <2>1, <1>y, ToldOf DEF Taken, Contract!Take, Contract!Become
  <2>3. QED
    BY <2>2 DEF Contract!Next
<1>5. CASE \E n \in Notes : /\ fate[n] = "taken" /\ n \notin Awaited
                            /\ fate' = Released(n) /\ UNCHANGED <<closed, Awaited>>
  <2> PICK n \in Notes : /\ fate[n] = "taken" /\ n \notin Awaited
                         /\ fate' = Released(n) /\ UNCHANGED <<closed, Awaited>>
    BY <1>5
  <2>1. Contract!HandBack(n)
    BY <1>y, ToldOf DEF Released, Contract!HandBack, Contract!Become
  <2>2. QED
    BY <2>1 DEF Contract!Next
<1>6. CASE \E S, dropped \in SUBSET Notes : Resolved(S, dropped) /\ UNCHANGED closed
  <2> PICK S \in SUBSET Notes, dropped \in SUBSET Notes : Resolved(S, dropped) /\ UNCHANGED closed
    BY <1>6
  <2>1. \A n \in S : (IF n \in Awaited THEN "counted" ELSE Told(fate[n])) \in {"held", "counted"}
    BY ToldOf DEF Resolved
  <2>2. \A n \in dropped : n \notin Awaited /\ Told(fate[n]) = "held"
    BY ToldOf DEF Resolved
  <2>3. \A n \in Notes :
          (IF n \in Awaited' THEN "counted" ELSE Told(fate'[n])) =
             IF n \in S THEN "accepted"
             ELSE IF n \in dropped THEN "lost"
             ELSE IF n \in Awaited THEN "counted" ELSE Told(fate[n])
    BY ToldOf DEF Resolved
  <2>4. S \cap dropped = {}
    BY DEF Resolved
  <2>5. Contract!Resolve(S, dropped)
    BY <2>1, <2>2, <2>3, <2>4 DEF Contract!Resolve, Contract!Are
  <2>6. QED
    BY <2>5 DEF Contract!Next
<1>7. CASE /\ \E r \in Undelivered : Close(r)
           /\ closed = "open" /\ UNCHANGED Awaited
           /\ \A n \in Notes : fate[n] # "taken"
  <2> PICK r \in Undelivered : Close(r)
    BY <1>7
  <2>1. Contract!CloseChannel
    <3>1. closed' = r /\ closed' # "open"
      BY <1>7 DEF Close, Undelivered
    <3>2. \A n \in Notes : n \notin Awaited /\ n \notin Awaited'
      BY <1>7, <1>y
    <3>3. \A n \in Notes : Told(fate[n]) \notin {"held", "counted"}
      BY <1>7, <1>y, ToldOf DEF Fates, Unresolved
    <3>4. \A n \in Notes : Told(fate[n]) = "waiting" <=> fate[n] = "queued"
      BY <1>y, ToldOf DEF Fates, Unresolved
    <3>5. \A n \in Notes : Told(fate'[n]) = IF fate[n] = "queued" THEN "refused" ELSE Told(fate[n])
      BY <1>7, ToldOf DEF Close, AnsweredAll, Queued
    <3>6. QED
      BY <1>7, <3>1, <3>2, <3>3, <3>4, <3>5 DEF Contract!CloseChannel, Contract!Become
  <2>2. QED
    BY <2>1 DEF Contract!Next
<1>8. QED
  BY <1>1, <1>c, <1>2, <1>3, <1>4, <1>5, <1>6, <1>7 DEF FateStep

(* Every behaviour of the conversation, seen by its senders, is one of      *)
(* NoteContract: Engine::converse with its watch keeps the note channel's   *)
(* promise for any number of notes and any turn cap.                        *)
THEOREM ConversationKeepsContract == Spec => KeepsContract
<1>1. Init => Contract!Init
  BY ContractInit
<1>2. CustodyInv /\ [Next]_vars => [Contract!Next]_<<told, closed = "open">>
  BY NextIsFateStep, ContractStep
<1>3. QED
  BY <1>1, <1>2, CustodyInvariant, PTL DEF KeepsContract, Contract!Spec, Spec, told

-----------------------------------------------------------------------------
(* The no-op streak against the whole run of exchanges. *)

(* A set of naturals that has 0, and the successor of each of its elements *)
(* below a bound, has everything up to the bound.                          *)
LEMMA UpToTheLast ==
  ASSUME NEW N \in Nat, NEW S, 0 \in S,
         \A n \in 0..N : n # 0 /\ n - 1 \in S => n \in S
  PROVE  \A n \in 0..N : n \in S
<1> DEFINE missing == {n \in 0..N : n \notin S}
<1>1. SUFFICES ASSUME missing # {}
               PROVE  FALSE
  OBVIOUS
<1>2. PICK n \in missing : \A m \in missing : ~ (<<m, n>> \in OpToRel(<, Nat))
  <2>1. missing \in SUBSET Nat
    OBVIOUS
  <2> HIDE DEF missing
  <2>2. QED
    BY <1>1, <2>1, NatLessThanWellFounded, WFMin
<1>3. n # 0 /\ n \in Nat
  OBVIOUS
<1>4. <<n - 1, n>> \in OpToRel(<, Nat)
  BY <1>3 DEF OpToRel
<1>5. n \in 0..N /\ n \notin S
  OBVIOUS
<1>6. n - 1 \in 0..N
  BY <1>3, <1>5
<1>7. n - 1 \notin missing
  <2> HIDE DEF missing
  <2>1. QED
    BY <1>2, <1>4
<1>8. n - 1 \in S
  BY <1>6, <1>7
<1>9. QED
  BY <1>3, <1>5, <1>8

(* The streak after each of a run of exchanges, and before the first. *)
Streaks(exchanges, f) ==
  f = [k \in 0..Len(exchanges) |->
         IF k = 0 THEN NoStreak ELSE Observe(f[k - 1], exchanges[k])]

(* The last few exchanges were all no-ops and all had the same answer. *)
LastAlike(exchanges, n, few) ==
  /\ few <= n
  /\ \A i \in 1..n : i > n - few => /\ Quiet(exchanges[i])
                                    /\ exchanges[i].says = exchanges[n].says

(* What a streak says of the exchanges so far, and of the one before it.   *)
TellsOf(exchanges, n, s) ==
  /\ s \in Streak /\ s.count <= n
  /\ \A i \in 1..n : i > n - s.count => /\ Quiet(exchanges[i])
                                        /\ exchanges[i].says = s.repeated
  /\ s.count = 0 => s.repeated = "none" /\ (n # 0 => ~Quiet(exchanges[n]))
  /\ s.count # 0 /\ s.count # n =>
       ~(Quiet(exchanges[n - s.count]) /\ exchanges[n - s.count].says = s.repeated)

LEMMA ObserveTells ==
  ASSUME NEW exchanges \in Seq(Exchange), NEW n \in 1..Len(exchanges), NEW s,
         TellsOf(exchanges, n - 1, s)
  PROVE  TellsOf(exchanges, n, Observe(s, exchanges[n]))
<1> DEFINE x == exchanges[n]
           t == Observe(s, x)
<1>1. n \in Nat /\ n # 0 /\ Len(exchanges) \in Nat /\ x \in Exchange
  OBVIOUS
<1>2. /\ x.says \in Replies /\ x.says # "none"
      /\ s \in Streak /\ s.count \in Nat /\ s.count <= n - 1
  <2>1. x.says \in Replies
    BY <1>1 DEF Exchange
  <2>2. x.says # "none"
    BY <2>1, NoopAssumption, Zenon
  <2>3. s \in Streak /\ s.count <= n - 1
    BY DEF TellsOf
  <2>4. s.count \in Nat
    BY <2>3 DEF Streak
  <2>5. QED
    BY <2>1, <2>2, <2>3, <2>4
<1>3. CASE ~Quiet(x)
  <2>1. t = NoStreak /\ NoStreak \in Streak /\ NoStreak.count = 0 /\ NoStreak.repeated = "none"
    BY <1>3 DEF Observe, NoStreak, Streak
  <2> HIDE DEF t, NoStreak
  <2>2. TellsOf(exchanges, n, NoStreak)
    BY <1>1, <1>3, <2>1 DEF TellsOf
  <2>3. QED
    BY <2>1, <2>2 DEF t
<1>4. CASE Quiet(x) /\ s.repeated = x.says
  <2>1. t.repeated = x.says /\ t.count = s.count + 1 /\ t \in Streak
    BY <1>2, <1>4 DEF Observe, Streak
  <2>2. s.count # 0
    BY <1>2, <1>4 DEF TellsOf
  <2> HIDE DEF t
  <2>3. ASSUME NEW i \in 1..n, i > n - t.count
        PROVE  Quiet(exchanges[i]) /\ exchanges[i].says = t.repeated
    <3>1. CASE i = n
      BY <1>4, <2>1, <3>1
    <3>2. CASE i # n
      <4>1. i \in 1..(n - 1) /\ i > (n - 1) - s.count
        BY <1>1, <1>2, <2>1, <2>3, <3>2
      <4>2. QED
        BY <1>4, <2>1, <4>1 DEF TellsOf
    <3>3. QED
      BY <3>1, <3>2
  <2>4. t.count <= n /\ t.count # 0 /\ n - t.count = (n - 1) - s.count
        /\ (t.count # n => s.count # n - 1)
    BY <1>1, <1>2, <2>1
  <2>5. t.count # n => ~(Quiet(exchanges[n - t.count]) /\ exchanges[n - t.count].says = t.repeated)
    BY <1>4, <2>1, <2>2, <2>4 DEF TellsOf
  <2>6. QED
    BY <2>1, <2>3, <2>4, <2>5 DEF TellsOf, t
<1>5. CASE Quiet(x) /\ s.repeated # x.says
  <2>1. t.repeated = x.says /\ t.count = 1 /\ t \in Streak
    BY <1>2, <1>5 DEF Observe, Streak
  <2> HIDE DEF t
  <2>2. ASSUME NEW i \in 1..n, i > n - t.count
        PROVE  Quiet(exchanges[i]) /\ exchanges[i].says = t.repeated
    <3>1. i = n
      BY <1>1, <2>1, <2>2
    <3>2. QED
      BY <1>5, <2>1, <3>1
  <2>3. ASSUME n # 1
        PROVE  ~(Quiet(exchanges[n - 1]) /\ exchanges[n - 1].says = t.repeated)
    <3>1. CASE s.count = 0
      <4>1. n - 1 # 0
        BY <1>1, <2>3
      <4>2. QED
        BY <3>1, <4>1 DEF TellsOf
    <3>2. CASE s.count # 0
      <4>1. n - 1 \in 1..(n - 1) /\ n - 1 > (n - 1) - s.count
        BY <1>1, <1>2, <2>3, <3>2
      <4>2. exchanges[n - 1].says = s.repeated
        BY <4>1 DEF TellsOf
      <4>3. QED
        BY <1>5, <2>1, <4>2
    <3>3. QED
      BY <3>1, <3>2
  <2>4. t.count <= n /\ t.count # 0 /\ n - t.count = n - 1 /\ (t.count # n => n # 1)
    BY <1>1, <2>1
  <2>5. QED
    BY <2>1, <2>2, <2>3, <2>4 DEF TellsOf, t
<1>6. QED
  BY <1>3, <1>4, <1>5

LEMMA StreakTells ==
  ASSUME NEW exchanges \in Seq(Exchange), NEW f, Streaks(exchanges, f)
  PROVE  \A n \in 0..Len(exchanges) : TellsOf(exchanges, n, f[n])
<1> DEFINE N == Len(exchanges)
           S == {n \in 0..N : TellsOf(exchanges, n, f[n])}
<1>1. N \in Nat
  OBVIOUS
<1>2. \A k \in 0..N : f[k] = IF k = 0 THEN NoStreak ELSE Observe(f[k - 1], exchanges[k])
  BY DEF Streaks
<1>3. 0 \in S
  <2>1. f[0] = NoStreak /\ NoStreak \in Streak /\ NoStreak.count = 0 /\ NoStreak.repeated = "none"
    BY <1>1, <1>2 DEF NoStreak, Streak
  <2> HIDE DEF NoStreak
  <2>2. TellsOf(exchanges, 0, NoStreak)
    BY <2>1 DEF TellsOf
  <2>3. QED
    BY <1>1, <2>1, <2>2
<1>4. ASSUME NEW n \in 0..N, n # 0, n - 1 \in S
      PROVE  n \in S
  <2>1. n \in 1..N /\ f[n] = Observe(f[n - 1], exchanges[n])
    BY <1>1, <1>2, <1>4
  <2>2. TellsOf(exchanges, n - 1, f[n - 1])
    BY <1>4
  <2>3. TellsOf(exchanges, n, f[n])
    BY <2>1, <2>2, ObserveTells
  <2>4. QED
    BY <2>3
<1> HIDE DEF S
<1>5. \A n \in 0..N : n \in S
  BY <1>1, <1>3, <1>4, UpToTheLast
<1>6. QED
  BY <1>5 DEF S

(* A run settles exactly when its last NOOP_SETTLE_LIMIT exchanges were    *)
(* no-ops that all had one answer, whatever came before them: not one      *)
(* exchange too early, and never on a streak that something broke.         *)
THEOREM StreakIsOfTheLast ==
  ASSUME NEW exchanges \in Seq(Exchange), NEW f, Streaks(exchanges, f),
         NEW n \in 0..Len(exchanges)
  PROVE  Settles(f[n]) <=> LastAlike(exchanges, n, NOOP_SETTLE_LIMIT)
<1> DEFINE s == f[n]
           L == NOOP_SETTLE_LIMIT
<1>1. TellsOf(exchanges, n, s)
  BY StreakTells
<1>2. L \in Nat /\ L # 0 /\ n \in Nat
  <2>1. L \in Nat /\ L # 0
    BY NoopAssumption
  <2>2. Len(exchanges) \in Nat
    OBVIOUS
  <2>3. n \in Nat
    BY <2>2
  <2>4. QED
    BY <2>1, <2>3
<1> HIDE DEF s, L
<1>3. s.count \in Nat /\ s.count <= n
  BY <1>1 DEF TellsOf, Streak
<1>4. ASSUME s.count >= L
      PROVE  LastAlike(exchanges, n, L)
  <2>1. n \in 1..n /\ n > n - s.count
    BY <1>2, <1>3, <1>4
  <2>2. exchanges[n].says = s.repeated
    BY <1>1, <2>1 DEF TellsOf
  <2>3. \A i \in 1..n : i > n - L => i > n - s.count
    BY <1>2, <1>3, <1>4
  <2>4. L <= n
    BY <1>2, <1>3, <1>4
  <2>5. QED
    BY <1>1, <2>2, <2>3, <2>4 DEF TellsOf, LastAlike
<1>5. ASSUME LastAlike(exchanges, n, L), s.count < L
      PROVE  FALSE
  <2>1. L <= n
    BY <1>5 DEF LastAlike
  <2>2. CASE s.count = 0
    <3>1. n \in 1..n /\ n > n - L /\ n # 0
      BY <1>2, <2>1
    <3>2. Quiet(exchanges[n])
      BY <1>5, <3>1 DEF LastAlike
    <3>3. QED
      BY <1>1, <2>2, <3>1, <3>2 DEF TellsOf
  <2>3. CASE s.count # 0
    <3>1. /\ n \in 1..n /\ n > n - s.count /\ s.count # n
          /\ n - s.count \in 1..n /\ n - s.count > n - L
      BY <1>2, <1>3, <1>5, <2>1, <2>3
    <3>2. exchanges[n].says = s.repeated
      BY <1>1, <3>1 DEF TellsOf
    <3>3. Quiet(exchanges[n - s.count]) /\ exchanges[n - s.count].says = exchanges[n].says
      BY <1>5, <3>1 DEF LastAlike
    <3>4. QED
      BY <1>1, <2>3, <3>1, <3>2, <3>3 DEF TellsOf
  <2>4. QED
    BY <2>2, <2>3
<1>6. QED
  BY <1>2, <1>3, <1>4, <1>5 DEF Settles, s, L
=============================================================================
