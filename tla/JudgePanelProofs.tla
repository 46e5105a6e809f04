--------------------------- MODULE JudgePanelProofs --------------------------
(***************************************************************************)
(* What holds of every panel, for any number of judges, scores and bounds: *)
(* the theorems about JudgePanel.                                          *)
(***************************************************************************)
EXTENDS JudgePanelProperties, SequenceTheorems, WellFoundedInduction, TLAPS

USE PanelAssumption

LEMMA ScoresAreNaturals == Scores \cup {0} \subseteq Nat
<1>1. Scores \subseteq Nat
  BY DEF PanelAssumption
<1>2. QED
  BY <1>1

(* Every set of naturals with an element has a least one. *)
LEMMA Least ==
  ASSUME NEW S \in SUBSET Nat, S # {}
  PROVE  \E s \in S : \A t \in S : s <= t
<1>1. \E s \in S : \A t \in S : ~ (<<t, s>> \in OpToRel(<, Nat))
  BY NatLessThanWellFounded, WFMin
<1>2. PICK s \in S : \A t \in S : ~ (<<t, s>> \in OpToRel(<, Nat))
  BY <1>1
<1>3. ASSUME NEW t \in S PROVE s <= t
  <2>1. SUFFICES ASSUME t < s PROVE FALSE
    OBVIOUS
  <2>2. <<t, s>> \in OpToRel(<, Nat)
    BY <2>1 DEF OpToRel
  <2>3. QED
    BY <1>2, <2>2
<1>4. QED
  BY <1>3

(* FirstOf names one of the judges it is given, the first in list order. *)
LEMMA FirstOfIsOne ==
  ASSUME size \in Nat, NEW S \in SUBSET Judges, S # {}
  PROVE  \E j \in S : FirstOf(S) = {j} /\ \A k \in S : j <= k
<1>1. S \in SUBSET Nat
  BY DEF Judges
<1>2. PICK s \in S : \A t \in S : s <= t
  BY <1>1, Least
<1>3. DEFINE first == CHOOSE j \in S : \A k \in S : j <= k
<1>4. first \in S /\ \A k \in S : first <= k
  BY <1>2
<1>5. FirstOf(S) = {first}
  BY DEF FirstOf
<1>6. QED
  BY <1>4, <1>5

(* The lowest of the selected judges' scores is one of them. *)
LEMMA LowestIsOne ==
  ASSUME result \in [Judges -> [is : AnswerWords, n : Scores \cup {0}]],
         NEW o \in Ops, Selected(o) # {}
  PROVE  /\ \E j \in Selected(o) : Lowest(o) = result[j].n
         /\ \A j \in Selected(o) : Lowest(o) <= result[j].n
         /\ Lowest(o) \in Scores \cup {0}
<1> DEFINE scores == {result[j].n : j \in Selected(o)}
<1>1. Selected(o) \subseteq Judges
  BY DEF Selected
<1>2. \A j \in Selected(o) : result[j].n \in Scores \cup {0}
  BY <1>1
<1>3. scores \in SUBSET Nat /\ scores # {}
  <2>1. \A j \in Selected(o) : result[j].n \in Nat
    BY <1>2, ScoresAreNaturals
  <2>2. scores \subseteq Nat
    BY <2>1
  <2>3. QED
    BY <2>2
<1>4. \E s \in scores : \A t \in scores : s <= t
  BY <1>3, Least
<1>5. Lowest(o) \in scores /\ \A t \in scores : Lowest(o) <= t
  <2>1. Lowest(o) = CHOOSE s \in scores : \A t \in scores : s <= t
    BY DEF Lowest
  <2>2. QED
    BY <1>4, <2>1, Zenon
<1>6. QED
  BY <1>2, <1>5

-----------------------------------------------------------------------------
(* TypeOK, action by action.                                                *)

AnswerType == [is : AnswerWords, n : Scores \cup {0}, by : SUBSET Judges]
ResultType == [is : AnswerWords, n : Scores \cup {0}]
EntryType  == [turn : Nat, decisions : Seq(DecisionRecord)]

LEMMA SizesAreNaturals == Sizes \subseteq Nat \ {0}
BY DEF PanelAssumption

LEMMA ResultsTyped ==
  ASSUME NEW o \in Ops
  PROVE  ResultsOf(o) \subseteq ResultType
BY DEF ResultsOf, ResultType, AnswerWords, Outcomes, Failed, Ops, Supervises

LEMMA SelectedAreJudges ==
  ASSUME NEW o
  PROVE  Selected(o) \subseteq Judges
BY DEF Selected

(* Whatever the judges returned, the combined answer is an answer.          *)
LEMMA CombinedType ==
  ASSUME size \in Sizes, result \in [Judges -> ResultType], NEW o \in Ops
  PROVE  Combined(o) \in AnswerType
<1> USE DEF AnswerType
<1>1. 0 \in Scores \cup {0}
  OBVIOUS
<1>2. \A w \in AnswerWords, S \in SUBSET Judges : Answer(w, S) \in AnswerType
  BY <1>1 DEF Answer
<1>3. \A S \in SUBSET Judges : Says(o, S) \subseteq Judges
  BY SelectedAreJudges DEF Says
<1>4. \A S \in SUBSET Judges : S # {} => Error(S) \in AnswerType
  <2>1. TAKE S \in SUBSET Judges
  <2>2. HAVE S # {}
  <2>3. PICK j \in S : FirstOf(S) = {j}
    BY <2>2, FirstOfIsOne, SizesAreNaturals
  <2>4. QED
    BY <2>3, <1>1 DEF Error, AnswerWords
<1>5. \A T : Says(o, T) \in SUBSET Judges
  BY SelectedAreJudges DEF Says
<1>6. ASSUME Selected(o) # {} PROVE Verbatim(o) \in AnswerType
  <2>1. PICK j \in Selected(o) : j = (CHOOSE k \in Selected(o) : TRUE)
    BY <1>6
  <2>2. j \in Judges /\ result[j] \in ResultType
    BY SelectedAreJudges
  <2>3. Verbatim(o) = [is |-> result[j].is, n |-> result[j].n, by |-> {j}]
    BY <2>1 DEF Verbatim
  <2>4. QED
    BY <2>2, <2>3 DEF ResultType
<1>7. CombinedSupervision(o) \in AnswerType
  <2>1. {"Completed", "Continue", "NoInstruction", "Unparseable"} \subseteq AnswerWords
    BY DEF AnswerWords, Outcomes
  <2>2. Selected(o) \in SUBSET Judges /\ Selected(o) \ Says(o, {"Completed"}) \in SUBSET Judges
    BY SelectedAreJudges
  <2>3. QED
    BY <1>2, <1>5, <2>1, <2>2 DEF CombinedSupervision
<1>8. ASSUME Selected(o) # {} PROVE CombinedVerdict(o) \in AnswerType
  <2>1. Selected(o) \in SUBSET Judges
    BY SelectedAreJudges
  <2>2. [is |-> "number", n |-> Lowest(o), by |-> Selected(o)] \in AnswerType
    BY <1>8, <2>1, LowestIsOne DEF AnswerWords, ResultType
  <2>3. {"yes", "no"} \subseteq AnswerWords
    BY DEF AnswerWords
  <2>4. QED
    BY <1>2, <1>4, <1>5, <2>1, <2>2, <2>3 DEF CombinedVerdict
<1>9. Invalid \in AnswerType
  BY <1>1 DEF Invalid, AnswerWords
<1>10. Answer("text", Selected(o)) \in AnswerType
  BY <1>2, SelectedAreJudges DEF AnswerWords
<1> HIDE DEF AnswerType
<1>11. Says(o, {"error"}) # {} => Error(Says(o, {"error"})) \in AnswerType
  BY <1>4, <1>5
<1>12. QED
  BY <1>6, <1>7, <1>8, <1>9, <1>10, <1>11 DEF Combined

(* The decisions of a call are a sequence, in list order.                   *)
LEMMA DecisionsOfType ==
  ASSUME size \in Sizes, result \in [Judges -> ResultType], run \in Nat, turn \in Nat
  PROVE  DecisionsOf \in Seq(DecisionRecord)
<1>1. size \in Nat /\ Judges = 1 .. size
  BY SizesAreNaturals DEF Judges
<1>2. \A j \in Judges : result[j].is \in AnswerWords
  BY DEF ResultType
<1>3. DecisionsOf \in [1 .. size -> DecisionRecord]
  <2>1. [run |-> run, turn |-> turn] \in [run : Nat, turn : Nat]
    OBVIOUS
  <2>2. \A j \in Judges :
          [judge |-> j, says |-> result[j].is, taken |-> [run |-> run, turn |-> turn]]
            \in DecisionRecord
    BY <1>2, <2>1 DEF DecisionRecord
  <2>3. QED
    BY <1>1, <2>2 DEF DecisionsOf
<1>4. QED
  BY <1>1, <1>3, IsASeq

(* Recording keeps the record a sequence of entries.                        *)
LEMMA RecordedUnderType ==
  ASSUME record \in Seq(EntryType), decisions \in Seq(DecisionRecord), turn \in Nat
  PROVE  RecordedUnder(record, decisions) \in Seq(EntryType)
<1>1. CASE decisions = <<>>
  BY <1>1 DEF RecordedUnder
<1>2. CASE decisions # <<>> /\ record # <<>> /\ record[Len(record)].turn = turn
  <2>1. Len(record) \in 1 .. Len(record)
    BY <1>2
  <2>2. record[Len(record)] \in EntryType
    BY <2>1
  <2>3. record[Len(record)].decisions \o decisions \in Seq(DecisionRecord)
    BY <2>2 DEF EntryType
  <2> DEFINE joined == [record[Len(record)] EXCEPT
                          !.decisions = record[Len(record)].decisions \o decisions]
  <2>4. joined \in EntryType
    BY <2>2, <2>3 DEF EntryType
  <2>5. RecordedUnder(record, decisions) = [record EXCEPT ![Len(record)] = joined]
    BY <1>2 DEF RecordedUnder
  <2> HIDE DEF joined
  <2>6. QED
    BY <2>1, <2>4, <2>5
<1>3. CASE decisions # <<>> /\ ~(record # <<>> /\ record[Len(record)].turn = turn)
  <2>1. [turn |-> turn, decisions |-> decisions] \in EntryType
    BY DEF EntryType
  <2>2. RecordedUnder(record, decisions) = Append(record, [turn |-> turn, decisions |-> decisions])
    BY <1>3 DEF RecordedUnder
  <2>3. QED
    BY <2>1, <2>2
<1>4. QED
  BY <1>1, <1>2, <1>3

LEMMA SameJudges ==
  ASSUME size' = size
  PROVE  Judges' = Judges /\ DecisionRecord' = DecisionRecord
BY DEF Judges, DecisionRecord

LEMMA TypeOKInit == Init => TypeOK
<1> SUFFICES ASSUME Init PROVE TypeOK
  OBVIOUS
<1>1. 0 \in 0 .. MaxBegun /\ 0 \in Scores \cup {0}
  BY DEF PanelAssumption
<1>2. answer \in [is : AnswerWords, n : Scores \cup {0}, by : SUBSET Judges]
  BY <1>1 DEF Init, NoAnswer, Answer, AnswerWords
<1>3. result \in [Judges -> [is : AnswerWords, n : Scores \cup {0}]]
  BY <1>1 DEF Init, NoResult, AnswerWords
<1>4. begun \in [Judges -> 0 .. MaxBegun] /\ allowed \in [Judges -> Nat]
  BY <1>1 DEF Init
<1>5. /\ at \in [Judges -> {"idle", "running", "asking", "returned", "panicked"}]
      /\ flow \in [Judges -> {"none", "continue", "break"}]
  BY DEF Init
<1>6. /\ requests \in Seq(Judges) /\ decisions \in Seq(DecisionRecord)
      /\ seen \in Seq({"continue", "break"})
      /\ record \in Seq([turn : Nat, decisions : Seq(DecisionRecord)])
  BY DEF Init
<1>7. op \in Ops
  BY DEF Init, Ops, Supervises
<1>8. QED
  BY <1>2, <1>3, <1>4, <1>5, <1>6, <1>7 DEF Init, TypeOK

LEMMA TypeOKStep == TypeOK /\ [Next]_vars => TypeOK'
<1> SUFFICES ASSUME TypeOK, [Next]_vars PROVE TypeOK'
  OBVIOUS
<1> USE DEF TypeOK, threads, engine, history
<1>1. ASSUME NEW o \in Ops, Call(o) PROVE TypeOK'
  <2>1. 0 \in 0 .. MaxBegun /\ 0 \in Scores \cup {0}
    BY DEF PanelAssumption
  <2>2. Judges' = Judges /\ DecisionRecord' = DecisionRecord
    BY <1>1, SameJudges DEF Call
  <2>3. answer' \in [is : AnswerWords, n : Scores \cup {0}, by : SUBSET Judges]
    BY <1>1, <2>1 DEF Call, NoAnswer, Answer, AnswerWords
  <2>4. result' \in [Judges -> [is : AnswerWords, n : Scores \cup {0}]]
    BY <1>1, <2>1 DEF Call, NoResult, AnswerWords
  <2>5. /\ at' \in [Judges -> {"idle", "running", "asking", "returned", "panicked"}]
        /\ begun' \in [Judges -> 0 .. MaxBegun]
        /\ flow' \in [Judges -> {"none", "continue", "break"}]
        /\ allowed' \in [Judges -> Nat]
    BY <1>1, <2>1 DEF Call
  <2>6. seen' \in Seq({"continue", "break"}) /\ stopped' \in BOOLEAN /\ calls' \in Nat
    <3>1. seen' = <<>> /\ stopped' = FALSE /\ calls' = calls + 1
      BY <1>1 DEF Call
    <3>2. seen' \in Seq({"continue", "break"})
      BY <3>1
    <3>3. stopped' \in BOOLEAN
      BY <3>1
    <3>4. calls' \in Nat
      BY <3>1
    <3>5. QED
      BY <3>2, <3>3, <3>4
  <2>7. QED
    BY <1>1, <2>2, <2>3, <2>4, <2>5, <2>6 DEF Call
<1>2. CASE ReceiveRequest
  <2>1. Judges' = Judges /\ DecisionRecord' = DecisionRecord
    BY <1>2, SameJudges DEF ReceiveRequest
  <2>2. requests' \in Seq(Judges) /\ Head(requests) \in Judges
    BY <1>2 DEF ReceiveRequest
  <2>3. PICK f \in {"continue", "break"} :
          /\ Reply(Head(requests), f)
          /\ stopped' = (stopped \/ f = "break")
          /\ seen' = IF Asked THEN Append(seen, f) ELSE seen
          /\ allowed' = IF f = "continue" THEN [allowed EXCEPT ![Head(requests)] = @ + 1]
                        ELSE allowed
    BY <1>2 DEF ReceiveRequest, ObserverAnswers
  <2>4. flow' \in [Judges -> {"none", "continue", "break"}]
    BY <2>3 DEF Reply
  <2>5. at' \in [Judges -> {"idle", "running", "asking", "returned", "panicked"}]
    BY <2>3 DEF Reply
  <2>6. seen' \in Seq({"continue", "break"}) /\ stopped' \in BOOLEAN
    BY <2>3
  <2>7. allowed' \in [Judges -> Nat]
    <3>1. allowed[Head(requests)] + 1 \in Nat
      BY <2>2
    <3>2. QED
      BY <2>3, <3>1
  <2>8. QED
    BY <1>2, <2>1, <2>2, <2>4, <2>5, <2>6, <2>7 DEF ReceiveRequest
<1>3. CASE ReceiveEnds
  BY <1>3, SameJudges DEF ReceiveEnds
<1>4. CASE Join
  <2>1. Judges' = Judges /\ DecisionRecord' = DecisionRecord
    BY <1>4, SameJudges DEF Join
  <2>2. CASE Unwinds
    BY <1>4, <2>1, <2>2 DEF Join
  <2>3. CASE ~Unwinds
    <3>1. answer' \in [is : AnswerWords, n : Scores \cup {0}, by : SUBSET Judges]
      <4>1. Combined(op) \in AnswerType
        BY CombinedType DEF ResultType
      <4>2. QED
        BY <1>4, <2>3, <4>1 DEF Join, AnswerType
    <3>2. decisions' \in Seq(DecisionRecord)
      <4>1. DecisionsOf \in Seq(DecisionRecord)
        BY DecisionsOfType DEF ResultType
      <4>2. decisions \o DecisionsOf \in Seq(DecisionRecord)
        BY <4>1
      <4>3. QED
        BY <1>4, <2>3, <4>2 DEF Join
    <3>3. QED
      BY <1>4, <2>1, <2>3, <3>1, <3>2 DEF Join
  <2>4. QED
    BY <2>2, <2>3
<1>5. ASSUME NEW j \in Judges, JudgeAsks(j) PROVE TypeOK'
  <2>1. Judges' = Judges /\ DecisionRecord' = DecisionRecord
    BY <1>5, SameJudges DEF JudgeAsks
  <2>2. begun' \in [Judges -> 0 .. MaxBegun]
    <3>1. MaxBegun \in Nat
      BY DEF PanelAssumption
    <3>2. begun[j] + 1 \in 0 .. MaxBegun
      BY <1>5, <3>1 DEF JudgeAsks
    <3>3. QED
      BY <1>5, <3>2 DEF JudgeAsks
  <2>3. requests' \in Seq(Judges)
    <3>1. Append(requests, j) \in Seq(Judges)
      OBVIOUS
    <3>2. QED
      BY <1>5, <3>1 DEF JudgeAsks
  <2>4. /\ at' \in [Judges -> {"idle", "running", "asking", "returned", "panicked"}]
        /\ flow' \in [Judges -> {"none", "continue", "break"}]
    BY <1>5 DEF JudgeAsks, ToldGone
  <2>5. QED
    BY <1>5, <2>1, <2>2, <2>3, <2>4 DEF JudgeAsks
<1>6. ASSUME NEW j \in Judges, JudgeReturns(j) PROVE TypeOK'
  <2>1. Judges' = Judges /\ DecisionRecord' = DecisionRecord
    BY <1>6, SameJudges DEF JudgeReturns
  <2>2. result' \in [Judges -> [is : AnswerWords, n : Scores \cup {0}]]
    BY <1>6, ResultsTyped DEF JudgeReturns, ResultType
  <2>3. QED
    BY <1>6, <2>1, <2>2 DEF JudgeReturns
<1>7. CASE ObserverPanicked
  <2>1. Judges' = Judges /\ DecisionRecord' = DecisionRecord
    BY <1>7, SameJudges DEF ObserverPanicked
  <2>2. QED
    BY <1>7, <2>1 DEF ObserverPanicked, ToldGone
<1>8. ASSUME NEW j \in Judges, JudgePanicked(j) PROVE TypeOK'
  <2>1. Judges' = Judges /\ DecisionRecord' = DecisionRecord
    BY <1>8, SameJudges DEF JudgePanicked
  <2>2. QED
    BY <1>8, <2>1 DEF JudgePanicked
<1>9. CASE Drain
  <2>1. Judges' = Judges /\ DecisionRecord' = DecisionRecord
    BY <1>9, SameJudges DEF Drain
  <2>2. record' \in Seq(EntryType)
    BY <1>9, RecordedUnderType DEF Drain, EntryType
  <2>3. turn' \in Nat /\ over' \in BOOLEAN /\ decisions' \in Seq(DecisionRecord)
    <3>1. /\ over' = TRUE \/ over' = FALSE
          /\ turn' = turn \/ turn' = turn + 1
          /\ decisions' = <<>>
      BY <1>9 DEF Drain
    <3>2. over' \in BOOLEAN
      BY <3>1
    <3>3. turn' \in Nat
      BY <3>1
    <3>4. decisions' \in Seq(DecisionRecord)
      BY <3>1
    <3>5. QED
      BY <3>2, <3>3, <3>4
  <2>4. QED
    BY <1>9, <2>1, <2>2, <2>3 DEF Drain, EntryType
<1>10. CASE StopUndrained \/ Scored
  BY <1>10, SameJudges DEF StopUndrained, Scored
<1>11. CASE NewRun
  <2>1. Judges' = Judges /\ DecisionRecord' = DecisionRecord
    BY <1>11, SameJudges DEF NewRun
  <2>2. /\ decisions' \in Seq(DecisionRecord)
        /\ record' \in Seq([turn : Nat, decisions : Seq(DecisionRecord)])
        /\ run' \in Nat /\ turn' \in Nat
    BY <1>11 DEF NewRun, Reset
  <2>3. QED
    BY <1>11, <2>1, <2>2 DEF NewRun
<1>12. CASE Rest \/ UNCHANGED vars
  BY <1>12, SameJudges DEF Rest, vars
<1>13. QED
  BY <1>1, <1>2, <1>3, <1>4, <1>5, <1>6, <1>7, <1>8, <1>9, <1>10, <1>11, <1>12
     DEF Next, PanelStep, EngineStep

(* Every variable of the panel and of the engine's record keeps to the      *)
(* values the code's types allow, for any number of judges.                 *)
THEOREM PanelTypeCorrect == Spec => []TypeOK
<1>1. Init => TypeOK
  BY TypeOKInit
<1>2. TypeOK /\ [Next]_vars => TypeOK'
  BY TypeOKStep
<1>3. QED
  BY <1>1, <1>2, PTL DEF Spec

-----------------------------------------------------------------------------
(* PanelInv, part by part.                                                  *)

LEMMA PanelInvInit == Init => PanelInv
BY DEF Init, PanelInv, ThreadsInCall, RequestsAreAsked, FlowsAreAnswers, BreakIsHeard,
       NotAskedAfterBreak, ResultsFit, AnswerIsCombined, DecisionsAreThisTurns, RecordIsThisRuns

(* The selection depends on the panel and the operation only.               *)
LEMMA SelectionOf ==
  ASSUME size' = size, NEW o, op' = o
  PROVE  Selected(op)' = Selected(o)
BY DEF Selected, Judges

LEMMA SameSelection ==
  ASSUME size' = size, op' = op
  PROVE  Selected(op)' = Selected(op)
BY DEF Selected, Judges

(* The request at the head of the channel is a waiting judge's.             *)
LEMMA HeadAsks ==
  ASSUME TypeOK, RequestsAreAsked, requests # <<>>
  PROVE  Head(requests) \in Judges /\ at[Head(requests)] = "asking"
<1>1. 1 \in DOMAIN requests /\ Head(requests) = requests[1]
  BY DEF TypeOK
<1>2. QED
  BY <1>1 DEF TypeOK, RequestsAreAsked

LEMMA ThreadsInCallStep ==
  ASSUME TypeOK, PanelInv, [Next]_vars
  PROVE  ThreadsInCall'
<1> USE DEF ThreadsInCall, TypeOK, PanelInv, threads, engine, history
<1>1. ASSUME NEW o \in Ops, Call(o) PROVE ThreadsInCall'
  <2>1. Judges' = Judges /\ Selected(op)' = Selected(o)
    BY <1>1, SameJudges, SelectionOf DEF Call
  <2>2. caller' \in {"receiving", "joining"}
    BY <1>1 DEF Call
  <2>3. \A j \in Judges : at'[j] = IF j \in Selected(o) THEN "running" ELSE "idle"
    BY <1>1 DEF Call
  <2>4. QED
    BY <2>1, <2>2, <2>3
<1>2. CASE ReceiveRequest
  <2>1. Judges' = Judges /\ Selected(op)' = Selected(op) /\ caller' = caller
    BY <1>2, SameJudges, SameSelection DEF ReceiveRequest
  <2>2. at' = [at EXCEPT ![Head(requests)] = "running"]
    BY <1>2 DEF ReceiveRequest, Reply
  <2>3. Head(requests) \in Judges /\ at[Head(requests)] = "asking"
    BY <1>2, HeadAsks DEF ReceiveRequest
  <2>4. QED
    BY <1>2, <2>1, <2>2, <2>3, SMTT(30) DEF ReceiveRequest
<1>3. CASE ReceiveEnds
  <2>1. Judges' = Judges /\ Selected(op)' = Selected(op) /\ caller' = "joining" /\ at' = at
    BY <1>3, SameJudges, SameSelection DEF ReceiveEnds
  <2>2. \A j \in Selected(op) : at[j] # "asking"
    BY <1>3 DEF ReceiveEnds, SendersGone, AllFinished, Finished
  <2>3. QED
    BY <2>1, <2>2
<1>4. CASE Join
  <2>1. Judges' = Judges /\ Selected(op)' = Selected(op) /\ at' = at
    BY <1>4, SameJudges, SameSelection DEF Join
  <2>2. \A j \in Judges : at[j] \notin {"running", "asking"}
    BY <1>4 DEF Join, Joined, AllFinished, Finished
  <2>3. QED
    BY <2>1, <2>2
<1>5. ASSUME NEW j \in Judges, JudgeAsks(j) PROVE ThreadsInCall'
  <2>1. Judges' = Judges /\ Selected(op)' = Selected(op) /\ caller' = caller
    BY <1>5, SameJudges, SameSelection DEF JudgeAsks
  <2>2. CASE caller = "receiving"
    BY <1>5, <2>1, <2>2 DEF JudgeAsks
  <2>3. CASE caller # "receiving"
    BY <1>5, <2>1, <2>3 DEF JudgeAsks
  <2>4. QED
    BY <2>2, <2>3
<1>6. ASSUME NEW j \in Judges, JudgeReturns(j) \/ JudgePanicked(j) PROVE ThreadsInCall'
  <2>1. Judges' = Judges /\ Selected(op)' = Selected(op) /\ caller' = caller
    BY <1>6, SameJudges, SameSelection DEF JudgeReturns, JudgePanicked
  <2>2. \A k \in Judges : at'[k] = at[k] \/ at'[k] = "returned" \/ at'[k] = "panicked"
    BY <1>6 DEF JudgeReturns, JudgePanicked
  <2>3. \A k \in Judges : at'[k] \in {"running", "asking"} => at'[k] = at[k]
    BY <2>2
  <2>4. QED
    BY <2>1, <2>3
<1>7. CASE ObserverPanicked
  <2>1. Judges' = Judges /\ Selected(op)' = Selected(op) /\ caller' = "unwinding"
    BY <1>7, SameJudges, SameSelection DEF ObserverPanicked
  <2>2. \A k \in Judges : at'[k] = IF at[k] = "asking" THEN "running" ELSE at[k]
    BY <1>7 DEF ObserverPanicked
  <2>3. QED
    BY <2>1, <2>2
<1>8. CASE Drain \/ StopUndrained \/ Scored \/ NewRun \/ Rest \/ UNCHANGED vars
  <2>1. Judges' = Judges /\ Selected(op)' = Selected(op) /\ at' = at
    BY <1>8, SameJudges, SameSelection DEF Drain, StopUndrained, Scored, NewRun, Rest, vars
  <2>2. caller' = caller \/ caller \in {"idle", "answered", "unwound"}
    BY <1>8 DEF Drain, StopUndrained, Scored, NewRun, Rest, vars
  <2>3. QED
    BY <2>1, <2>2
<1>9. QED
  BY <1>1, <1>2, <1>3, <1>4, <1>5, <1>6, <1>7, <1>8 DEF Next, PanelStep, EngineStep

LEMMA RequestsAreAskedStep ==
  ASSUME TypeOK, PanelInv, [Next]_vars
  PROVE  RequestsAreAsked'
<1> USE DEF RequestsAreAsked, TypeOK, PanelInv, threads, engine, history
<1>1. ASSUME NEW o \in Ops, Call(o) PROVE RequestsAreAsked'
  BY <1>1 DEF Call
<1>2. CASE ReceiveRequest
  <2>1. /\ requests' = Tail(requests) /\ caller' = caller /\ requests # <<>>
        /\ at' = [at EXCEPT ![Head(requests)] = "running"]
    BY <1>2 DEF ReceiveRequest, Reply
  <2>2. \A i \in DOMAIN requests' :
          i \in Nat /\ i + 1 \in DOMAIN requests /\ requests'[i] = requests[i + 1]
    <3>1. /\ Tail(requests) \in Seq(Judges) /\ Len(Tail(requests)) = Len(requests) - 1
          /\ \A i \in 1 .. Len(Tail(requests)) : Tail(requests)[i] = requests[i + 1]
      BY <2>1, HeadTailProperties
    <3>2. DOMAIN requests = 1 .. Len(requests) /\ Len(requests) \in Nat
          /\ DOMAIN requests' = 1 .. Len(requests) - 1
      BY <2>1, <3>1
    <3>3. TAKE i \in DOMAIN requests'
    <3>4. i \in 1 .. Len(requests) - 1
      BY <3>2
    <3>5. i \in Nat /\ i + 1 \in 1 .. Len(requests)
      BY <3>2, <3>4, SMTT(30)
    <3>6. requests'[i] = requests[i + 1]
      BY <2>1, <3>1, <3>2, <3>4
    <3>7. QED
      BY <3>2, <3>5, <3>6
  <2>3. 1 \in DOMAIN requests /\ Head(requests) = requests[1]
    BY <2>1
  <2>4. \A i \in DOMAIN requests' : requests[i + 1] # requests[1]
    <3>1. TAKE i \in DOMAIN requests'
    <3>2. i \in Nat /\ i >= 1 /\ i + 1 # 1 /\ i + 1 \in DOMAIN requests
      BY <2>1, <2>2
    <3>3. QED
      BY <2>3, <3>2
  <2>5. \A i \in DOMAIN requests' : at'[requests'[i]] = "asking"
    BY <2>1, <2>2, <2>3, <2>4
  <2>6. \A i, k \in DOMAIN requests' : requests'[i] = requests'[k] => i = k
    <3>1. TAKE i, k \in DOMAIN requests'
    <3>2. HAVE requests'[i] = requests'[k]
    <3>3. i \in Nat /\ k \in Nat /\ i + 1 = k + 1
      BY <2>2, <3>2
    <3>4. QED
      BY <3>3
  <2>7. QED
    BY <1>2, <2>1, <2>5, <2>6 DEF ReceiveRequest
<1>3. CASE ReceiveEnds
  BY <1>3 DEF ReceiveEnds, SendersGone
<1>4. CASE Join
  BY <1>4 DEF Join
<1>5. ASSUME NEW j \in Judges, JudgeAsks(j) PROVE RequestsAreAsked'
  <2>1. CASE caller # "receiving"
    BY <1>5, <2>1 DEF JudgeAsks
  <2>2. CASE caller = "receiving"
    <3>1. /\ requests' = Append(requests, j) /\ caller' = caller
          /\ at' = [at EXCEPT ![j] = "asking"] /\ at[j] = "running"
      BY <1>5, <2>2 DEF JudgeAsks
    <3>2. DOMAIN requests' = 1 .. Len(requests) + 1 /\ Len(requests) \in Nat
      BY <3>1
    <3>3. /\ \A i \in 1 .. Len(requests) :
               requests'[i] = requests[i] /\ i \in DOMAIN requests
          /\ requests'[Len(requests) + 1] = j
      BY <3>1
    <3>4. \A i \in 1 .. Len(requests) : requests[i] # j /\ at[requests[i]] = "asking"
      BY <3>1, <3>3
    <3>5. \A i \in DOMAIN requests' : i \in 1 .. Len(requests) \/ i = Len(requests) + 1
      BY <3>2
    <3>6. \A i \in DOMAIN requests' : at'[requests'[i]] = "asking"
      BY <3>1, <3>3, <3>4, <3>5
    <3>7. \A i, k \in DOMAIN requests' : requests'[i] = requests'[k] => i = k
      <4>1. TAKE i, k \in DOMAIN requests'
      <4>2. HAVE requests'[i] = requests'[k]
      <4>3. CASE i \in 1 .. Len(requests) /\ k \in 1 .. Len(requests)
        <5>1. requests[i] = requests[k] /\ i \in DOMAIN requests /\ k \in DOMAIN requests
          BY <3>3, <4>2, <4>3
        <5>2. QED
          BY <5>1
      <4>4. CASE i \in 1 .. Len(requests) /\ k = Len(requests) + 1
        BY <3>3, <3>4, <4>2, <4>4
      <4>5. CASE i = Len(requests) + 1 /\ k \in 1 .. Len(requests)
        BY <3>3, <3>4, <4>2, <4>5
      <4>6. QED
        BY <3>5, <4>3, <4>4, <4>5
    <3>8. QED
      BY <2>2, <3>1, <3>6, <3>7
  <2>3. QED
    BY <2>1, <2>2
<1>6. ASSUME NEW j \in Judges, JudgeReturns(j) \/ JudgePanicked(j) PROVE RequestsAreAsked'
  <2>1. requests' = requests /\ caller' = caller /\ at[j] = "running"
    BY <1>6 DEF JudgeReturns, JudgePanicked
  <2>2. \A k \in Judges : k # j => at'[k] = at[k]
    BY <1>6 DEF JudgeReturns, JudgePanicked
  <2>3. QED
    BY <2>1, <2>2
<1>7. CASE ObserverPanicked
  BY <1>7 DEF ObserverPanicked
<1>8. CASE Drain \/ StopUndrained \/ Scored \/ NewRun \/ Rest \/ UNCHANGED vars
  <2>1. /\ requests' = requests /\ at' = at
        /\ caller' = caller \/ caller \in {"idle", "answered", "unwound"}
    BY <1>8 DEF Drain, StopUndrained, Scored, NewRun, Rest, vars
  <2>2. QED
    BY <2>1
<1>9. QED
  BY <1>1, <1>2, <1>3, <1>4, <1>5, <1>6, <1>7, <1>8 DEF Next, PanelStep, EngineStep

LEMMA FlowsAreAnswersStep ==
  ASSUME TypeOK, PanelInv, [Next]_vars
  PROVE  FlowsAreAnswers'
<1> USE DEF FlowsAreAnswers, TypeOK, PanelInv, threads, engine, history
<1>1. ASSUME NEW o \in Ops, Call(o) PROVE FlowsAreAnswers'
  <2>1. Judges' = Judges
    BY <1>1, SameJudges DEF Call
  <2>2. \A j \in Judges : /\ flow'[j] = "none" /\ begun'[j] = 0 /\ allowed'[j] = 0
                          /\ at'[j] # "asking"
    BY <1>1 DEF Call
  <2>3. QED
    BY <2>1, <2>2
<1>2. CASE ReceiveRequest
  <2> DEFINE h == Head(requests)
  <2>1. Judges' = Judges /\ caller' = caller /\ caller = "receiving" /\ begun' = begun
    BY <1>2, SameJudges DEF ReceiveRequest
  <2>2. h \in Judges /\ at[h] = "asking"
    BY <1>2, HeadAsks DEF ReceiveRequest
  <2>3. PICK f \in {"continue", "break"} :
          /\ ~Asked => f = "break"
          /\ flow' = [flow EXCEPT ![h] = f]
          /\ at' = [at EXCEPT ![h] = "running"]
          /\ stopped' = (stopped \/ f = "break")
          /\ allowed' = IF f = "continue" THEN [allowed EXCEPT ![h] = @ + 1] ELSE allowed
    BY <1>2 DEF ReceiveRequest, ObserverAnswers, Reply
  <2> HIDE DEF h
  <2>4. \A j \in Judges : j # h => /\ flow'[j] = flow[j] /\ at'[j] = at[j]
                                   /\ allowed'[j] = allowed[j]
    BY <2>2, <2>3
  <2>5. \A j \in Judges : flow'[j] = "break" => stopped'
    BY <2>1, <2>2, <2>3, <2>4
  <2>6. CASE f = "break"
    BY <2>1, <2>2, <2>3, <2>4, <2>5, <2>6
  <2>7. CASE f = "continue"
    <3>1. ~stopped /\ flow[h] # "break"
      BY <2>1, <2>2, <2>3, <2>7 DEF Asked
    <3>2. begun[h] = allowed[h] + 1
      BY <2>2, <3>1
    <3>3. allowed'[h] = allowed[h] + 1 /\ at'[h] = "running" /\ allowed[h] \in Nat
      BY <2>2, <2>3, <2>7
    <3>4. ASSUME NEW j \in Judges, flow'[j] # "break"
          PROVE  begun'[j] = allowed'[j] + (IF at'[j] = "asking" THEN 1 ELSE 0)
      <4>1. CASE j = h
        BY <2>1, <3>2, <3>3, <4>1
      <4>2. CASE j # h
        BY <2>1, <2>4, <3>4, <4>2
      <4>3. QED
        BY <4>1, <4>2
    <3>5. QED
      BY <2>1, <2>5, <3>4
  <2>8. QED
    BY <2>3, <2>6, <2>7
<1>3. CASE ReceiveEnds \/ Join \/ StopUndrained \/ Scored \/ Drain \/ NewRun \/ Rest \/ UNCHANGED vars
  <2>1. /\ Judges' = Judges /\ threads' = threads /\ stopped' = stopped /\ allowed' = allowed
        /\ caller' # "receiving" \/ caller' = caller
    BY <1>3, SameJudges
       DEF ReceiveEnds, Join, StopUndrained, Scored, Drain, NewRun, Rest, vars
  <2>2. QED
    BY <2>1
<1>4. ASSUME NEW j \in Judges, JudgeAsks(j) PROVE FlowsAreAnswers'
  <2>1. /\ Judges' = Judges /\ caller' = caller /\ stopped' = stopped /\ allowed' = allowed
        /\ begun' = [begun EXCEPT ![j] = @ + 1] /\ at[j] = "running"
    BY <1>4, SameJudges DEF JudgeAsks
  <2>2. CASE caller = "receiving"
    <3>1. at' = [at EXCEPT ![j] = "asking"] /\ flow' = flow
      BY <1>4, <2>2 DEF JudgeAsks
    <3>2. begun[j] \in Nat /\ allowed[j] \in Nat /\ begun'[j] = begun[j] + 1 /\ at'[j] = "asking"
      BY <2>1, <3>1, PanelAssumption
    <3>3. \A k \in Judges : k # j => begun'[k] = begun[k] /\ at'[k] = at[k]
      BY <2>1, <3>1
    <3>4. flow[j] # "break" => begun'[j] = allowed[j] + 1
      <4>1. flow[j] # "break" => begun[j] = allowed[j] + 0
        BY <2>1
      <4>2. QED
        BY <3>2, <4>1
    <3>5. QED
      BY <2>1, <3>1, <3>2, <3>3, <3>4
  <2>3. CASE caller # "receiving"
    <3>1. at' = at /\ flow' = [flow EXCEPT ![j] = "break"]
      BY <1>4, <2>3 DEF JudgeAsks, ToldGone
    <3>2. \A k \in Judges : k # j => begun'[k] = begun[k] /\ flow'[k] = flow[k]
      BY <2>1, <3>1
    <3>3. flow'[j] = "break"
      BY <3>1
    <3>4. QED
      BY <2>1, <2>3, <3>1, <3>2, <3>3
  <2>4. QED
    BY <2>2, <2>3
<1>5. ASSUME NEW j \in Judges, JudgeReturns(j) \/ JudgePanicked(j) PROVE FlowsAreAnswers'
  <2>1. /\ Judges' = Judges /\ caller' = caller /\ stopped' = stopped /\ allowed' = allowed
        /\ begun' = begun /\ flow' = flow /\ at[j] = "running"
    BY <1>5, SameJudges DEF JudgeReturns, JudgePanicked
  <2>2. \A k \in Judges : at'[k] = "asking" <=> at[k] = "asking"
    BY <1>5 DEF JudgeReturns, JudgePanicked
  <2>3. QED
    BY <2>1, <2>2
<1>6. CASE ObserverPanicked
  <2>1. /\ Judges' = Judges /\ caller' = "unwinding" /\ begun' = begun /\ allowed' = allowed
    BY <1>6, SameJudges DEF ObserverPanicked
  <2>2. \A k \in Judges : /\ flow'[k] = IF at[k] = "asking" THEN "break" ELSE flow[k]
                          /\ at'[k] # "asking"
    BY <1>6 DEF ObserverPanicked, ToldGone
  <2>3. QED
    BY <2>1, <2>2
<1>7. QED
  BY <1>1, <1>2, <1>3, <1>4, <1>5, <1>6 DEF Next, PanelStep, EngineStep

LEMMA LastOrEarlier ==
  ASSUME NEW n \in Nat, NEW i \in 1 .. n + 1
  PROVE  i \in 1 .. n \/ i = n + 1
OBVIOUS

LEMMA BreakIsHeardStep ==
  ASSUME TypeOK, PanelInv, [Next]_vars
  PROVE  BreakIsHeard' /\ NotAskedAfterBreak'
<1> USE DEF BreakIsHeard, NotAskedAfterBreak, TypeOK, PanelInv, threads, engine, history
<1>1. ASSUME NEW o \in Ops, Call(o) PROVE BreakIsHeard' /\ NotAskedAfterBreak'
  BY <1>1 DEF Call
<1>2. CASE ReceiveRequest
  <2>1. PICK f \in {"continue", "break"} :
          /\ stopped' = (stopped \/ f = "break")
          /\ seen' = IF Asked THEN Append(seen, f) ELSE seen
    BY <1>2 DEF ReceiveRequest, ObserverAnswers
  <2>2. CASE stopped
    BY <2>1, <2>2 DEF Asked
  <2>3. CASE ~stopped
    <3>1. /\ Len(seen') = Len(seen) + 1 /\ Len(seen) \in Nat
          /\ DOMAIN seen' = 1 .. Len(seen) + 1
          /\ \A i \in 1 .. Len(seen) : seen'[i] = seen[i] /\ seen[i] # "break"
          /\ seen'[Len(seen) + 1] = f
      BY <2>1, <2>3 DEF Asked
    <3>2. ASSUME NEW i \in DOMAIN seen' PROVE i \in 1 .. Len(seen) \/ i = Len(seen')
      <4>1. Len(seen) \in Nat /\ i \in 1 .. Len(seen) + 1
        BY <3>1
      <4>2. i \in 1 .. Len(seen) \/ i = Len(seen) + 1
        BY <4>1, LastOrEarlier
      <4>3. QED
        BY <3>1, <4>2
    <3>3. \A i \in DOMAIN seen' : seen'[i] = "break" => i = Len(seen')
      BY <3>1, <3>2
    <3>4. \A i \in DOMAIN seen' : seen'[i] = "break" => f = "break"
      BY <3>1, <3>2
    <3>5. QED
      BY <2>1, <3>3, <3>4
  <2>4. QED
    BY <2>2, <2>3
<1>3. ASSUME UNCHANGED <<seen, stopped>> PROVE BreakIsHeard' /\ NotAskedAfterBreak'
  BY <1>3
<1>4. CASE ReceiveEnds \/ Join \/ StopUndrained \/ Scored \/ Drain \/ NewRun \/ Rest \/ UNCHANGED vars
  BY <1>3, <1>4 DEF ReceiveEnds, Join, StopUndrained, Scored, Drain, NewRun, Rest, vars
<1>5. ASSUME NEW j \in Judges, JudgeAsks(j) \/ JudgeReturns(j) \/ JudgePanicked(j)
      PROVE  BreakIsHeard' /\ NotAskedAfterBreak'
  BY <1>3, <1>5 DEF JudgeAsks, JudgeReturns, JudgePanicked
<1>6. CASE ObserverPanicked
  BY <1>3, <1>6 DEF ObserverPanicked
<1>7. QED
  BY <1>1, <1>2, <1>4, <1>5, <1>6 DEF Next, PanelStep, EngineStep

LEMMA ResultsFitStep ==
  ASSUME TypeOK, PanelInv, [Next]_vars
  PROVE  ResultsFit'
<1> USE DEF ResultsFit, TypeOK, PanelInv, threads, engine, history
<1>1. ASSUME NEW o \in Ops, Call(o) PROVE ResultsFit'
  <2>1. Judges' = Judges /\ \A j \in Judges : at'[j] # "returned"
    BY <1>1, SameJudges DEF Call
  <2>2. QED
    BY <2>1
<1>2. ASSUME NEW j \in Judges, JudgeReturns(j) PROVE ResultsFit'
  <2>1. Judges' = Judges /\ op' = op /\ ResultsOf(op)' = ResultsOf(op)
    BY <1>2, SameJudges DEF JudgeReturns, ResultsOf
  <2>2. PICK r \in ResultsOf(op) : result' = [result EXCEPT ![j] = r]
    BY <1>2 DEF JudgeReturns
  <2>3. result'[j] = r /\ \A k \in Judges : k # j => result'[k] = result[k] /\ at'[k] = at[k]
    BY <1>2, <2>2 DEF JudgeReturns
  <2>4. QED
    BY <2>1, <2>3
<1>3. ASSUME UNCHANGED <<size, op, result>>, \A j \in Judges : at'[j] = "returned" => at[j] = "returned"
      PROVE  ResultsFit'
  BY <1>3, SameJudges DEF ResultsOf
<1>4. CASE ReceiveRequest
  <2>1. at' = [at EXCEPT ![Head(requests)] = "running"]
    BY <1>4 DEF ReceiveRequest, Reply
  <2>2. \A j \in Judges : at'[j] = "returned" => at[j] = "returned"
    BY <2>1
  <2>3. QED
    BY <1>3, <1>4, <2>2 DEF ReceiveRequest
<1>5. ASSUME NEW j \in Judges, JudgeAsks(j) \/ JudgePanicked(j) PROVE ResultsFit'
  <2>1. \A k \in Judges : at'[k] = "returned" => at[k] = "returned"
    BY <1>5 DEF JudgeAsks, JudgePanicked
  <2>2. QED
    BY <1>3, <1>5, <2>1 DEF JudgeAsks, JudgePanicked
<1>6. CASE ObserverPanicked
  <2>1. \A k \in Judges : at'[k] = "returned" => at[k] = "returned"
    BY <1>6 DEF ObserverPanicked
  <2>2. QED
    BY <1>3, <1>6, <2>1 DEF ObserverPanicked
<1>7. CASE ReceiveEnds \/ Join \/ StopUndrained \/ Scored \/ Drain \/ NewRun \/ Rest \/ UNCHANGED vars
  BY <1>3, <1>7 DEF ReceiveEnds, Join, StopUndrained, Scored, Drain, NewRun, Rest, vars
<1>8. QED
  BY <1>1, <1>2, <1>4, <1>5, <1>6, <1>7 DEF Next, PanelStep, EngineStep

(* The combined answer depends on the panel, the operation and the results. *)
LEMMA SameCombined ==
  ASSUME size' = size, op' = op, result' = result
  PROVE  Combined(op)' = Combined(op)
BY DEF Combined, CombinedSupervision, CombinedVerdict, Verbatim, Says, Selected, Judges, Multi,
       FirstOf, Error, Answer, Lowest, Invalid

LEMMA AnswerIsCombinedStep ==
  ASSUME TypeOK, PanelInv, [Next]_vars
  PROVE  AnswerIsCombined'
<1> USE DEF AnswerIsCombined, TypeOK, PanelInv, threads, engine, history
<1>1. CASE Join
  <2>1. CASE Unwinds
    BY <1>1, <2>1 DEF Join
  <2>2. CASE ~Unwinds
    <3>1. answer' = Combined(op) /\ at' = at /\ size' = size /\ op' = op /\ result' = result
      BY <1>1, <2>2 DEF Join
    <3>2. \A j \in Selected(op) : at[j] = "returned"
      BY <1>1, <2>2 DEF Join, Joined, AllFinished, Finished, Unwinds
    <3>3. Combined(op)' = Combined(op) /\ Selected(op)' = Selected(op)
      BY <3>1, SameCombined, SameSelection
    <3>4. QED
      BY <3>1, <3>2, <3>3
  <2>3. QED
    BY <2>1, <2>2
<1>2. ASSUME UNCHANGED <<size, op, result, answer, at, caller>> PROVE AnswerIsCombined'
  BY <1>2, SameCombined, SameSelection
<1>3. CASE Rest \/ UNCHANGED vars
  BY <1>2, <1>3 DEF Rest, vars
<1>4. ASSUME NEW j \in Judges, JudgeReturns(j) \/ JudgePanicked(j) PROVE AnswerIsCombined'
  <2>1. caller # "answered" /\ caller' = caller
    BY <1>4 DEF ThreadsInCall, JudgeReturns, JudgePanicked
  <2>2. QED
    BY <2>1
<1>5. ASSUME NEW j \in Judges, JudgeAsks(j) PROVE AnswerIsCombined'
  <2>1. caller # "answered" /\ caller' = caller
    BY <1>5 DEF ThreadsInCall, JudgeAsks
  <2>2. QED
    BY <2>1
<1>6. ASSUME caller' # "answered" PROVE AnswerIsCombined'
  BY <1>6
<1>7. ASSUME NEW o \in Ops, Call(o) PROVE AnswerIsCombined'
  BY <1>6, <1>7 DEF Call
<1>8. CASE ReceiveRequest \/ ReceiveEnds \/ ObserverPanicked \/ StopUndrained \/ Scored \/ Drain \/ NewRun
  BY <1>6, <1>8
     DEF ReceiveRequest, ReceiveEnds, ObserverPanicked, StopUndrained, Scored, Drain, NewRun
<1>9. QED
  BY <1>1, <1>3, <1>4, <1>5, <1>7, <1>8 DEF Next, PanelStep, EngineStep

(* What is true of every element of two sequences is true of every element  *)
(* of their concatenation: here, when it was taken.                         *)
LEMMA TakenConcat ==
  ASSUME NEW R, NEW s \in Seq(R), NEW u \in Seq(R), NEW when,
         \A d \in DOMAIN s : s[d].taken = when,
         \A d \in DOMAIN u : u[d].taken = when
  PROVE  \A d \in DOMAIN (s \o u) : (s \o u)[d].taken = when
<1>1. /\ s \o u \in Seq(R) /\ Len(s \o u) = Len(s) + Len(u)
      /\ \A i \in 1 .. Len(s) + Len(u) :
           (s \o u)[i] = IF i <= Len(s) THEN s[i] ELSE u[i - Len(s)]
  BY ConcatProperties
<1>2. Len(s) \in Nat /\ Len(u) \in Nat /\ DOMAIN s = 1 .. Len(s) /\ DOMAIN u = 1 .. Len(u)
      /\ DOMAIN (s \o u) = 1 .. Len(s) + Len(u)
  BY <1>1
<1>3. TAKE d \in DOMAIN (s \o u)
<1>4. CASE d <= Len(s)
  BY <1>1, <1>2, <1>4
<1>5. CASE ~(d <= Len(s))
  <2>1. d \in Int /\ d - Len(s) \in 1 .. Len(u)
    BY <1>2, <1>5
  <2>2. (s \o u)[d] = u[d - Len(s)]
    BY <1>1, <1>2, <1>5
  <2>3. QED
    BY <1>2, <2>1, <2>2
<1>6. QED
  BY <1>4, <1>5

LEMMA DecisionsAreThisTurnsStep ==
  ASSUME TypeOK, PanelInv, [Next]_vars
  PROVE  DecisionsAreThisTurns'
<1> USE DEF DecisionsAreThisTurns, TypeOK, PanelInv, threads, engine, history
<1>1. CASE Join
  <2>1. run' = run /\ turn' = turn
    BY <1>1 DEF Join
  <2>2. CASE decisions' = decisions
    BY <2>1, <2>2
  <2>3. CASE decisions' = decisions \o DecisionsOf
    <3>1. DecisionsOf \in Seq(DecisionRecord)
      BY DecisionsOfType DEF ResultType
    <3>2. \A d \in DOMAIN DecisionsOf : DecisionsOf[d].taken = [run |-> run, turn |-> turn]
      BY DEF DecisionsOf
    <3>3. QED
      BY <2>1, <2>3, <3>1, <3>2, TakenConcat
  <2>4. QED
    BY <1>1, <2>2, <2>3 DEF Join
<1>2. CASE Drain \/ NewRun
  BY <1>2 DEF Drain, NewRun, Reset
<1>3. ASSUME UNCHANGED <<decisions, run, turn>> PROVE DecisionsAreThisTurns'
  BY <1>3
<1>4. ASSUME NEW o \in Ops, Call(o) PROVE DecisionsAreThisTurns'
  BY <1>3, <1>4 DEF Call
<1>5. ASSUME NEW j \in Judges, JudgeAsks(j) \/ JudgeReturns(j) \/ JudgePanicked(j)
      PROVE  DecisionsAreThisTurns'
  BY <1>3, <1>5 DEF JudgeAsks, JudgeReturns, JudgePanicked
<1>6. CASE ReceiveRequest \/ ReceiveEnds \/ ObserverPanicked \/ StopUndrained \/ Scored \/ Rest
           \/ UNCHANGED vars
  BY <1>3, <1>6
     DEF ReceiveRequest, ReceiveEnds, ObserverPanicked, StopUndrained, Scored, Rest, vars
<1>7. QED
  BY <1>1, <1>2, <1>4, <1>5, <1>6 DEF Next, PanelStep, EngineStep

(* A decision recorded is one that was pending: under its own turn.         *)
LEMMA RecordedUnderOwnTurn ==
  ASSUME TypeOK, DecisionsAreThisTurns, RecordIsThisRuns,
         NEW i \in DOMAIN RecordedUnder(record, decisions)
  PROVE  LET entry == RecordedUnder(record, decisions)[i]
         IN  \A d \in DOMAIN entry.decisions :
               entry.decisions[d].taken = [run |-> run, turn |-> entry.turn]
<1> USE DEF DecisionsAreThisTurns, RecordIsThisRuns
<1>1. decisions \in Seq(DecisionRecord) /\ record \in Seq(EntryType) /\ turn \in Nat
  BY DEF TypeOK, EntryType
<1>2. CASE decisions = <<>>
  BY <1>2 DEF RecordedUnder
<1>3. CASE decisions # <<>> /\ record # <<>> /\ record[Len(record)].turn = turn
  <2> DEFINE last == record[Len(record)]
             joined == [last EXCEPT !.decisions = last.decisions \o decisions]
  <2>1. RecordedUnder(record, decisions) = [record EXCEPT ![Len(record)] = joined]
    BY <1>3 DEF RecordedUnder
  <2>2. Len(record) \in DOMAIN record /\ last \in EntryType
    BY <1>1, <1>3
  <2>3. joined.turn = turn /\ joined.decisions = last.decisions \o decisions
    BY <1>3, <2>2 DEF EntryType
  <2>4. last.decisions \in Seq(DecisionRecord)
    BY <2>2 DEF EntryType
  <2>5. \A d \in DOMAIN last.decisions : last.decisions[d].taken = [run |-> run, turn |-> turn]
    BY <1>3, <2>2
  <2>6. \A d \in DOMAIN (last.decisions \o decisions) :
          (last.decisions \o decisions)[d].taken = [run |-> run, turn |-> turn]
    BY <1>1, <2>4, <2>5, TakenConcat
  <2> HIDE DEF joined, last
  <2>7. CASE i = Len(record)
    BY <2>1, <2>2, <2>3, <2>6, <2>7
  <2>8. CASE i # Len(record)
    BY <2>1, <2>2, <2>8
  <2>9. QED
    BY <2>7, <2>8
<1>4. CASE decisions # <<>> /\ ~(record # <<>> /\ record[Len(record)].turn = turn)
  <2> DEFINE entry == [turn |-> turn, decisions |-> decisions]
  <2>1. RecordedUnder(record, decisions) = Append(record, entry)
    BY <1>4 DEF RecordedUnder
  <2>2. entry \in EntryType
    BY <1>1 DEF EntryType
  <2>3. entry.turn = turn /\ entry.decisions = decisions
    OBVIOUS
  <2> HIDE DEF entry
  <2>4. /\ Len(record) \in Nat /\ DOMAIN record = 1 .. Len(record)
        /\ DOMAIN Append(record, entry) = 1 .. Len(record) + 1
        /\ \A k \in 1 .. Len(record) : Append(record, entry)[k] = record[k]
        /\ Append(record, entry)[Len(record) + 1] = entry
    BY <1>1, <2>2, AppendProperties
  <2>5. i \in 1 .. Len(record) \/ i = Len(record) + 1
    BY <2>1, <2>4, LastOrEarlier
  <2>6. CASE i \in 1 .. Len(record)
    BY <2>1, <2>4, <2>6
  <2>7. CASE i = Len(record) + 1
    BY <2>1, <2>3, <2>4, <2>7
  <2>8. QED
    BY <2>5, <2>6, <2>7
<1>5. QED
  BY <1>2, <1>3, <1>4

LEMMA RecordIsThisRunsStep ==
  ASSUME TypeOK, PanelInv, [Next]_vars
  PROVE  RecordIsThisRuns'
<1> USE DEF PanelInv, threads, engine, history
<1>1. CASE Drain
  <2>1. record' = RecordedUnder(record, decisions) /\ run' = run
    BY <1>1 DEF Drain
  <2>2. QED
    BY <2>1, RecordedUnderOwnTurn DEF RecordIsThisRuns
<1>2. CASE NewRun
  BY <1>2 DEF NewRun, RecordIsThisRuns
<1>3. ASSUME UNCHANGED <<record, run>> PROVE RecordIsThisRuns'
  BY <1>3 DEF RecordIsThisRuns
<1>4. ASSUME NEW o \in Ops, Call(o) PROVE RecordIsThisRuns'
  BY <1>3, <1>4 DEF Call
<1>5. ASSUME NEW j \in Judges, JudgeAsks(j) \/ JudgeReturns(j) \/ JudgePanicked(j)
      PROVE  RecordIsThisRuns'
  BY <1>3, <1>5 DEF JudgeAsks, JudgeReturns, JudgePanicked
<1>6. CASE ReceiveRequest \/ ReceiveEnds \/ Join \/ ObserverPanicked \/ StopUndrained \/ Scored
           \/ Rest \/ UNCHANGED vars
  BY <1>3, <1>6
     DEF ReceiveRequest, ReceiveEnds, Join, ObserverPanicked, StopUndrained, Scored, Rest, vars
<1>7. QED
  BY <1>1, <1>2, <1>4, <1>5, <1>6 DEF Next, PanelStep, EngineStep

(* The invariant holds of every reachable state.                            *)
LEMMA PanelInvHolds == Spec => [](TypeOK /\ PanelInv)
<1>1. Init => TypeOK /\ PanelInv
  BY TypeOKInit, PanelInvInit
<1>2. TypeOK /\ PanelInv /\ [Next]_vars => TypeOK' /\ PanelInv'
  <2>1. SUFFICES ASSUME TypeOK, PanelInv, [Next]_vars PROVE TypeOK' /\ PanelInv'
    OBVIOUS
  <2>2. TypeOK'
    BY <2>1, TypeOKStep
  <2>3. ThreadsInCall' /\ RequestsAreAsked' /\ FlowsAreAnswers'
    BY <2>1, ThreadsInCallStep, RequestsAreAskedStep, FlowsAreAnswersStep
  <2>4. BreakIsHeard' /\ NotAskedAfterBreak' /\ ResultsFit' /\ AnswerIsCombined'
    BY <2>1, BreakIsHeardStep, ResultsFitStep, AnswerIsCombinedStep
  <2>5. DecisionsAreThisTurns' /\ RecordIsThisRuns'
    BY <2>1, DecisionsAreThisTurnsStep, RecordIsThisRunsStep
  <2>6. QED
    BY <2>2, <2>3, <2>4, <2>5 DEF PanelInv
<1>3. QED
  BY <1>1, <1>2, PTL DEF Spec

-----------------------------------------------------------------------------
(* Whatever a call meets, no judge's thread outlives it: each and           *)
(* supervise_observing await every judge before they answer or unwind.      *)
THEOREM EveryJudgeIsAwaited == Spec => []EveryJudgeAwaited
<1>1. TypeOK /\ PanelInv => EveryJudgeAwaited
  BY DEF PanelInv, ThreadsInCall, EveryJudgeAwaited
<1>2. QED
  BY <1>1, PanelInvHolds, PTL

(* No observer is asked about a candidate after it stopped the run, however *)
(* many judges were racing to ask it.                                       *)
THEOREM NobodyAsksAfterBreak == Spec => []NotAskedAfterBreak
<1>1. TypeOK /\ PanelInv => NotAskedAfterBreak
  BY DEF PanelInv
<1>2. QED
  BY <1>1, PanelInvHolds, PTL

(* A judge goes on with a candidate only when the observer saw it and let   *)
(* it through.                                                              *)
THEOREM CandidatesAreSeen == Spec => []EveryCandidateWasSeen
<1>1. TypeOK /\ PanelInv => EveryCandidateWasSeen
  <2>1. SUFFICES ASSUME TypeOK, PanelInv, NEW j \in Judges, at[j] = "running", flow[j] # "break"
                 PROVE  begun[j] = allowed[j]
    BY DEF EveryCandidateWasSeen
  <2>2. begun[j] = allowed[j] + 0 /\ allowed[j] \in Nat
    BY <2>1 DEF PanelInv, FlowsAreAnswers, TypeOK
  <2>3. QED
    BY <2>2
<1>2. QED
  BY <1>1, PanelInvHolds, PTL

(* The record of a run holds decisions of that run only, each under the     *)
(* turn it was taken on.                                                    *)
THEOREM RecordsAreOwn == Spec => []RecordIsThisRuns
<1>1. TypeOK /\ PanelInv => RecordIsThisRuns
  BY DEF PanelInv
<1>2. QED
  BY <1>1, PanelInvHolds, PTL

(* What the answer of a finished call says of the judges' results, case by  *)
(* case of the combination.                                                 *)
LEMMA CombinedSpeaksForAll ==
  ASSUME TypeOK, PanelInv, caller = "answered"
  PROVE  AnswerSpeaksForAll
<1> USE DEF FailedJudges, Withheld, TypeOK
<1>1. /\ answer = Combined(op) /\ op \in Ops /\ size \in Nat \ {0}
      /\ Selected(op) \subseteq Judges
  BY SelectedAreJudges, SizesAreNaturals DEF PanelInv, AnswerIsCombined
<1>2. \A j \in Selected(op) : result[j] \in ResultsOf(op)
  BY <1>1 DEF PanelInv, AnswerIsCombined, ResultsFit
<1>3. op \in Supervises => Selected(op) = Judges
  BY DEF Selected, Supervises
<1>4. \A j \in Selected(op) : result[j].is = "error" <=> result[j] = Failed
  BY <1>1, <1>2 DEF ResultsOf, Failed, Outcomes, Ops, Supervises
<1>5. Says(op, {"error"}) = FailedJudges
  BY <1>4 DEF Says
<1>6. CASE Selected(op) = {}
  <2>1. answer.is = "invalid" /\ FailedJudges = {}
    BY <1>1, <1>6 DEF Combined, Invalid
  <2>2. QED
    BY <2>1 DEF AnswerSpeaksForAll
<1>7. CASE Selected(op) # {} /\ ~Multi
  <2>1. Judges = {1} /\ Selected(op) = {1}
    BY <1>1, <1>7 DEF Multi, Judges
  <2>2. answer = [is |-> result[1].is, n |-> result[1].n, by |-> {1}]
    BY <1>1, <1>7, <2>1 DEF Combined, Verbatim
  <2>3. result[1] \in ResultsOf(op)
    BY <1>2, <2>1
  <2>4. FailedJudges # {} => answer.is = "error" /\ \E j \in answer.by : FailedFirst(j)
    BY <1>4, <2>1, <2>2 DEF FailedFirst
  <2>5. answer.is = "Completed" => Withheld = {}
    BY <2>1, <2>2
  <2>6. answer.is \in {"Continue", "NoInstruction", "Unparseable"} => Withheld # {}
    BY <2>1, <2>2
  <2>7. result[1].n \in Nat
    BY <2>1, ScoresAreNaturals
  <2>8. QED
    BY <1>7, <2>1, <2>2, <2>4, <2>5, <2>6, <2>7 DEF AnswerSpeaksForAll
<1>8. CASE Selected(op) # {} /\ Multi /\ FailedJudges # {}
  <2>1. answer = Error(FailedJudges)
    BY <1>1, <1>5, <1>8 DEF Combined
  <2>2. PICK j \in FailedJudges : FirstOf(FailedJudges) = {j} /\ \A k \in FailedJudges : j <= k
    BY <1>1, <1>8, FirstOfIsOne
  <2>3. answer.is = "error" /\ j \in answer.by
    BY <2>1, <2>2 DEF Error
  <2>4. QED
    BY <2>2, <2>3 DEF AnswerSpeaksForAll, FailedFirst
<1>9. CASE Selected(op) # {} /\ Multi /\ FailedJudges = {} /\ op \in Supervises
  <2>1. answer = CombinedSupervision(op) /\ Selected(op) = Judges
    BY <1>1, <1>3, <1>5, <1>9 DEF Combined
  <2>2. \A j \in Judges : result[j].is \in Outcomes
    <3>1. TAKE j \in Judges
    <3>2. result[j] \in {Failed} \cup [is : Outcomes, n : {0}]
      BY <1>2, <1>9, <2>1 DEF ResultsOf, Supervises
    <3>3. result[j] # Failed
      BY <1>9, <2>1
    <3>4. QED
      BY <3>2, <3>3
  <2>3. /\ Says(op, {"Completed"}) = {j \in Judges : result[j].is = "Completed"}
        /\ Says(op, {"Continue"}) = {j \in Judges : result[j].is = "Continue"}
        /\ Says(op, {"NoInstruction"}) = {j \in Judges : result[j].is = "NoInstruction"}
        /\ Says(op, {"Unparseable"}) = {j \in Judges : result[j].is = "Unparseable"}
    BY <2>1 DEF Says
  <2>4. Judges \ Says(op, {"Completed"}) = Withheld
    BY <2>3
  <2>5. answer.is = "Completed" => Withheld = {}
    <3>1. answer.is = "Completed" => Says(op, {"Completed"}) = Judges
      BY <2>1 DEF CombinedSupervision, Answer
    <3>2. QED
      BY <2>4, <3>1
  <2>6. answer.is # "Completed" => Withheld # {}
    <3>1. answer.is # "Completed" => Says(op, {"Completed"}) # Judges
      BY <2>1 DEF CombinedSupervision, Answer
    <3>2. QED
      BY <2>3, <3>1
  <2>7. answer.is = "Continue" => answer.by = Withheld
    BY <2>1, <2>4 DEF CombinedSupervision, Answer
  <2>8. answer.is = "Unparseable" => answer.by = Withheld
    <3>1. SUFFICES ASSUME answer.is = "Unparseable" PROVE answer.by = Withheld
      OBVIOUS
    <3>2. /\ Says(op, {"Continue"}) = {} /\ Says(op, {"NoInstruction"}) = {}
          /\ answer.by = Says(op, {"Unparseable"})
      BY <2>1, <3>1 DEF CombinedSupervision, Answer
    <3>3. \A j \in Judges : result[j].is \in {"Completed", "Unparseable"}
      <4>1. TAKE j \in Judges
      <4>2. result[j].is # "Continue" /\ result[j].is # "NoInstruction"
        BY <2>3, <3>2
      <4>3. QED
        BY <2>2, <4>2 DEF Outcomes
    <3>4. Says(op, {"Unparseable"}) = Withheld
      BY <2>3, <3>3
    <3>5. QED
      BY <3>2, <3>4
  <2>9. answer.is \in Outcomes
    BY <2>1 DEF CombinedSupervision, Answer, Outcomes
  <2>10. QED
    BY <1>9, <2>5, <2>6, <2>7, <2>8, <2>9 DEF AnswerSpeaksForAll, Outcomes
<1>10. CASE Selected(op) # {} /\ Multi /\ FailedJudges = {} /\ op = "assess"
  <2>1. answer.is = "text"
    BY <1>1, <1>5, <1>10 DEF Combined, Answer, Supervises
  <2>2. QED
    BY <1>10, <2>1 DEF AnswerSpeaksForAll
<1>11. CASE Selected(op) # {} /\ Multi /\ FailedJudges = {} /\ op \in {"judge_boolean", "judge_numeric"}
  <2>1. answer = CombinedVerdict(op)
    BY <1>1, <1>5, <1>11 DEF Combined, Supervises
  <2>2. CASE Says(op, {"mistyped"}) # {}
    <3>1. answer.is = "error"
      BY <2>1, <2>2 DEF CombinedVerdict, Error
    <3>2. QED
      BY <1>11, <3>1 DEF AnswerSpeaksForAll
  <2>3. CASE Says(op, {"mistyped"}) = {} /\ op = "judge_boolean"
    <3>1. \A j \in Selected(op) : result[j].is \in {"yes", "no"}
      BY <1>2, <1>4, <1>11, <2>3 DEF ResultsOf, Says, Supervises, Failed
    <3>2. answer.is \in {"yes", "no"} /\ (answer.is = "yes" => Says(op, {"no"}) = {})
      BY <2>1, <2>3 DEF CombinedVerdict, Answer
    <3>3. answer.is = "yes" => \A j \in Selected(op) : result[j].is = "yes"
      BY <3>1, <3>2 DEF Says
    <3>4. QED
      BY <1>11, <3>2, <3>3 DEF AnswerSpeaksForAll
  <2>4. CASE Says(op, {"mistyped"}) = {} /\ op = "judge_numeric"
    <3>1. \A j \in Selected(op) : result[j].is = "number"
      BY <1>2, <1>4, <1>11, <2>4 DEF ResultsOf, Says, Supervises, Failed
    <3>2. answer = [is |-> "number", n |-> Lowest(op), by |-> Selected(op)]
      BY <2>1, <2>4 DEF CombinedVerdict
    <3>3. /\ \E j \in Selected(op) : Lowest(op) = result[j].n
          /\ \A j \in Selected(op) : Lowest(op) <= result[j].n
      BY <1>1, <1>11, LowestIsOne
    <3>4. QED
      BY <1>11, <3>1, <3>2, <3>3 DEF AnswerSpeaksForAll
  <2>5. QED
    BY <1>11, <2>2, <2>3, <2>4
<1>12. QED
  BY <1>1, <1>6, <1>7, <1>8, <1>9, <1>10, <1>11 DEF Ops, Supervises

(* "A judge that could not run is never read as a pass": whatever the       *)
(* operation and however many judges, the combined answer speaks for all of *)
(* them (combine_supervision, judge_across, assess_across, failure).        *)
THEOREM AnswersSpeakForAll == Spec => []AnswerSpeaksForAll
<1>1. TypeOK /\ PanelInv => AnswerSpeaksForAll
  <2>1. CASE caller # "answered"
    BY <2>1 DEF AnswerSpeaksForAll
  <2>2. CASE caller = "answered"
    BY <2>2, CombinedSpeaksForAll
  <2>3. QED
    BY <2>1, <2>2
<1>2. QED
  BY <1>1, PanelInvHolds, PTL

-----------------------------------------------------------------------------
(* The record, counted in calls.                                            *)

(* The decisions of two whole numbers of calls are those of their sum.      *)
LEMMA CallsConcat ==
  ASSUME size \in Nat \ {0},
         NEW s \in Seq(DecisionRecord), NEW u \in Seq(DecisionRecord), InCalls(s), InCalls(u)
  PROVE  InCalls(s \o u)
<1>1. /\ s \o u \in Seq(DecisionRecord) /\ Len(s \o u) = Len(s) + Len(u)
      /\ \A i \in 1 .. Len(s) + Len(u) :
           (s \o u)[i] = IF i <= Len(s) THEN s[i] ELSE u[i - Len(s)]
  BY ConcatProperties
<1>2. Len(s) \in Nat /\ Len(u) \in Nat /\ DOMAIN s = 1 .. Len(s) /\ DOMAIN u = 1 .. Len(u)
      /\ DOMAIN (s \o u) = 1 .. Len(s) + Len(u)
  BY <1>1
<1>3. PICK k \in 0 .. Len(s) : Len(s) = k * size
  BY DEF InCalls
<1>4. PICK m \in 0 .. Len(u) : Len(u) = m * size
  BY DEF InCalls
<1>5. k + m \in 0 .. Len(s \o u) /\ Len(s \o u) = (k + m) * size
  <2>1. k * size + m * size = (k + m) * size
    BY <1>2
  <2>2. k + m \in 0 .. Len(s) + Len(u)
    BY <1>2
  <2>3. QED
    BY <1>1, <1>3, <1>4, <2>1, <2>2, Zenon
<1>6. ASSUME NEW d \in DOMAIN (s \o u)
      PROVE  \E q \in 0 .. Len(s \o u) : d = q * size + (s \o u)[d].judge
  <2>1. CASE d <= Len(s)
    <3>1. d \in DOMAIN s /\ (s \o u)[d] = s[d]
      BY <1>1, <1>2, <1>6, <2>1
    <3>2. PICK q \in 0 .. Len(s) : d = q * size + s[d].judge
      BY <3>1 DEF InCalls
    <3>3. q \in 0 .. Len(s \o u)
      BY <1>1, <1>2
    <3>4. QED
      BY <3>1, <3>2, <3>3
  <2>2. CASE ~(d <= Len(s))
    <3>1. d - Len(s) \in DOMAIN u /\ (s \o u)[d] = u[d - Len(s)] /\ d \in Int
      BY <1>1, <1>2, <1>6, <2>2
    <3>2. PICK q \in 0 .. Len(u) : d - Len(s) = q * size + u[d - Len(s)].judge
      BY <3>1 DEF InCalls
    <3>3. k + q \in 0 .. Len(s \o u)
      BY <1>1, <1>2
    <3>4. u[d - Len(s)].judge \in Nat
      <4>1. u[d - Len(s)] \in DecisionRecord
        BY <3>1
      <4>2. QED
        BY <4>1 DEF DecisionRecord, Judges
    <3>5. d = k * size + q * size + u[d - Len(s)].judge
      <4> DEFINE j == u[d - Len(s)].judge
                 p == q * size
                 c == k * size
      <4>1. p \in Int /\ c \in Int /\ Len(s) = c /\ d - Len(s) = p + j /\ d \in Int /\ j \in Nat
        BY <1>3, <3>1, <3>2, <3>4
      <4> HIDE DEF j, p, c
      <4>2. d = c + p + j
        BY <1>2, <4>1
      <4>3. QED
        BY <4>2 DEF j, p, c
    <3>6. k * size + q * size = (k + q) * size
      BY <1>2
    <3>7. QED
      BY <3>1, <3>3, <3>5, <3>6
  <2>3. QED
    BY <2>1, <2>2
<1>7. QED
  BY <1>5, <1>6 DEF InCalls

LEMMA OneCallInCalls == TypeOK => DecisionsOf \in Seq(DecisionRecord) /\ InCalls(DecisionsOf)
<1>1. SUFFICES ASSUME TypeOK PROVE DecisionsOf \in Seq(DecisionRecord) /\ InCalls(DecisionsOf)
  OBVIOUS
<1>2. DecisionsOf \in Seq(DecisionRecord)
  BY <1>1, DecisionsOfType DEF TypeOK, ResultType
<1>3. size \in Nat \ {0} /\ DOMAIN DecisionsOf = 1 .. size
  BY <1>1, SizesAreNaturals DEF TypeOK, DecisionsOf, Judges
<1>4. Len(DecisionsOf) = size
  BY <1>2, <1>3
<1>5. \A d \in 1 .. size : DecisionsOf[d].judge = d
  BY DEF DecisionsOf, Judges
<1>6. /\ 1 \in 0 .. Len(DecisionsOf) /\ size = 1 * size
      /\ 0 \in 0 .. Len(DecisionsOf) /\ \A d \in 1 .. size : d = 0 * size + d
  BY <1>3, <1>4
<1>7. QED
  BY <1>2, <1>3, <1>4, <1>5, <1>6 DEF InCalls

LEMMA SameCalls ==
  ASSUME size' = size, NEW s PROVE InCalls(s)' = InCalls(s)
BY DEF InCalls

(* Steps that leave the record alone, and the turn where it is or later.    *)
LEMMA RecordStays ==
  ASSUME TypeOK, RecordedInCalls, UNCHANGED <<size, record>>, turn' \in Nat, turn <= turn', InCalls(decisions)'
  PROVE  RecordedInCalls'
<1>1. \A i \in DOMAIN record : record[i].turn \in Nat /\ turn \in Nat
  <2>1. record \in Seq(EntryType) /\ turn \in Nat
    BY DEF TypeOK, EntryType
  <2>2. \A i \in DOMAIN record : record[i] \in EntryType
    BY <2>1
  <2>3. QED
    BY <2>1, <2>2 DEF EntryType
<1>2. \A i \in DOMAIN record : record[i].turn <= turn'
  BY <1>1 DEF RecordedInCalls
<1>3. \A i \in DOMAIN record : InCalls(record[i].decisions)'
  BY DEF RecordedInCalls, InCalls
<1>4. QED
  BY <1>2, <1>3 DEF RecordedInCalls

(* Draining onto the record: into the turn's entry, or a later one.         *)
LEMMA RecordedUnderInCalls ==
  ASSUME TypeOK, RecordedInCalls, NEW entries, entries = RecordedUnder(record, decisions)
  PROVE  \A i \in DOMAIN entries :
           /\ entries[i].decisions # <<>> /\ InCalls(entries[i].decisions) /\ entries[i].turn <= turn
           /\ \A k \in DOMAIN entries : i < k => entries[i].turn < entries[k].turn
<1>1. /\ decisions \in Seq(DecisionRecord) /\ record \in Seq(EntryType) /\ turn \in Nat
      /\ size \in Nat \ {0}
  BY SizesAreNaturals DEF TypeOK, EntryType
<1>2. CASE decisions = <<>>
  BY <1>2 DEF RecordedUnder, RecordedInCalls
<1>3. CASE decisions # <<>> /\ record # <<>> /\ record[Len(record)].turn = turn
  <2> DEFINE last == record[Len(record)]
             joined == [last EXCEPT !.decisions = last.decisions \o decisions]
  <2>1. entries = [record EXCEPT ![Len(record)] = joined]
    BY <1>3 DEF RecordedUnder
  <2>2. Len(record) \in DOMAIN record /\ last \in EntryType
    BY <1>1, <1>3
  <2>3. joined.turn = turn /\ joined.decisions = last.decisions \o decisions
    BY <1>3, <2>2 DEF EntryType
  <2>4. last.decisions \in Seq(DecisionRecord)
    BY <2>2 DEF EntryType
  <2>5. InCalls(last.decisions \o decisions)
    BY <1>1, <2>2, <2>4, CallsConcat DEF RecordedInCalls
  <2>6. last.decisions \o decisions # <<>>
    BY <1>1, <1>3, <2>4
  <2> HIDE DEF joined
  <2>7. \A i \in DOMAIN record : entries[i].turn = record[i].turn
    BY <1>3, <2>1, <2>3
  <2>8. DOMAIN entries = DOMAIN record
    BY <2>1
  <2>9. \A i \in DOMAIN record : i # Len(record) => entries[i] = record[i]
    BY <2>1
  <2>10. entries[Len(record)] = joined
    BY <2>1, <2>2
  <2> HIDE DEF last
  <2>11. \A i \in DOMAIN record : entries[i].decisions # <<>> /\ InCalls(entries[i].decisions)
    BY <2>3, <2>5, <2>6, <2>9, <2>10 DEF RecordedInCalls
  <2>12. QED
    BY <2>7, <2>8, <2>11 DEF RecordedInCalls
<1>4. CASE decisions # <<>> /\ ~(record # <<>> /\ record[Len(record)].turn = turn)
  <2> DEFINE entry == [turn |-> turn, decisions |-> decisions]
  <2>1. entries = Append(record, entry)
    BY <1>4 DEF RecordedUnder
  <2>2. entry \in EntryType
    BY <1>1 DEF EntryType
  <2>3. entry.turn = turn /\ entry.decisions = decisions
    OBVIOUS
  <2> HIDE DEF entry
  <2>4. /\ Len(record) \in Nat /\ DOMAIN record = 1 .. Len(record)
        /\ DOMAIN Append(record, entry) = 1 .. Len(record) + 1
        /\ \A k \in 1 .. Len(record) : Append(record, entry)[k] = record[k]
        /\ Append(record, entry)[Len(record) + 1] = entry
    BY <1>1, <2>2, AppendProperties
  <2>5. \A i \in DOMAIN record : record[i].turn < turn
    <3>1. TAKE i \in DOMAIN record
    <3>2. Len(record) \in DOMAIN record /\ record # <<>>
      BY <1>1, <2>4
    <3>3. record[i] \in EntryType /\ record[Len(record)] \in EntryType
      BY <1>1, <3>2
    <3>4. record[i].turn \in Nat /\ record[Len(record)].turn \in Nat
      BY <3>3 DEF EntryType
    <3>5. record[Len(record)].turn <= turn /\ record[Len(record)].turn # turn
      BY <1>4, <3>2 DEF RecordedInCalls
    <3>6. i = Len(record) \/ i < Len(record)
      BY <2>4
    <3>7. i < Len(record) => record[i].turn < record[Len(record)].turn
      BY <3>2 DEF RecordedInCalls
    <3>8. QED
      BY <1>1, <3>4, <3>5, <3>6, <3>7
  <2>6. \A i \in 1 .. Len(record) + 1 : i \in 1 .. Len(record) \/ i = Len(record) + 1
    BY <2>4, LastOrEarlier
  <2>7. TAKE i \in DOMAIN entries
  <2>8. CASE i \in 1 .. Len(record)
    <3>1. entries[i] = record[i] /\ i \in DOMAIN record
      BY <2>1, <2>4, <2>8
    <3>2. \A k \in DOMAIN entries : i < k => entries[i].turn < entries[k].turn
      BY <2>1, <2>3, <2>4, <2>5, <2>6, <3>1 DEF RecordedInCalls
    <3>3. QED
      BY <3>1, <3>2 DEF RecordedInCalls
  <2>9. CASE i = Len(record) + 1
    <3>1. entries[i].turn = turn /\ entries[i].decisions = decisions
      BY <2>1, <2>3, <2>4, <2>9
    <3>2. \A k \in DOMAIN entries : ~(i < k)
      BY <2>1, <2>4, <2>9
    <3>3. QED
      BY <1>1, <1>4, <3>1, <3>2 DEF RecordedInCalls
  <2>10. QED
    BY <2>1, <2>4, <2>6, <2>8, <2>9
<1>5. QED
  BY <1>2, <1>3, <1>4

LEMMA RecordedInCallsStep ==
  ASSUME TypeOK, RecordedInCalls, [Next]_vars
  PROVE  RecordedInCalls'
<1> USE DEF threads, engine, history
<1>1. size \in Nat \ {0} /\ turn \in Nat /\ decisions \in Seq(DecisionRecord)
  BY SizesAreNaturals DEF TypeOK
<1>2. InCalls(<<>>)
  <2>1. Len(<<>>) = 0 /\ DOMAIN <<>> = {} /\ 0 = 0 * size /\ 0 \in 0 .. 0
    BY <1>1
  <2>2. QED
    BY <2>1 DEF InCalls
<1>3. CASE Drain
  <2>1. /\ record' = RecordedUnder(record, decisions) /\ size' = size /\ decisions' = <<>>
        /\ turn' \in {turn, turn + 1}
    BY <1>3 DEF Drain
  <2>2. InCalls(decisions)'
    BY <1>2, <2>1 DEF InCalls
  <2>3. \A i \in DOMAIN record' :
          /\ record'[i].decisions # <<>> /\ InCalls(record'[i].decisions) /\ record'[i].turn <= turn
          /\ \A k \in DOMAIN record' : i < k => record'[i].turn < record'[k].turn
    BY <2>1, RecordedUnderInCalls
  <2>4. \A i \in DOMAIN record' : record'[i].turn \in Nat
    <3>1. record' \in Seq(EntryType)
      BY <2>1, RecordedUnderType DEF TypeOK, EntryType
    <3>2. \A i \in DOMAIN record' : record'[i] \in EntryType
      BY <3>1
    <3>3. QED
      BY <3>2 DEF EntryType
  <2>5. \A i \in DOMAIN record' : record'[i].turn <= turn'
    BY <1>1, <2>1, <2>3, <2>4
  <2>6. \A i \in DOMAIN record' : InCalls(record[i].decisions)'
    BY <2>1, <2>3 DEF InCalls
  <2>7. QED
    BY <2>2, <2>3, <2>5, <2>6 DEF RecordedInCalls
<1>4. CASE NewRun
  <2>1. record' = <<>> /\ decisions' = <<>> /\ size' = size
    BY <1>4 DEF NewRun, Reset
  <2>2. InCalls(decisions)' /\ DOMAIN record' = {}
    BY <1>2, <2>1 DEF InCalls
  <2>3. QED
    BY <2>2 DEF RecordedInCalls
<1>5. CASE Join
  <2>1. UNCHANGED <<size, record, turn>>
    BY <1>5 DEF Join
  <2>2. decisions' = decisions \/ decisions' = decisions \o DecisionsOf
    BY <1>5 DEF Join
  <2>3. InCalls(decisions')
    BY <1>1, <2>2, CallsConcat, OneCallInCalls DEF RecordedInCalls
  <2>4. InCalls(decisions)'
    BY <2>1, <2>3 DEF InCalls
  <2>5. QED
    BY <1>1, <2>1, <2>4, RecordStays
<1>6. ASSUME UNCHANGED <<size, decisions, record, turn>> PROVE RecordedInCalls'
  <2>1. InCalls(decisions)'
    BY <1>6 DEF RecordedInCalls, InCalls
  <2>2. QED
    BY <1>1, <1>6, <2>1, RecordStays
<1>7. ASSUME NEW o \in Ops, Call(o) PROVE RecordedInCalls'
  BY <1>6, <1>7 DEF Call
<1>8. ASSUME NEW j \in Judges, JudgeAsks(j) \/ JudgeReturns(j) \/ JudgePanicked(j)
      PROVE  RecordedInCalls'
  BY <1>6, <1>8 DEF JudgeAsks, JudgeReturns, JudgePanicked
<1>9. CASE ReceiveRequest \/ ReceiveEnds \/ ObserverPanicked \/ StopUndrained \/ Scored \/ Rest
           \/ UNCHANGED vars
  BY <1>6, <1>9
     DEF ReceiveRequest, ReceiveEnds, ObserverPanicked, StopUndrained, Scored, Rest, vars
<1>10. QED
  BY <1>3, <1>4, <1>5, <1>7, <1>8, <1>9 DEF Next, PanelStep, EngineStep

LEMMA RecordedInCallsInit == Init => RecordedInCalls
<1>1. SUFFICES ASSUME Init PROVE RecordedInCalls
  OBVIOUS
<1>2. size \in Nat \ {0} /\ record = <<>> /\ decisions = <<>>
  BY <1>1, SizesAreNaturals DEF Init
<1>3. Len(<<>>) = 0 /\ DOMAIN <<>> = {} /\ 0 = 0 * size /\ 0 \in 0 .. 0
  BY <1>2
<1>4. QED
  BY <1>2, <1>3 DEF RecordedInCalls, InCalls

(* A number of whole calls leaves no remainder.                             *)
LEMMA WholeCalls ==
  ASSUME NEW n \in Nat \ {0}, NEW k \in Nat
  PROVE  (k * n) % n = 0
OBVIOUS

(* "One per supervisor turn": however often a decision is taken again, the  *)
(* record has one entry for its turn, with every judge's decision in list   *)
(* order for every attempt (record_judge_decisions, take_judge_decisions).  *)
THEOREM TurnsHaveOneEntry == Spec => []OneEntryPerTurn
<1>1. TypeOK /\ RecordedInCalls => OneEntryPerTurn
  <2>1. SUFFICES ASSUME TypeOK, RecordedInCalls PROVE OneEntryPerTurn
    OBVIOUS
  <2>2. record \in Seq(EntryType) /\ size \in Nat \ {0}
    BY <2>1, SizesAreNaturals DEF TypeOK, EntryType
  <2>3. ASSUME NEW i \in DOMAIN record
        PROVE  LET entry == record[i].decisions
               IN  /\ Len(entry) > 0 /\ Len(entry) % size = 0
                   /\ \A d \in DOMAIN entry : entry[d].judge = 1 + ((d - 1) % size)
    <3> DEFINE entry == record[i].decisions
    <3>1. entry \in Seq(DecisionRecord) /\ entry # <<>> /\ InCalls(entry)
      <4>1. record[i] \in EntryType
        BY <2>2, <2>3
      <4>2. QED
        BY <2>1, <2>3, <4>1 DEF EntryType, RecordedInCalls
    <3> HIDE DEF entry
    <3>2. Len(entry) > 0 /\ Len(entry) \in Nat
      BY <3>1
    <3>3. Len(entry) % size = 0
      <4>1. PICK k \in 0 .. Len(entry) : Len(entry) = k * size
        BY <3>1 DEF InCalls
      <4>2. k \in Nat
        BY <3>2
      <4>3. QED
        BY <2>2, <4>1, <4>2, WholeCalls
    <3>4. ASSUME NEW d \in DOMAIN entry PROVE entry[d].judge = 1 + ((d - 1) % size)
      <4>1. PICK q \in 0 .. Len(entry) : d = q * size + entry[d].judge
        BY <3>1, <3>4 DEF InCalls
      <4>2. entry[d] \in DecisionRecord /\ q \in Nat
        BY <3>1, <3>2, <3>4
      <4>3. entry[d].judge \in 1 .. size
        BY <4>2 DEF DecisionRecord, Judges
      <4> DEFINE j == entry[d].judge
      <4>4. j \in 1 .. size /\ d = q * size + j
        BY <4>1, <4>3
      <4> HIDE DEF j
      <4>5. j = 1 + ((d - 1) % size)
        <5> DEFINE r == j - 1
        <5>1. r \in 0 .. size - 1 /\ j = r + 1
          BY <2>2, <4>4
        <5> HIDE DEF r
        <5>2. (q * size + r) % size = r
          BY <2>2, <4>2, <5>1
        <5>3. d - 1 = q * size + r
          BY <2>2, <4>2, <4>4, <5>1
        <5>4. QED
          BY <5>1, <5>2, <5>3
      <4>6. QED
        BY <4>5 DEF j
    <3>5. QED
      BY <3>2, <3>3, <3>4 DEF entry
  <2>4. QED
    BY <2>1, <2>3 DEF OneEntryPerTurn, RecordedInCalls
<1>2. Spec => []RecordedInCalls
  BY RecordedInCallsInit, RecordedInCallsStep, PanelTypeCorrect, PTL DEF Spec
<1>3. QED
  BY <1>1, <1>2, PanelTypeCorrect, PTL
=============================================================================
