---------------------------- MODULE RunStreamProofs ---------------------------
(***************************************************************************)
(* Proofs about RunStream, for any number of runs and watchers starting    *)
(* and leaving in any order, and any bounds.                               *)
(***************************************************************************)
EXTENDS RunStreamProperties, Integers, SequenceTheorems, TLAPS

LEMMA RecordIsRecord ==
  ASSUME TypeOK, NEW r \in Runs, NEW ends \in BOOLEAN, NEW c \in ExitCodes \cup {Unset}
  PROVE  Record(r, ends, c) \in Records
  <1>1. emitted[r] \in Seq(Records)
    BY DEF TypeOK
  <1>2. Len(emitted[r]) + 1 \in Nat \ {0}
    BY <1>1
  <1> QED
    BY <1>2 DEF Record, Records

(* Publishing keeps every log and every publisher in its type.              *)
LEMMA PublishTypes ==
  ASSUME TypeOK, NEW r \in Runs, NEW record \in Records, Publish(r, record)
  PROVE  /\ log' \in [Runs -> Seq(Records)]
         /\ emitted' \in [Runs -> Seq(Records)]
         /\ publisher' \in [Runs -> Publishers]
  <1>1. log[r] \in Seq(Records) /\ emitted[r] \in Seq(Records)
    BY DEF TypeOK
  <1>2. Append(log[r], record) \in Seq(Records) /\ Append(emitted[r], record) \in Seq(Records)
    BY <1>1
  <1>3. emitted' \in [Runs -> Seq(Records)]
    BY <1>2 DEF Publish, TypeOK
  <1>4. log' \in [Runs -> Seq(Records)]
    BY <1>2 DEF Publish, TypeOK
  <1>5. publisher' \in [Runs -> Publishers]
    BY DEF Publish, TypeOK, Publishers
  <1> QED
    BY <1>3, <1>4, <1>5

(* A watcher that left off waiting is on a run, and keeps its own types.    *)
Reader ==
  [at : {"reading", "checking", "pausing", "told", "newer", "failed"}, on : Runs,
   position : Nat, seen : Seq(Records), code : ExitCodes \cup {Unset}]

LEMMA ReaderTypes ==
  ASSUME TypeOK, NEW w \in Watchers, watcher[w].at # "waiting"
  PROVE  watcher[w] \in Reader
  BY DEF TypeOK, WatcherStates, Idle, Reader

LEMMA ReaderSteps ==
  ASSUME TypeOK, NEW w \in Watchers, NEW s \in Reader, Becomes(w, s)
  PROVE  watcher' \in [Watchers -> WatcherStates]
  BY DEF TypeOK, WatcherStates, Reader, Becomes

LEMMA LeaveTypes ==
  ASSUME TypeOK, NEW w \in Watchers, watcher[w].at # "waiting",
         NEW how \in {"reading", "checking", "pausing", "told", "newer", "failed"}, Leaves(w, how)
  PROVE  watcher' \in [Watchers -> WatcherStates]
  <1>1. watcher[w] \in Reader
    BY ReaderTypes
  <1>2. [watcher[w] EXCEPT !.at = how] \in Reader
    BY <1>1 DEF Reader
  <1> QED
    BY <1>2, ReaderSteps DEF Leaves

LEMMA BatchTypes ==
  ASSUME TypeOK, NEW w \in Watchers, watcher[w].at = "reading"
  PROVE  Batch(w) \in Seq(Records)
  <1>1. watcher[w].on \in Runs /\ watcher[w].position \in Nat
    BY ReaderTypes DEF Reader
  <1>2. log[watcher[w].on] \in Seq(Records)
    BY <1>1 DEF TypeOK
  <1>3. READ_BATCH \in Nat
    BY StreamAssumption DEF StreamAssumption
  <1> DEFINE all == log[watcher[w].on]
             from == watcher[w].position
             to == IF Len(all) < from + READ_BATCH THEN Len(all) ELSE from + READ_BATCH
  <1>4. to \in Int /\ from + 1 >= 1 /\ to <= Len(all)
    BY <1>1, <1>2, <1>3
  <1>5. \A i \in from + 1 .. to : all[i] \in Records
    BY <1>1, <1>2, <1>4
  <1>6. SubSeq(all, from + 1, to) \in Seq(Records)
    BY <1>1, <1>2, <1>4, <1>5
  <1> QED
    BY <1>6 DEF Batch, Followed

(* What a read makes of its watcher.                                        *)
LEMMA ReadKeepsOn ==
  ASSUME TypeOK, NEW w \in Watchers, ReadRecords(w)
  PROVE  \E s \in Reader : Becomes(w, s) /\ s.on = watcher[w].on /\ s.at \in {"reading", "told"}
  <1> DEFINE batch == Batch(w)
             read(k) == [watcher[w] EXCEPT
               !.position = @ + k, !.seen = @ \o SubSeq(batch, 1, k), !.code = batch[k].code,
               !.at = IF batch[k].ends THEN "told" ELSE "reading"]
  <1>1. batch \in Seq(Records)
    BY BatchTypes DEF ReadRecords
  <1>2. watcher[w] \in Reader
    BY ReaderTypes DEF ReadRecords
  <1>3. PICK k \in DOMAIN batch : Becomes(w, read(k))
    BY DEF ReadRecords
  <1>4. k \in Nat /\ SubSeq(batch, 1, k) \in Seq(Records) /\ batch[k] \in Records
    BY <1>1
  <1>5. watcher[w].position + k \in Nat /\ watcher[w].seen \o SubSeq(batch, 1, k) \in Seq(Records)
        /\ batch[k].code \in ExitCodes \cup {Unset}
    BY <1>2, <1>4 DEF Reader, Records
  <1>6. read(k) \in Reader /\ read(k).on = watcher[w].on /\ read(k).at \in {"reading", "told"}
    <2> HIDE DEF batch
    <2> QED
      BY <1>2, <1>5 DEF Reader
  <1> QED
    BY <1>3, <1>6

-----------------------------------------------------------------------------
(* Every variable keeps to its values.                                      *)

LEMMA TypeInit == Init => TypeOK
  BY StreamAssumption DEF Init, TypeOK, PCs, Publishers, WatcherStates, Idle, ExitCodes, StreamAssumption

LEMMA TypeStep == TypeOK /\ [Next]_vars => TypeOK'
  <1> SUFFICES ASSUME TypeOK, [Next]_vars PROVE TypeOK'
    OBVIOUS
  <1> USE DEF files, run, history
  <1>1. ASSUME NEW r \in Runs, OpenStream(r) PROVE TypeOK'
    BY <1>1 DEF OpenStream, GoTo, TypeOK, PCs
  <1>2. ASSUME NEW r \in Runs, ReadPrevious(r) PROVE TypeOK'
    <2>1. previous' \in [Runs -> Runs \cup {NoRun}]
      BY <1>2 DEF ReadPrevious, TypeOK
    <2>2. pc' \in [Runs -> PCs]
      BY <1>2 DEF ReadPrevious, GoTo, TypeOK, PCs
    <2>3. QED
      BY <1>2, <2>1, <2>2 DEF ReadPrevious, TypeOK
  <1>3. ASSUME NEW r \in Runs, ReplaceDocument(r) PROVE TypeOK'
    BY <1>3 DEF ReplaceDocument, GoTo, TypeOK, PCs
  <1>4. ASSUME NEW r \in Runs, RemovePrevious(r) PROVE TypeOK'
    <2>1. <<>> \in Seq(Records)
      OBVIOUS
    <2>2. log' \in [Runs -> Seq(Records)] /\ removed' \subseteq Runs
      BY <1>4, <2>1 DEF RemovePrevious, TypeOK
    <2>3. /\ pc' \in [Runs -> PCs] /\ publisher' \in [Runs -> Publishers]
          /\ previous' \in [Runs -> Runs \cup {NoRun}]
      BY <1>4 DEF RemovePrevious, GoTo, TypeOK, PCs, Publishers
    <2> QED
      BY <1>4, <2>2, <2>3 DEF RemovePrevious, TypeOK
  <1>5. ASSUME NEW r \in Runs, Observe(r) PROVE TypeOK'
    <2>1. Record(r, FALSE, Unset) \in Records
      BY RecordIsRecord
    <2>2. Publish(r, Record(r, FALSE, Unset))
      BY <1>5 DEF Observe
    <2>3. /\ log' \in [Runs -> Seq(Records)] /\ emitted' \in [Runs -> Seq(Records)]
          /\ publisher' \in [Runs -> Publishers]
      BY <2>1, <2>2, PublishTypes
    <2> QED
      BY <1>5, <2>3 DEF Observe, TypeOK
  <1>6. ASSUME NEW r \in Runs, Execute(r) PROVE TypeOK'
    <2>1. PICK c \in Summaries : code' = [code EXCEPT ![r] = c]
      BY <1>6 DEF Execute
    <2>2. c \in ExitCodes
      BY StreamAssumption DEF StreamAssumption, ExitCodes
    <2>3. code' \in [Runs -> ExitCodes \cup {Unset}]
      BY <2>1, <2>2 DEF TypeOK
    <2>4. pc' \in [Runs -> PCs]
      BY <1>6 DEF Execute, GoTo, TypeOK, PCs
    <2>5. UNCHANGED <<files, format, previous, publisher, broken, exit, watcher, history>>
      BY <1>6 DEF Execute
    <2> QED
      BY <2>3, <2>4, <2>5 DEF TypeOK
  <1>7. ASSUME NEW r \in Runs, PublishEnd(r) PROVE TypeOK'
    <2>1. Record(r, TRUE, code[r]) \in Records
      BY RecordIsRecord DEF TypeOK
    <2>2. /\ log' \in [Runs -> Seq(Records)] /\ emitted' \in [Runs -> Seq(Records)]
          /\ publisher' \in [Runs -> Publishers]
      <3>1. CASE Unpublished(r)
        BY <1>7, <3>1 DEF PublishEnd, TypeOK
      <3>2. CASE ~Unpublished(r)
        <4>1. Publish(r, Record(r, TRUE, code[r]))
          BY <1>7, <3>2 DEF PublishEnd
        <4> QED
          BY <2>1, <4>1, PublishTypes
      <3> QED
        BY <3>1, <3>2
    <2> QED
      BY <1>7, <2>2 DEF PublishEnd, GoTo, TypeOK, PCs
  <1>8. ASSUME NEW r \in Runs, Exit(r) PROVE TypeOK'
    BY <1>8 DEF Exit, GoTo, TypeOK, PCs
  <1>9. ASSUME NEW w \in Watchers, FindRun(w) PROVE TypeOK'
    <2>1. [Idle EXCEPT !.at = "reading", !.on = current] \in Reader
      <3>1. <<>> \in Seq(Records) /\ current \in Runs
        BY <1>9 DEF FindRun, TypeOK
      <3> QED
        BY <3>1 DEF Idle, Reader
    <2>2. watcher' \in [Watchers -> WatcherStates]
      BY <1>9, <2>1, ReaderSteps DEF FindRun
    <2> QED
      BY <1>9, <2>2 DEF FindRun, TypeOK
  <1>10. ASSUME NEW w \in Watchers, ReadRecords(w) PROVE TypeOK'
    BY <1>10, ReadKeepsOn, ReaderSteps DEF ReadRecords, TypeOK
  <1>11. ASSUME NEW w \in Watchers, ReadNothing(w) PROVE TypeOK'
    BY <1>11, LeaveTypes DEF ReadNothing, TypeOK
  <1>12. ASSUME NEW w \in Watchers, ReadFails(w) PROVE TypeOK'
    BY <1>12, LeaveTypes DEF ReadFails, TypeOK
  <1>13. ASSUME NEW w \in Watchers, CheckReplaced(w) PROVE TypeOK'
    BY <1>13, LeaveTypes DEF CheckReplaced, TypeOK
  <1>14. ASSUME NEW w \in Watchers, Pause(w) PROVE TypeOK'
    BY <1>14, LeaveTypes DEF Pause, TypeOK
  <1>15. CASE UNCHANGED vars
    BY <1>15 DEF vars, TypeOK
  <1> QED
    BY <1>1, <1>2, <1>3, <1>4, <1>5, <1>6, <1>7, <1>8, <1>9, <1>10, <1>11, <1>12, <1>13, <1>14,
       <1>15 DEF Next, RunStep, WatcherStep, Rest

(* Every variable of the processes and of the directory keeps to its        *)
(* values, for any runs, watchers and bounds.                               *)
THEOREM StreamTypeCorrect == Spec => []TypeOK
  BY TypeInit, TypeStep, PTL DEF Spec

-----------------------------------------------------------------------------
(* The document, and the runs it does not name yet.                         *)

(* A run that wrote itself to the document, or gave up, never starts again. *)
LEMMA UnnamedShrinks ==
  ASSUME TypeOK, [Next]_vars
  PROVE  Unnamed' \subseteq Unnamed
  <1> USE DEF files, run, history
  <1>1. CASE UNCHANGED vars
    BY <1>1 DEF vars, Unnamed
  <1>2. ASSUME NEW r \in Runs, RunStep(r) PROVE Unnamed' \subseteq Unnamed
    BY <1>2 DEF RunStep, OpenStream, ReadPrevious, ReplaceDocument, RemovePrevious, Observe, Execute,
       PublishEnd, Exit, GoTo, Unnamed, TypeOK, PCs
  <1>3. ASSUME NEW w \in Watchers, WatcherStep(w) PROVE Unnamed' \subseteq Unnamed
    BY <1>3 DEF WatcherStep, FindRun, ReadRecords, ReadNothing, ReadFails, CheckReplaced, Pause, Unnamed
  <1> QED
    BY <1>1, <1>2, <1>3 DEF Next, Rest

LEMMA DocumentInit == Init => DocumentInv
  BY StreamAssumption DEF Init, DocumentInv, OnlyNamedAreKnown, SupersededIsPast, CurrentLogStands,
     LeavesOnlyReplaced, Unnamed, Idle, StreamAssumption

(* Steps that leave the document, the logs that are gone and every earlier  *)
(* run alone, and bring no run back to its start.                           *)
DocumentUntouched == UNCHANGED <<current, removed, previous>>

LEMMA RunsKeepDocument ==
  ASSUME TypeOK, DocumentInv, [Next]_vars, DocumentUntouched, UNCHANGED watcher,
         \A r \in Runs : pc'[r] = "remove" => pc[r] = "remove"
  PROVE  DocumentInv'
  BY UnnamedShrinks DEF DocumentUntouched, DocumentInv, OnlyNamedAreKnown, SupersededIsPast,
     CurrentLogStands, LeavesOnlyReplaced

LEMMA WatchersKeepDocument ==
  ASSUME TypeOK, DocumentInv, DocumentUntouched, UNCHANGED pc, NEW w \in Watchers, NEW s, Becomes(w, s),
         s.on \in {watcher[w].on, current}, s.at \in {"newer", "failed"} => s.on # current
  PROVE  DocumentInv'
  <1>1. Unnamed' = Unnamed
    BY DEF Unnamed
  <1>2. \A v \in Watchers : watcher'[v] = IF v = w THEN s ELSE watcher[v]
    BY DEF Becomes, TypeOK
  <1> QED
    BY <1>1, <1>2 DEF DocumentUntouched, DocumentInv, OnlyNamedAreKnown, SupersededIsPast,
       CurrentLogStands, LeavesOnlyReplaced

LEMMA DocumentStep == TypeOK /\ DocumentInv /\ [Next]_vars => DocumentInv'
  <1> SUFFICES ASSUME TypeOK, DocumentInv, [Next]_vars PROVE DocumentInv'
    OBVIOUS
  <1> USE DEF files, run, history
  <1>0. Unnamed' \subseteq Unnamed
    BY UnnamedShrinks
  <1>1. ASSUME NEW r \in Runs, OpenStream(r) PROVE DocumentInv'
    BY <1>1, RunsKeepDocument DEF OpenStream, GoTo, DocumentUntouched, TypeOK
  <1>2. ASSUME NEW r \in Runs, ReadPrevious(r) PROVE DocumentInv'
    <2>1. \A q \in Runs : previous'[q] \in {previous[q], current}
      BY <1>2 DEF ReadPrevious, TypeOK
    <2>2. OnlyNamedAreKnown'
      BY <1>0, <1>2, <2>1 DEF ReadPrevious, DocumentInv, OnlyNamedAreKnown
    <2>3. SupersededIsPast'
      BY <1>2 DEF ReadPrevious, GoTo, DocumentInv, SupersededIsPast, TypeOK
    <2> QED
      BY <1>2, <2>2, <2>3 DEF ReadPrevious, DocumentInv, CurrentLogStands, LeavesOnlyReplaced
  <1>3. ASSUME NEW r \in Runs, ReplaceDocument(r), current' = r, GoTo(r, "remove") PROVE DocumentInv'
    <2>1. r \in Unnamed /\ r \notin Unnamed'
      BY <1>3 DEF ReplaceDocument, GoTo, Unnamed, TypeOK
    <2>2. UNCHANGED <<removed, previous, watcher>>
      BY <1>3 DEF ReplaceDocument
    <2>3. OnlyNamedAreKnown'
      BY <1>0, <1>3, <2>1, <2>2 DEF DocumentInv, OnlyNamedAreKnown
    <2>4. SupersededIsPast'
      BY <1>3, <2>1, <2>2 DEF DocumentInv, OnlyNamedAreKnown, SupersededIsPast
    <2>5. CurrentLogStands' /\ LeavesOnlyReplaced'
      BY <1>3, <2>1, <2>2 DEF DocumentInv, OnlyNamedAreKnown, CurrentLogStands, LeavesOnlyReplaced
    <2> QED
      BY <2>3, <2>4, <2>5 DEF DocumentInv
  <1>4. ASSUME NEW r \in Runs, ReplaceDocument(r), ~(current' = r /\ GoTo(r, "remove"))
        PROVE DocumentInv'
    BY <1>4, RunsKeepDocument DEF ReplaceDocument, GoTo, DocumentUntouched, TypeOK
  <1>5. ASSUME NEW r \in Runs, RemovePrevious(r) PROVE DocumentInv'
    <2>1. removed' \subseteq removed \cup {previous[r]} /\ previous[r] # current
      BY <1>5 DEF RemovePrevious, Superseded, DocumentInv, SupersededIsPast
    <2>2. \A q \in Runs : previous'[q] = IF q = r THEN NoRun ELSE previous[q]
      BY <1>5 DEF RemovePrevious, TypeOK
    <2>3. NoRun \notin Unnamed'
      BY StreamAssumption DEF Unnamed, StreamAssumption
    <2>4. UNCHANGED <<current, watcher>>
      BY <1>5 DEF RemovePrevious
    <2>5. OnlyNamedAreKnown'
      BY <1>0, <2>1, <2>2, <2>3, <2>4 DEF DocumentInv, OnlyNamedAreKnown
    <2>6. SupersededIsPast'
      BY <1>5, <2>2, <2>4 DEF RemovePrevious, GoTo, DocumentInv, SupersededIsPast, TypeOK
    <2>7. CurrentLogStands' /\ LeavesOnlyReplaced'
      BY <2>1, <2>4 DEF DocumentInv, CurrentLogStands, LeavesOnlyReplaced
    <2> QED
      BY <2>5, <2>6, <2>7 DEF DocumentInv
  <1>6. ASSUME NEW r \in Runs, Observe(r) PROVE DocumentInv'
    BY <1>6, RunsKeepDocument DEF Observe, DocumentUntouched
  <1>7. ASSUME NEW r \in Runs, Execute(r) PROVE DocumentInv'
    BY <1>7, RunsKeepDocument DEF Execute, GoTo, DocumentUntouched, TypeOK
  <1>8. ASSUME NEW r \in Runs, PublishEnd(r) PROVE DocumentInv'
    BY <1>8, RunsKeepDocument DEF PublishEnd, GoTo, DocumentUntouched, TypeOK
  <1>9. ASSUME NEW r \in Runs, Exit(r) PROVE DocumentInv'
    BY <1>9, RunsKeepDocument DEF Exit, GoTo, DocumentUntouched, TypeOK
  <1>10. ASSUME NEW w \in Watchers, FindRun(w) PROVE DocumentInv'
    <2>1. /\ [Idle EXCEPT !.at = "reading", !.on = current].on = current
          /\ [Idle EXCEPT !.at = "reading", !.on = current].at = "reading"
      BY DEF Idle
    <2> QED
      BY <1>10, <2>1, WatchersKeepDocument DEF FindRun, DocumentUntouched
  <1>11. ASSUME NEW w \in Watchers, ReadRecords(w) PROVE DocumentInv'
    <2>1. watcher[w] \in Reader
      BY <1>11, ReaderTypes DEF ReadRecords
    <2>2. \E s \in Reader : Becomes(w, s) /\ s.on = watcher[w].on /\ s.at \in {"reading", "told"}
      BY <1>11, ReadKeepsOn
    <2> QED
      BY <1>11, <2>2, WatchersKeepDocument DEF ReadRecords, DocumentUntouched
  <1>12. ASSUME NEW w \in Watchers, NEW how \in {"reading", "checking", "pausing", "newer", "failed"},
                watcher[w].at # "waiting", Leaves(w, how), UNCHANGED <<files, run, history>>,
                how \in {"newer", "failed"} => watcher[w].on # current
         PROVE  DocumentInv'
    <2>1. watcher[w] \in Reader
      BY <1>12, ReaderTypes
    <2>2. /\ [watcher[w] EXCEPT !.at = how].on = watcher[w].on
          /\ [watcher[w] EXCEPT !.at = how].at = how
      BY <2>1 DEF Reader
    <2> QED
      BY <1>12, <2>2, WatchersKeepDocument DEF Leaves, DocumentUntouched
  <1>13. ASSUME NEW w \in Watchers, Absent(w) PROVE watcher[w].on # current
    BY <1>13 DEF Absent, Followed, DocumentInv, CurrentLogStands
  <1>14. ASSUME NEW w \in Watchers, ReadNothing(w) PROVE DocumentInv'
    BY <1>12, <1>14 DEF ReadNothing
  <1>15. ASSUME NEW w \in Watchers, ReadFails(w) PROVE DocumentInv'
    BY <1>12, <1>13, <1>15 DEF ReadFails
  <1>16. ASSUME NEW w \in Watchers, CheckReplaced(w) PROVE DocumentInv'
    BY <1>12, <1>16 DEF CheckReplaced, Replaced, Followed
  <1>17. ASSUME NEW w \in Watchers, Pause(w) PROVE DocumentInv'
    BY <1>12, <1>13, <1>17 DEF Pause
  <1>18. CASE UNCHANGED vars
    BY <1>18, RunsKeepDocument DEF vars, DocumentUntouched
  <1> QED
    BY <1>1, <1>2, <1>3, <1>4, <1>5, <1>6, <1>7, <1>8, <1>9, <1>10, <1>11, <1>14, <1>15, <1>16,
       <1>17, <1>18 DEF Next, RunStep, WatcherStep, Rest

LEMMA DocumentHolds == Spec => []DocumentInv
  <1>1. Init => DocumentInv
    BY DocumentInit
  <1>2. TypeOK /\ DocumentInv /\ [Next]_vars => DocumentInv'
    BY DocumentStep
  <1> QED
    BY <1>1, <1>2, StreamTypeCorrect, PTL DEF Spec

(* However many runs of a session start at once, the log of the run its     *)
(* document names is never the one removed.                                 *)
THEOREM CurrentLogIsKept == Spec => []CurrentLogStands
  <1>1. DocumentInv => CurrentLogStands
    BY DEF DocumentInv
  <1> QED
    BY <1>1, DocumentHolds, PTL

(* A watcher is sent away from a run, or fails on its log, only once the    *)
(* session is on another.                                                   *)
THEOREM WatchersLeaveReplacedRuns == Spec => []LeavesOnlyReplaced
  <1>1. DocumentInv => LeavesOnlyReplaced
    BY DEF DocumentInv
  <1> QED
    BY <1>1, DocumentHolds, PTL

-----------------------------------------------------------------------------
(* What a log holds of what its run had to say.                             *)

(* The observation or the end that a run publishes, and nothing else of the *)
(* session's logs, is what a publish changes.                               *)
LEMMA PublishIsOwn ==
  ASSUME TypeOK, NEW r \in Runs, NEW record \in Records, Publish(r, record), NEW q \in Runs, q # r
  PROVE  log'[q] = log[q] /\ emitted'[q] = emitted[q] /\ publisher'[q] = publisher[q]
  BY DEF Publish, TypeOK

(* A publish leaves its own log complete, or cut off for good.              *)
LEMMA PublishKeepsLog ==
  ASSUME TypeOK, NEW r \in Runs, NEW record \in Records, Publish(r, record),
         PrefixOf(log[r], emitted[r]), publisher[r] = "open" => log[r] = emitted[r]
  PROVE  PrefixOf(log'[r], emitted'[r]) /\ (publisher'[r] = "open" => log'[r] = emitted'[r])
  <1>1. log[r] \in Seq(Records) /\ emitted[r] \in Seq(Records)
    BY DEF TypeOK
  <1>2. emitted'[r] = Append(emitted[r], record)
    BY DEF Publish, TypeOK
  <1>3. CASE publisher[r] = "open" /\ log' = [log EXCEPT ![r] = Append(@, record)]
    <2>1. log'[r] = emitted'[r]
      BY <1>2, <1>3 DEF TypeOK
    <2>2. Len(log'[r]) <= Len(emitted'[r])
      BY <1>1, <1>2, <2>1
    <2> QED
      BY <2>1, <2>2 DEF PrefixOf
  <1>4. CASE publisher'[r] # "open" /\ UNCHANGED log
    <2>1. log'[r] = log[r] /\ DOMAIN log[r] = 1 .. Len(log[r])
      BY <1>1, <1>4
    <2>2. /\ Len(log[r]) <= Len(emitted[r]) + 1
          /\ \A i \in 1 .. Len(log[r]) : Append(emitted[r], record)[i] = emitted[r][i]
      BY <1>1 DEF PrefixOf
    <2>3. Len(emitted'[r]) = Len(emitted[r]) + 1
      BY <1>1, <1>2
    <2>4. PrefixOf(log'[r], emitted'[r])
      BY <1>2, <2>1, <2>2, <2>3 DEF PrefixOf
    <2> QED
      BY <1>4, <2>4
  <1> QED
    BY <1>3, <1>4 DEF Publish, TypeOK

LEMMA LogInit == Init => LogInv
  <1> SUFFICES ASSUME Init PROVE LogInv
    OBVIOUS
  <1>1. Unopened \subseteq Runs
    BY DEF Unopened
  <1>2. \A r \in Runs : log[r] = <<>> /\ emitted[r] = <<>>
    BY DEF Init
  <1>3. NothingSaidYet /\ OpenIsComplete
    BY <1>1, <1>2 DEF NothingSaidYet, OpenIsComplete
  <1>4. PrefixOf(<<>>, <<>>)
    BY DEF PrefixOf
  <1> QED
    BY <1>2, <1>3, <1>4 DEF LogInv, StreamHasNoGaps

(* Steps that leave every log and every publisher alone.                    *)
LEMMA LogsUntouched ==
  ASSUME TypeOK, LogInv, UNCHANGED <<log, removed, publisher, emitted>>, Unopened' \subseteq Unopened
  PROVE  LogInv'
  BY DEF LogInv, NothingSaidYet, OpenIsComplete, StreamHasNoGaps, PrefixOf

(* Steps of a run past its start that publish.                              *)
LEMMA PublishKeepsLogs ==
  ASSUME TypeOK, LogInv, NEW r \in Runs, NEW record \in Records, Publish(r, record),
         r \notin Unopened, Unopened' \subseteq Unopened, UNCHANGED removed
  PROVE  LogInv'
  <1>1. NothingSaidYet'
    BY PublishIsOwn DEF LogInv, NothingSaidYet, Unopened
  <1>2. ASSUME NEW q \in Runs \ removed
        PROVE  PrefixOf(log'[q], emitted'[q]) /\ (publisher'[q] = "open" => log'[q] = emitted'[q])
    <2>1. PrefixOf(log[q], emitted[q]) /\ (publisher[q] = "open" => log[q] = emitted[q])
      BY <1>2 DEF LogInv, OpenIsComplete, StreamHasNoGaps
    <2>2. CASE q = r
      BY <2>1, <2>2, PublishKeepsLog
    <2>3. CASE q # r
      BY <2>1, <2>3, PublishIsOwn
    <2> QED
      BY <2>2, <2>3
  <1> QED
    BY <1>1, <1>2 DEF LogInv, OpenIsComplete, StreamHasNoGaps, PrefixOf

LEMMA LogStep == TypeOK /\ LogInv /\ [Next]_vars => LogInv'
  <1> SUFFICES ASSUME TypeOK, LogInv, [Next]_vars PROVE LogInv'
    OBVIOUS
  <1> USE DEF files, run, history
  <1>1. ASSUME NEW r \in Runs, OpenStream(r) \/ ReadPrevious(r) \/ ReplaceDocument(r)
        PROVE  LogInv'
    <2>1. Unopened' \subseteq Unopened
      BY <1>1 DEF OpenStream, ReadPrevious, ReplaceDocument, GoTo, Unopened, TypeOK
    <2> QED
      BY <1>1, <2>1, LogsUntouched DEF OpenStream, ReadPrevious, ReplaceDocument
  <1>2. ASSUME NEW r \in Runs, RemovePrevious(r) PROVE LogInv'
    <2>1. Unopened' \subseteq Unopened /\ r \in Unopened
      BY <1>2 DEF RemovePrevious, GoTo, Unopened, TypeOK
    <2>2. removed \subseteq removed' /\ UNCHANGED emitted
      BY <1>2 DEF RemovePrevious
    <2>3. \A q \in Runs : log'[q] \in {log[q], <<>>}
      BY <1>2 DEF RemovePrevious, TypeOK
    <2>4. \A q \in Runs \ removed' : log'[q] = log[q]
      BY <1>2 DEF RemovePrevious, TypeOK
    <2>5. \A q \in Runs : q # r => publisher'[q] = publisher[q]
      BY <1>2 DEF RemovePrevious, TypeOK
    <2>6. log[r] = <<>> /\ emitted[r] = <<>>
      BY <2>1 DEF LogInv, NothingSaidYet
    <2>7. NothingSaidYet'
      <3>1. Unopened \subseteq Runs
        BY DEF Unopened
      <3> QED
        BY <2>1, <2>2, <2>3, <3>1 DEF LogInv, NothingSaidYet
    <2>8. OpenIsComplete'
      BY <2>2, <2>4, <2>5, <2>6 DEF LogInv, OpenIsComplete
    <2>9. StreamHasNoGaps'
      BY <2>2, <2>4 DEF LogInv, StreamHasNoGaps, PrefixOf
    <2> QED
      BY <2>7, <2>8, <2>9 DEF LogInv
  <1>3. ASSUME NEW r \in Runs, Observe(r) PROVE LogInv'
    <2>1. Record(r, FALSE, Unset) \in Records
      BY RecordIsRecord
    <2>2. r \notin Unopened /\ Unopened' = Unopened
      BY <1>3 DEF Observe, Unopened
    <2> QED
      BY <1>3, <2>1, <2>2, PublishKeepsLogs DEF Observe
  <1>4. ASSUME NEW r \in Runs, Execute(r) \/ Exit(r) PROVE LogInv'
    <2>1. Unopened' \subseteq Unopened
      BY <1>4 DEF Execute, Exit, GoTo, Unopened, TypeOK
    <2> QED
      BY <1>4, <2>1, LogsUntouched DEF Execute, Exit
  <1>5. ASSUME NEW r \in Runs, PublishEnd(r) PROVE LogInv'
    <2>1. Record(r, TRUE, code[r]) \in Records
      BY RecordIsRecord DEF TypeOK
    <2>2. r \notin Unopened /\ Unopened' \subseteq Unopened
      BY <1>5 DEF PublishEnd, GoTo, Unopened, TypeOK
    <2>3. CASE Unpublished(r)
      BY <1>5, <2>2, <2>3, LogsUntouched DEF PublishEnd
    <2>4. CASE ~Unpublished(r)
      BY <1>5, <2>1, <2>2, <2>4, PublishKeepsLogs DEF PublishEnd
    <2> QED
      BY <2>3, <2>4
  <1>6. ASSUME NEW w \in Watchers, WatcherStep(w) PROVE LogInv'
    <2>1. UNCHANGED <<files, run, history>>
      BY <1>6 DEF WatcherStep, FindRun, ReadRecords, ReadNothing, ReadFails, CheckReplaced, Pause
    <2> QED
      BY <2>1, LogsUntouched DEF Unopened
  <1>7. CASE UNCHANGED vars
    BY <1>7, LogsUntouched DEF vars, Unopened
  <1> QED
    BY <1>1, <1>2, <1>3, <1>4, <1>5, <1>6, <1>7 DEF Next, RunStep, Rest

(* A stream that failed once stays cut off: whatever fails and whenever, a  *)
(* log that stands is what its run had to say from the start, with no gap.  *)
THEOREM StreamsHaveNoGaps == Spec => []StreamHasNoGaps
  <1>1. LogInv => StreamHasNoGaps
    BY DEF LogInv
  <1>2. Spec => []LogInv
    BY LogInit, LogStep, StreamTypeCorrect, PTL DEF Spec
  <1> QED
    BY <1>1, <1>2, PTL

-----------------------------------------------------------------------------
(* What a run that came back has said, and what it exits with.              *)

(* Only a publish says anything, and only a run that comes back has a code. *)
LEMMA EndUntouched ==
  ASSUME TypeOK, EndInv, NEW r \in Runs, UNCHANGED <<format, broken, code, exit, emitted>>,
         \A q \in Runs : q # r => pc'[q] = pc[q], pc[r] \notin {"written", "exited"},
         pc'[r] \notin {"written", "exited"}
  PROVE  EndInv'
  BY DEF EndInv, SaidItsEnd, LastSaid, Unpublished, ExitsWith

LEMMA EndStep == TypeOK /\ EndInv /\ [Next]_vars => EndInv'
  <1> SUFFICES ASSUME TypeOK, EndInv, [Next]_vars PROVE EndInv'
    OBVIOUS
  <1> USE DEF files, run, history
  <1>1. ASSUME NEW r \in Runs,
               OpenStream(r) \/ ReadPrevious(r) \/ ReplaceDocument(r) \/ RemovePrevious(r)
        PROVE  EndInv'
    <2>1. /\ pc[r] \notin {"written", "exited"} /\ pc'[r] \notin {"written", "exited"}
          /\ \A q \in Runs : q # r => pc'[q] = pc[q]
      BY <1>1 DEF OpenStream, ReadPrevious, ReplaceDocument, RemovePrevious, GoTo, TypeOK
    <2> QED
      BY <1>1, <2>1, EndUntouched DEF OpenStream, ReadPrevious, ReplaceDocument, RemovePrevious
  <1>2. ASSUME NEW r \in Runs, Observe(r) PROVE EndInv'
    <2>1. pc[r] = "running" /\ UNCHANGED <<pc, format, code, exit>>
      BY <1>2 DEF Observe
    <2>2. \A q \in Runs : q # r => emitted'[q] = emitted[q] /\ (q \in broken' <=> q \in broken)
      BY <1>2 DEF Observe, Publish, TypeOK
    <2> QED
      BY <2>1, <2>2 DEF EndInv, SaidItsEnd, LastSaid, Unpublished, ExitsWith
  <1>3. ASSUME NEW r \in Runs, Execute(r) PROVE EndInv'
    <2>1. pc[r] = "running" /\ pc'[r] = "executed" /\ UNCHANGED <<format, broken, exit, emitted>>
      BY <1>3 DEF Execute, GoTo, TypeOK
    <2>2. \A q \in Runs : q # r => code'[q] = code[q] /\ pc'[q] = pc[q]
      BY <1>3 DEF Execute, GoTo, TypeOK
    <2> QED
      BY <2>1, <2>2 DEF EndInv, SaidItsEnd, LastSaid, Unpublished, ExitsWith
  <1>4. ASSUME NEW r \in Runs, PublishEnd(r) PROVE EndInv'
    <2>1. pc[r] = "executed" /\ pc'[r] = "written" /\ UNCHANGED <<format, broken, code, exit>>
      BY <1>4 DEF PublishEnd, GoTo, TypeOK
    <2>2. \A q \in Runs : q # r => emitted'[q] = emitted[q] /\ pc'[q] = pc[q]
      BY <1>4 DEF PublishEnd, Publish, GoTo, TypeOK
    <2>3. ASSUME ~Unpublished(r) PROVE SaidItsEnd(r)'
      <3> DEFINE last == Record(r, TRUE, code[r])
      <3>1. emitted'[r] = Append(emitted[r], last)
        BY <1>4, <2>3 DEF PublishEnd, Publish, TypeOK
      <3>2. emitted[r] \in Seq(Records) /\ last \in Records
        BY RecordIsRecord DEF TypeOK
      <3>3. last.ends /\ last.code = code[r]
        BY DEF Record
      <3> HIDE DEF last
      <3>4. Append(emitted[r], last)[Len(Append(emitted[r], last))] = last
            /\ Append(emitted[r], last) # <<>>
        BY <3>2
      <3> QED
        BY <2>1, <3>1, <3>3, <3>4 DEF SaidItsEnd, LastSaid
    <2>4. ASSUME NEW q \in Runs, q # r
          PROVE  SaidItsEnd(q)' = SaidItsEnd(q) /\ Unpublished(q)' = Unpublished(q)
      BY <2>1, <2>2, <2>4 DEF SaidItsEnd, LastSaid, Unpublished
    <2>5. Unpublished(r)' = Unpublished(r)
      BY <2>1 DEF Unpublished
    <2> QED
      BY <2>1, <2>2, <2>3, <2>4, <2>5 DEF EndInv, ExitsWith
  <1>5. ASSUME NEW r \in Runs, Exit(r) PROVE EndInv'
    <2>1. pc[r] = "written" /\ pc'[r] = "exited" /\ UNCHANGED <<format, broken, code, emitted>>
      BY <1>5 DEF Exit, GoTo, TypeOK
    <2>2. \A q \in Runs : q # r => exit'[q] = exit[q] /\ pc'[q] = pc[q]
      BY <1>5 DEF Exit, GoTo, TypeOK
    <2>3. ExitsWith(r, exit'[r])
      BY <1>5 DEF Exit, TypeOK
    <2> QED
      BY <2>1, <2>2, <2>3 DEF EndInv, SaidItsEnd, LastSaid, Unpublished, ExitsWith
  <1>6. CASE UNCHANGED <<pc, format, broken, code, exit, emitted>>
    BY <1>6 DEF EndInv, SaidItsEnd, LastSaid, Unpublished, ExitsWith
  <1>7. ASSUME NEW w \in Watchers, WatcherStep(w) PROVE EndInv'
    BY <1>6, <1>7 DEF WatcherStep, FindRun, ReadRecords, ReadNothing, ReadFails, CheckReplaced, Pause
  <1>8. CASE UNCHANGED vars
    BY <1>6, <1>8 DEF vars
  <1> QED
    BY <1>1, <1>2, <1>3, <1>4, <1>5, <1>7, <1>8 DEF Next, RunStep, Rest

LEMMA LogHolds == Spec => []LogInv
  BY LogInit, LogStep, StreamTypeCorrect, PTL DEF Spec

LEMMA EndHolds == Spec => []EndInv
  <1>1. Init => EndInv
    BY DEF Init, EndInv
  <1> QED
    BY <1>1, EndStep, StreamTypeCorrect, PTL DEF Spec

(* A run that exits with success wrote everything it had to write, and its  *)
(* success is the last record of its stream, unless the stream failed.      *)
THEOREM SuccessIsPublished == Spec => []SuccessIsTold
  <1>1. TypeOK /\ LogInv /\ EndInv => SuccessIsTold
    <2> SUFFICES ASSUME LogInv, EndInv, NEW r \in Runs, exit[r] = 0
                 PROVE  /\ r \notin broken
                        /\ emitted[r] # <<>> /\ LastSaid(r).ends /\ LastSaid(r).code = 0
                        /\ publisher[r] = "open" /\ r \notin removed => log[r] = emitted[r]
      BY DEF SuccessIsTold
    <2>1. pc[r] = "exited" /\ ExitsWith(r, 0)
      BY DEF EndInv, Unset
    <2>2. r \notin broken /\ code[r] = 0
      BY <2>1 DEF ExitsWith
    <2>3. SaidItsEnd(r)
      BY <2>1, <2>2 DEF EndInv, Unpublished
    <2> QED
      BY <2>2, <2>3 DEF SaidItsEnd, LogInv, OpenIsComplete
  <1> QED
    BY <1>1, StreamTypeCorrect, LogHolds, EndHolds, PTL

-----------------------------------------------------------------------------
(* What a watcher has seen, against the log it follows.                     *)

LEMMA WatchedTypes ==
  ASSUME TypeOK, NEW w \in Watchers
  PROVE  /\ watcher[w].on \in Runs \cup {NoRun} /\ watcher[w].position \in Nat
         /\ watcher[w].seen \in Seq(Records)
         /\ watcher[w].at = "waiting" => watcher[w] = Idle
  <1>1. watcher[w] \in WatcherStates
    BY DEF TypeOK
  <1>2. CASE watcher[w] = Idle
    <2>1. <<>> \in Seq(Records)
      OBVIOUS
    <2> QED
      BY <1>2, <2>1 DEF Idle
  <1>3. CASE watcher[w] # Idle
    <2>1. watcher[w] \in Reader
      BY <1>1, <1>3 DEF WatcherStates, Reader
    <2> QED
      BY <2>1 DEF Reader
  <1> QED
    BY <1>2, <1>3

(* A record that is published is its run's, and comes after all it said.    *)
LEMMA PublishKeepsOwn ==
  ASSUME TypeOK, OwnRecords, NEW r \in Runs, NEW e \in BOOLEAN, NEW c \in ExitCodes \cup {Unset},
         Publish(r, Record(r, e, c))
  PROVE  OwnRecords'
  <1> DEFINE record == Record(r, e, c)
  <1>1. record \in Records /\ record.of = r /\ record.nth = Len(emitted[r]) + 1
    BY RecordIsRecord DEF Record
  <1> HIDE DEF record
  <1>2. log[r] \in Seq(Records) /\ emitted[r] \in Seq(Records)
    BY DEF TypeOK
  <1>3. emitted'[r] = Append(emitted[r], record) /\ Len(emitted'[r]) = Len(emitted[r]) + 1
    <2>1. emitted'[r] = Append(emitted[r], record)
      BY DEF Publish, TypeOK, record
    <2> QED
      BY <1>1, <1>2, <2>1
  <1>4. log'[r] = log[r] \/ log'[r] = Append(log[r], record)
    BY DEF Publish, TypeOK, record
  <1>5. \A q \in Runs : q # r => log'[q] = log[q] /\ emitted'[q] = emitted[q]
    BY DEF Publish, TypeOK
  <1>6. \A i \in DOMAIN log[r] : log[r][i] \in Records
    BY <1>2
  <1>7. \A i \in DOMAIN log[r] : log[r][i].nth \in Nat /\ Len(emitted[r]) \in Nat
    BY <1>2, <1>6 DEF Records
  <1>8. CASE log'[r] = log[r]
    BY <1>3, <1>5, <1>7, <1>8 DEF OwnRecords
  <1>9. CASE log'[r] = Append(log[r], record)
    <2>1. /\ DOMAIN log'[r] = 1 .. Len(log[r]) + 1 /\ DOMAIN log[r] = 1 .. Len(log[r])
          /\ \A i \in DOMAIN log[r] : log'[r][i] = log[r][i]
          /\ log'[r][Len(log[r]) + 1] = record /\ Len(log[r]) \in Nat
      BY <1>1, <1>2, <1>9
    <2>2. ASSUME NEW i \in DOMAIN log'[r]
          PROVE  /\ log'[r][i].of = r /\ log'[r][i].nth <= Len(emitted'[r])
                 /\ \A k \in DOMAIN log'[r] : k < i => log'[r][k].nth < log'[r][i].nth
      <3>1. CASE i \in DOMAIN log[r]
        <4>1. \A k \in DOMAIN log'[r] : k < i => k \in DOMAIN log[r]
          BY <2>1, <2>2, <3>1
        <4> QED
          BY <1>3, <1>7, <2>1, <3>1, <4>1, SMTT(30) DEF OwnRecords
      <3>2. CASE i = Len(log[r]) + 1
        <4>1. \A k \in DOMAIN log'[r] : k < i => k \in DOMAIN log[r]
          BY <2>1, <2>2, <3>2
        <4>2. log'[r][i].of = r /\ log'[r][i].nth = Len(emitted[r]) + 1
          BY <1>1, <2>1, <3>2
        <4>3. \A k \in DOMAIN log[r] : log[r][k].nth < Len(emitted[r]) + 1
          BY <1>7 DEF OwnRecords
        <4> QED
          BY <1>3, <1>7, <2>1, <4>1, <4>2, <4>3
      <3> QED
        BY <2>1, <2>2, <3>1, <3>2
    <2> QED
      BY <1>5, <2>2 DEF OwnRecords
  <1> QED
    BY <1>4, <1>8, <1>9

LEMMA PublishKeepsPosition ==
  ASSUME TypeOK, OwnRecords, NEW r \in Runs, NEW e \in BOOLEAN, NEW c \in ExitCodes \cup {Unset},
         Publish(r, Record(r, e, c)), UNCHANGED <<removed, watcher>>,
         NEW w \in Watchers, UpToPosition(w)
  PROVE  UpToPosition(w)'
  <1> DEFINE record == Record(r, e, c)
             s == watcher[w]
  <1>1. record \in Records /\ record.nth = Len(emitted[r]) + 1
    BY RecordIsRecord DEF Record
  <1> HIDE DEF record
  <1>2. log[r] \in Seq(Records) /\ emitted[r] \in Seq(Records) /\ s.seen \in Seq(Records)
    BY WatchedTypes DEF TypeOK
  <1>3. emitted'[r] = Append(emitted[r], record) /\ Len(emitted'[r]) = Len(emitted[r]) + 1
    <2>1. emitted'[r] = Append(emitted[r], record)
      BY DEF Publish, TypeOK, record
    <2> QED
      BY <1>1, <1>2, <2>1
  <1>4. log'[r] = log[r] \/ log'[r] = Append(log[r], record)
    BY DEF Publish, TypeOK, record
  <1>5. \A q \in Runs : q # r => log'[q] = log[q] /\ emitted'[q] = emitted[q]
    BY DEF Publish, TypeOK
  <1>6. \A k \in DOMAIN s.seen : s.seen[k] \in Records
    BY <1>2
  <1>7. \A k \in DOMAIN s.seen : s.seen[k].nth \in Nat /\ Len(emitted[r]) \in Nat
    BY <1>2, <1>6 DEF Records
  <1>8. CASE s.on # r
    BY <1>5, <1>8 DEF UpToPosition
  <1>9. CASE s.on = r
    <2>1. \A k \in DOMAIN s.seen : s.seen[k].nth <= Len(emitted'[r])
      BY <1>3, <1>7, <1>9 DEF UpToPosition
    <2>2. CASE log'[r] = log[r]
      BY <1>9, <2>1, <2>2 DEF UpToPosition
    <2>3. CASE log'[r] = Append(log[r], record)
      <3>1. /\ DOMAIN log'[r] = 1 .. Len(log[r]) + 1 /\ DOMAIN log[r] = 1 .. Len(log[r])
            /\ \A i \in DOMAIN log[r] : log'[r][i] = log[r][i]
            /\ log'[r][Len(log[r]) + 1] = record /\ Len(log'[r]) = Len(log[r]) + 1
            /\ Len(log[r]) \in Nat
        BY <1>1, <1>2, <2>3
      <3>2. ASSUME NEW k \in DOMAIN s.seen, NEW i \in DOMAIN log'[r], i > s.position
            PROVE  s.seen[k].nth < log'[r][i].nth
        <4>1. CASE i \in DOMAIN log[r]
          BY <1>9, <3>1, <3>2, <4>1 DEF UpToPosition
        <4>2. CASE i = Len(log[r]) + 1
          <5>1. s.seen[k].nth <= Len(emitted[r])
            BY <1>9 DEF UpToPosition
          <5>2. log'[r][i].nth = Len(emitted[r]) + 1
            BY <1>1, <3>1, <4>2
          <5> QED
            BY <1>7, <5>1, <5>2
        <4> QED
          BY <3>1, <4>1, <4>2
      <3>3. ASSUME r \notin removed PROVE PrefixOf(s.seen, log'[r])
        <4>1. PrefixOf(s.seen, log[r]) /\ DOMAIN s.seen = 1 .. Len(s.seen) /\ Len(s.seen) \in Nat
          BY <1>2, <1>9, <3>3 DEF UpToPosition
        <4>2. \A i \in DOMAIN s.seen : i \in DOMAIN log[r]
          BY <3>1, <4>1 DEF PrefixOf
        <4> QED
          BY <3>1, <4>1, <4>2 DEF PrefixOf
      <3> QED
        BY <1>9, <2>1, <3>2, <3>3 DEF UpToPosition
    <2> QED
      BY <1>4, <2>2, <2>3
  <1> QED
    BY <1>8, <1>9

LEMMA PublishKeepsSeen ==
  ASSUME TypeOK, SeenInv, NEW r \in Runs, NEW e \in BOOLEAN, NEW c \in ExitCodes \cup {Unset},
         Publish(r, Record(r, e, c)), UNCHANGED <<removed, watcher>>
  PROVE  SeenInv'
  <1>1. OwnRecords'
    BY PublishKeepsOwn DEF SeenInv
  <1>2. \A w \in Watchers : UpToPosition(w)'
    BY PublishKeepsPosition DEF SeenInv
  <1>3. \A w \in Watchers : SeenInOrder(w)'
    BY DEF SeenInv, SeenInOrder
  <1> QED
    BY <1>1, <1>2, <1>3 DEF SeenInv

(* A log that goes takes nothing from what was seen.                        *)
LEMMA RemovalKeepsSeen ==
  ASSUME SeenInv, UNCHANGED <<emitted, watcher>>, removed \subseteq removed',
         \A q \in Runs : log'[q] \in {log[q], <<>>}, \A q \in Runs \ removed' : log'[q] = log[q]
  PROVE  SeenInv'
  <1>1. \A q \in Runs : log'[q] = log[q] \/ DOMAIN log'[q] = {}
    OBVIOUS
  <1>2. OwnRecords'
    BY <1>1 DEF SeenInv, OwnRecords
  <1>3. \A w \in Watchers : UpToPosition(w)'
    BY <1>1 DEF SeenInv, UpToPosition, PrefixOf
  <1>4. \A w \in Watchers : SeenInOrder(w)'
    BY DEF SeenInv, SeenInOrder
  <1> QED
    BY <1>2, <1>3, <1>4 DEF SeenInv

(* What a read hands on: the records of the log from the watcher's position *)
(* on, one at least, up to the first that ends the run.                     *)
ReadsOn(w, k) ==
  LET s == watcher[w]
      t == watcher'[w]
      all == log[s.on]
  IN  /\ s.position + k <= Len(all)
      /\ t.on = s.on /\ t.position = s.position + k
      /\ t.seen \in Seq(Records) /\ Len(t.seen) = s.position + k
      /\ \A i \in 1 .. s.position : t.seen[i] = s.seen[i]
      /\ \A i \in s.position + 1 .. s.position + k : t.seen[i] = all[i]
      /\ \A i \in s.position + 1 .. s.position + k - 1 : ~all[i].ends
      /\ all[s.position + k].ends => t.at = "told"

LEMMA ReadReadsOn ==
  ASSUME TypeOK, NEW w \in Watchers, ReadRecords(w), watcher[w].position = Len(watcher[w].seen)
  PROVE  \E k \in Nat \ {0} : ReadsOn(w, k)
  <1> DEFINE s == watcher[w]
             all == log[s.on]
             from == s.position
             to == IF Len(all) < from + READ_BATCH THEN Len(all) ELSE from + READ_BATCH
             batch == Batch(w)
             read(k) == [s EXCEPT
               !.position = @ + k, !.seen = @ \o SubSeq(batch, 1, k), !.code = batch[k].code,
               !.at = IF batch[k].ends THEN "told" ELSE "reading"]
  <1>1. s \in Reader /\ batch \in Seq(Records)
    BY ReaderTypes, BatchTypes DEF ReadRecords
  <1>2. s.on \in Runs /\ from \in Nat /\ s.seen \in Seq(Records) /\ Len(s.seen) = from
    BY <1>1 DEF Reader
  <1>3. all \in Seq(Records) /\ READ_BATCH \in Nat
    BY <1>2, StreamAssumption DEF TypeOK, StreamAssumption
  <1>4. to \in Int /\ to <= Len(all) /\ Len(all) \in Nat
    BY <1>2, <1>3
  <1>5. batch = SubSeq(all, from + 1, to)
    BY DEF Batch, Followed
  <1>6. PICK k \in DOMAIN batch : HandedOn(batch, k) /\ Becomes(w, read(k))
    BY DEF ReadRecords
  <1>7. /\ k \in Nat \ {0} /\ from + k <= to
        /\ \A j \in 1 .. k : j \in DOMAIN batch /\ batch[j] = all[from + j]
    <2> HIDE DEF from, to, all, batch
    <2>1. \A i \in from + 1 .. to : all[i] \in Records
      BY <1>2, <1>3, <1>4
    <2>2. /\ Len(batch) = IF from + 1 <= to THEN to - from ELSE 0
          /\ \A j \in 1 .. to - from : batch[j] = all[from + j]
      <3>1. from + 1 \in Int
        BY <1>2
      <3>2. /\ Len(batch) = IF from + 1 <= to THEN to - (from + 1) + 1 ELSE 0
            /\ \A j \in 1 .. to - (from + 1) + 1 : batch[j] = all[from + 1 + j - 1]
        BY <1>4, <1>5, <2>1, <3>1, SubSeqProperties
      <3>3. /\ to - (from + 1) + 1 = to - from
            /\ \A j \in 1 .. to - from : from + 1 + j - 1 = from + j
        BY <1>2, <1>4
      <3> QED
        BY <3>2, <3>3
    <2>3. DOMAIN batch = 1 .. Len(batch) /\ Len(batch) \in Nat
      BY <1>1
    <2>4. k \in Nat \ {0} /\ k <= to - from /\ Len(batch) = to - from
      BY <1>2, <1>4, <1>6, <2>2, <2>3
    <2>5. \A j \in 1 .. k : j \in 1 .. to - from /\ j \in DOMAIN batch
      BY <1>2, <1>4, <2>3, <2>4
    <2> QED
      BY <1>2, <1>4, <2>2, <2>4, <2>5
  <1>8. watcher'[w] = read(k)
    BY <1>6 DEF Becomes, TypeOK
  <1> DEFINE part == SubSeq(batch, 1, k)
             seen == s.seen \o part
  <1>9. part \in Seq(Records) /\ Len(part) = k /\ \A j \in 1 .. k : part[j] = batch[j]
    <2> HIDE DEF batch
    <2>1. k <= Len(batch)
      BY <1>1, <1>6
    <2> QED
      BY <1>1, <1>7, <2>1
  <1>10. watcher'[w].on = s.on /\ watcher'[w].position = from + k /\ watcher'[w].seen = seen
         /\ (batch[k].ends => watcher'[w].at = "told")
    <2> HIDE DEF batch
    <2> QED
      BY <1>1, <1>8 DEF Reader
  <1> HIDE DEF part, batch, to
  <1>11. seen \in Seq(Records) /\ Len(seen) = from + k
         /\ (\A i \in 1 .. from : seen[i] = s.seen[i])
         /\ (\A i \in from + 1 .. from + k : seen[i] = part[i - from])
    <2> HIDE DEF from
    <2>1. /\ seen \in Seq(Records) /\ Len(seen) = Len(s.seen) + Len(part)
          /\ \A i \in 1 .. Len(s.seen) + Len(part) :
               seen[i] = IF i <= Len(s.seen) THEN s.seen[i] ELSE part[i - Len(s.seen)]
      <3>1. s.seen \in Seq(Records) /\ part \in Seq(Records)
        BY <1>2, <1>9
      <3> HIDE DEF s
      <3> QED
        BY <3>1, ConcatProperties
    <2>2. Len(seen) = from + k
      BY <1>2, <1>9, <2>1
    <2>3. ASSUME NEW i \in 1 .. from PROVE seen[i] = s.seen[i]
      <3>1. i \in 1 .. Len(s.seen) + Len(part) /\ i <= Len(s.seen)
        BY <1>2, <1>7, <1>9
      <3> QED
        BY <2>1, <3>1
    <2>4. ASSUME NEW i \in from + 1 .. from + k PROVE seen[i] = part[i - from]
      <3>1. i \in 1 .. Len(s.seen) + Len(part) /\ ~(i <= Len(s.seen))
        BY <1>2, <1>7, <1>9
      <3> QED
        BY <1>2, <2>1, <3>1
    <2> QED
      BY <2>1, <2>2, <2>3, <2>4
  <1>12. \A i \in from + 1 .. from + k : seen[i] = all[i]
    <2> TAKE i \in from + 1 .. from + k
    <2> HIDE DEF from
    <2>1. i - from \in 1 .. k /\ from + (i - from) = i
      BY <1>2, <1>7
    <2>2. part[i - from] = all[from + (i - from)]
      BY <1>7, <1>9, <2>1
    <2> QED
      BY <1>11, <2>1, <2>2
  <1>13. \A i \in from + 1 .. from + k - 1 : ~all[i].ends
    <2> TAKE i \in from + 1 .. from + k - 1
    <2> HIDE DEF from
    <2>1. i - from \in 1 .. k - 1 /\ i - from \in 1 .. k /\ from + (i - from) = i
      BY <1>2, <1>7
    <2>2. ~batch[i - from].ends /\ batch[i - from] = all[from + (i - from)]
      BY <1>6, <1>7, <2>1 DEF HandedOn
    <2> QED
      BY <2>1, <2>2
  <1>14. batch[k] = all[from + k]
    BY <1>7
  <1>15. from + k <= Len(all)
    BY <1>2, <1>4, <1>7
  <1> HIDE DEF seen
  <1>16. ReadsOn(w, k)
    BY <1>10, <1>11, <1>12, <1>13, <1>14, <1>15 DEF ReadsOn
  <1> QED
    BY <1>7, <1>16

LEMMA ReadKeepsOrder ==
  ASSUME TypeOK, SeenInv, NEW w \in Watchers, watcher[w].at = "reading", watcher[w].on \in Runs,
         NEW k \in Nat \ {0}, ReadsOn(w, k)
  PROVE  SeenInOrder(w)'
  <1> DEFINE s == watcher[w]
             t == watcher'[w]
             all == log[s.on]
             from == s.position
  <1>1. from \in Nat /\ s.seen \in Seq(Records) /\ Len(s.seen) = from /\ DOMAIN s.seen = 1 .. from
    BY WatchedTypes DEF SeenInv, UpToPosition
  <1>2. all \in Seq(Records) /\ DOMAIN all = 1 .. Len(all) /\ Len(all) \in Nat
    BY DEF TypeOK
  <1>3. DOMAIN t.seen = 1 .. from + k
    BY <1>1 DEF ReadsOn
  <1>4. from + k <= Len(all) /\ t.on = s.on
    BY DEF ReadsOn
  <1> SUFFICES ASSUME NEW i \in 1 .. from + k
               PROVE  /\ t.seen[i].of = s.on
                      /\ t.seen[i].ends => i = Len(t.seen) /\ t.at = "told"
                      /\ \A j \in 1 .. from + k : j < i => t.seen[j].nth < t.seen[i].nth
    BY <1>3, <1>4 DEF SeenInOrder
  <1>5. CASE i <= from
    <2>1. t.seen[i] = s.seen[i] /\ i \in DOMAIN s.seen
      BY <1>1, <1>5 DEF ReadsOn
    <2>2. s.seen[i].of = s.on /\ ~s.seen[i].ends
      BY <2>1 DEF SeenInv, SeenInOrder
    <2>3. ASSUME NEW j \in 1 .. from + k, j < i PROVE t.seen[j].nth < t.seen[i].nth
      <3>1. j \in DOMAIN s.seen /\ t.seen[j] = s.seen[j]
        BY <1>1, <1>5, <2>3 DEF ReadsOn
      <3> QED
        BY <2>1, <2>3, <3>1 DEF SeenInv, SeenInOrder
    <2> QED
      BY <2>1, <2>2, <2>3
  <1>6. CASE i > from
    <2>1. i \in from + 1 .. from + k /\ i \in DOMAIN all
      BY <1>1, <1>2, <1>4, <1>6
    <2>2. t.seen[i] = all[i] /\ all[i].of = s.on
      BY <2>1 DEF ReadsOn, SeenInv, OwnRecords
    <2>3. ASSUME t.seen[i].ends PROVE i = Len(t.seen) /\ t.at = "told"
      <3>1. ~(i \in from + 1 .. from + k - 1)
        BY <2>2, <2>3 DEF ReadsOn
      <3>2. i = from + k
        BY <1>1, <2>1, <3>1
      <3> QED
        BY <2>2, <2>3, <3>2 DEF ReadsOn
    <2>4. ASSUME NEW j \in 1 .. from + k, j < i PROVE t.seen[j].nth < t.seen[i].nth
      <3>1. CASE j <= from
        <4>1. t.seen[j] = s.seen[j] /\ j \in DOMAIN s.seen
          BY <1>1, <3>1 DEF ReadsOn
        <4> QED
          BY <1>6, <2>1, <2>2, <4>1 DEF SeenInv, UpToPosition
      <3>2. CASE j > from
        <4>1. j \in from + 1 .. from + k /\ j \in DOMAIN all
          BY <1>1, <1>2, <1>4, <3>2
        <4>2. t.seen[j] = all[j]
          BY <4>1 DEF ReadsOn
        <4> QED
          BY <2>1, <2>2, <2>4, <4>1, <4>2 DEF SeenInv, OwnRecords
      <3> QED
        BY <1>1, <3>1, <3>2
    <2> QED
      BY <2>2, <2>3, <2>4
  <1> QED
    BY <1>1, <1>5, <1>6

LEMMA ReadKeepsPosition ==
  ASSUME TypeOK, SeenInv, NEW w \in Watchers, watcher[w].on \in Runs,
         NEW k \in Nat \ {0}, ReadsOn(w, k), UNCHANGED <<log, removed, emitted>>
  PROVE  UpToPosition(w)'
  <1> DEFINE s == watcher[w]
             t == watcher'[w]
             all == log[s.on]
             from == s.position
  <1>1. from \in Nat /\ s.seen \in Seq(Records) /\ Len(s.seen) = from /\ DOMAIN s.seen = 1 .. from
    BY WatchedTypes DEF SeenInv, UpToPosition
  <1>2. all \in Seq(Records) /\ DOMAIN all = 1 .. Len(all) /\ Len(all) \in Nat
    BY DEF TypeOK
  <1>3. DOMAIN t.seen = 1 .. from + k /\ Len(t.seen) = from + k
    BY <1>1 DEF ReadsOn
  <1>4. from + k <= Len(all) /\ t.on = s.on /\ t.position = from + k
    BY DEF ReadsOn
  <1>5. t.on # NoRun
    BY <1>4, StreamAssumption DEF StreamAssumption
  <1>6. ASSUME NEW j \in DOMAIN t.seen
        PROVE  /\ t.seen[j].nth <= Len(emitted[s.on])
               /\ \A i \in DOMAIN all : i > from + k => t.seen[j].nth < all[i].nth
    <2>1. CASE j <= from
      <3>1. t.seen[j] = s.seen[j] /\ j \in DOMAIN s.seen
        BY <1>1, <1>3, <1>6, <2>1 DEF ReadsOn
      <3>2. \A i \in DOMAIN all : i > from + k => i > from
        BY <1>1, <1>2
      <3> QED
        BY <3>1, <3>2 DEF SeenInv, UpToPosition
    <2>2. CASE j > from
      <3>1. j \in from + 1 .. from + k /\ j \in DOMAIN all
        BY <1>1, <1>2, <1>3, <1>4, <1>6, <2>2
      <3>2. t.seen[j] = all[j]
        BY <3>1 DEF ReadsOn
      <3>3. \A i \in DOMAIN all : i > from + k => j < i
        BY <1>1, <1>2, <3>1
      <3> QED
        BY <3>1, <3>2, <3>3 DEF SeenInv, OwnRecords
    <2> QED
      BY <1>1, <1>3, <2>1, <2>2
  <1>7. ASSUME s.on \notin removed PROVE PrefixOf(t.seen, all)
    <2>1. PrefixOf(s.seen, all)
      BY <1>7 DEF SeenInv, UpToPosition
    <2>2. ASSUME NEW i \in DOMAIN t.seen PROVE t.seen[i] = all[i]
      <3>1. CASE i <= from
        <4>1. t.seen[i] = s.seen[i] /\ i \in DOMAIN s.seen
          BY <1>1, <1>3, <2>2, <3>1 DEF ReadsOn
        <4> QED
          BY <2>1, <4>1 DEF PrefixOf
      <3>2. CASE i > from
        <4>1. i \in from + 1 .. from + k
          BY <1>1, <1>3, <2>2, <3>2
        <4> QED
          BY <4>1 DEF ReadsOn
      <3> QED
        BY <1>1, <1>3, <3>1, <3>2
    <2> QED
      BY <1>3, <1>4, <2>2 DEF PrefixOf
  <1> QED
    BY <1>3, <1>4, <1>5, <1>6, <1>7 DEF UpToPosition

(* A watcher's step is its own.                                             *)
LEMMA WatchersKeepSeen ==
  ASSUME TypeOK, SeenInv, UNCHANGED <<log, removed, emitted>>, NEW w \in Watchers,
         \A v \in Watchers : v # w => watcher'[v] = watcher[v],
         SeenInOrder(w)', UpToPosition(w)'
  PROVE  SeenInv'
  <1>1. OwnRecords'
    BY DEF SeenInv, OwnRecords
  <1>2. \A v \in Watchers : v # w => SeenInOrder(v)' /\ UpToPosition(v)'
    BY DEF SeenInv, SeenInOrder, UpToPosition
  <1> QED
    BY <1>1, <1>2 DEF SeenInv

LEMMA SeenStep == TypeOK /\ SeenInv /\ [Next]_vars => SeenInv'
  <1> SUFFICES ASSUME TypeOK, SeenInv, [Next]_vars PROVE SeenInv'
    OBVIOUS
  <1> USE DEF files, run, history
  <1>1. CASE UNCHANGED <<log, removed, emitted, watcher>>
    BY <1>1 DEF SeenInv, OwnRecords, SeenInOrder, UpToPosition
  <1>2. ASSUME NEW r \in Runs,
               OpenStream(r) \/ ReadPrevious(r) \/ ReplaceDocument(r) \/ Execute(r) \/ Exit(r)
        PROVE  SeenInv'
    BY <1>1, <1>2 DEF OpenStream, ReadPrevious, ReplaceDocument, Execute, Exit
  <1>3. ASSUME NEW r \in Runs, RemovePrevious(r) PROVE SeenInv'
    <2>1. removed \subseteq removed' /\ UNCHANGED <<emitted, watcher>>
      BY <1>3 DEF RemovePrevious
    <2>2. \A q \in Runs : log'[q] \in {log[q], <<>>}
      BY <1>3 DEF RemovePrevious, TypeOK
    <2>3. \A q \in Runs \ removed' : log'[q] = log[q]
      BY <1>3 DEF RemovePrevious, TypeOK
    <2> QED
      BY <2>1, <2>2, <2>3, RemovalKeepsSeen
  <1>4. ASSUME NEW r \in Runs, Observe(r) PROVE SeenInv'
    BY <1>4, PublishKeepsSeen DEF Observe
  <1>5. ASSUME NEW r \in Runs, PublishEnd(r) PROVE SeenInv'
    <2>1. CASE Unpublished(r)
      BY <1>1, <1>5, <2>1 DEF PublishEnd
    <2>2. CASE ~Unpublished(r)
      <3>1. code[r] \in ExitCodes \cup {Unset}
        BY DEF TypeOK
      <3> QED
        BY <1>5, <2>2, <3>1, PublishKeepsSeen DEF PublishEnd
    <2> QED
      BY <2>1, <2>2
  <1>6. ASSUME NEW w \in Watchers, FindRun(w) PROVE SeenInv'
    <2>1. /\ watcher'[w].seen = <<>> /\ watcher'[w].position = 0 /\ watcher'[w].on = current
          /\ \A v \in Watchers : v # w => watcher'[v] = watcher[v]
      BY <1>6 DEF FindRun, Becomes, Idle, TypeOK
    <2>2. UNCHANGED <<log, removed, emitted>> /\ current \in Runs /\ current # NoRun
      BY <1>6 DEF FindRun, TypeOK
    <2>3. SeenInOrder(w)'
      BY <2>1 DEF SeenInOrder
    <2>4. log[current] \in Seq(Records)
      BY <2>2 DEF TypeOK
    <2>5. PrefixOf(<<>>, log[current])
      BY <2>4 DEF PrefixOf
    <2>6. Len(<<>>) = 0 /\ DOMAIN <<>> = {}
      OBVIOUS
    <2>7. UpToPosition(w)'
      BY <2>1, <2>2, <2>5, <2>6 DEF UpToPosition
    <2> QED
      BY <2>1, <2>2, <2>3, <2>7, WatchersKeepSeen
  <1>7. ASSUME NEW w \in Watchers, ReadRecords(w) PROVE SeenInv'
    <2>1. watcher[w].at = "reading" /\ UNCHANGED <<log, removed, emitted>>
      BY <1>7 DEF ReadRecords
    <2>2. watcher[w].on \in Runs
      BY <2>1, ReaderTypes DEF Reader
    <2>3. PICK k \in Nat \ {0} : ReadsOn(w, k)
      BY <1>7, ReadReadsOn DEF SeenInv, UpToPosition
    <2>4. \A v \in Watchers : v # w => watcher'[v] = watcher[v]
      BY <1>7 DEF ReadRecords, Becomes, TypeOK
    <2>5. SeenInOrder(w)'
      BY <2>1, <2>2, <2>3, ReadKeepsOrder
    <2>6. UpToPosition(w)'
      BY <2>1, <2>2, <2>3, ReadKeepsPosition
    <2> QED
      BY <2>1, <2>4, <2>5, <2>6, WatchersKeepSeen
  <1>8. ASSUME NEW w \in Watchers, watcher[w].at \notin {"waiting", "told"}, NEW how, Leaves(w, how),
               UNCHANGED <<log, removed, emitted>>
        PROVE  SeenInv'
    <2>1. watcher[w] \in Reader
      BY <1>8, ReaderTypes
    <2>2. /\ watcher'[w].seen = watcher[w].seen /\ watcher'[w].position = watcher[w].position
          /\ watcher'[w].on = watcher[w].on
          /\ \A v \in Watchers : v # w => watcher'[v] = watcher[v]
      BY <1>8, <2>1 DEF Leaves, Becomes, Reader, TypeOK
    <2>3. SeenInOrder(w)'
      BY <1>8, <2>2 DEF SeenInv, SeenInOrder
    <2>4. UpToPosition(w)'
      BY <1>8, <2>2 DEF SeenInv, UpToPosition
    <2> QED
      BY <1>8, <2>2, <2>3, <2>4, WatchersKeepSeen
  <1>9. ASSUME NEW w \in Watchers, ReadNothing(w) \/ ReadFails(w) \/ CheckReplaced(w) \/ Pause(w)
        PROVE  SeenInv'
    BY <1>8, <1>9 DEF ReadNothing, ReadFails, CheckReplaced, Pause
  <1>10. CASE UNCHANGED vars
    BY <1>1, <1>10 DEF vars
  <1> QED
    BY <1>2, <1>3, <1>4, <1>5, <1>6, <1>7, <1>9, <1>10 DEF Next, RunStep, WatcherStep, Rest

LEMMA SeenInit == Init => SeenInv
  <1> SUFFICES ASSUME Init PROVE SeenInv
    OBVIOUS
  <1>1. Len(<<>>) = 0 /\ DOMAIN <<>> = {}
    OBVIOUS
  <1>2. OwnRecords
    BY <1>1 DEF Init, OwnRecords
  <1>3. \A w \in Watchers : watcher[w].seen = <<>> /\ watcher[w].position = 0 /\ watcher[w].on = NoRun
    BY DEF Init, Idle
  <1>4. \A w \in Watchers : SeenInOrder(w) /\ UpToPosition(w)
    BY <1>1, <1>3, StreamAssumption DEF SeenInOrder, UpToPosition, StreamAssumption
  <1> QED
    BY <1>2, <1>4 DEF SeenInv

LEMMA SeenHolds == Spec => []SeenInv
  BY SeenInit, SeenStep, StreamTypeCorrect, PTL DEF Spec

(* However runs replace each other while it follows, what a watcher was     *)
(* handed is one run's, in that run's order and from its first observation  *)
(* while its log stands, with nothing after the run's end.                  *)
THEOREM WatchersFollowOneRun == Spec => []WatchersSeeOneRun
  <1>1. TypeOK /\ LogInv /\ SeenInv => WatchersSeeOneRun
    <2> SUFFICES ASSUME TypeOK, LogInv, SeenInv, NEW w \in Watchers
                 PROVE  /\ SeenInOrder(w)
                        /\ watcher[w].on \in Runs \ removed =>
                             PrefixOf(watcher[w].seen, emitted[watcher[w].on])
      BY DEF WatchersSeeOneRun, SeenInOrder
    <2>1. SeenInOrder(w)
      BY DEF SeenInv
    <2>2. ASSUME watcher[w].on \in Runs \ removed
          PROVE  PrefixOf(watcher[w].seen, emitted[watcher[w].on])
      <3> DEFINE s == watcher[w]
      <3>1. /\ s.seen \in Seq(Records) /\ log[s.on] \in Seq(Records) /\ emitted[s.on] \in Seq(Records)
            /\ PrefixOf(s.seen, log[s.on]) /\ PrefixOf(log[s.on], emitted[s.on])
        BY <2>2, WatchedTypes DEF TypeOK, SeenInv, UpToPosition, LogInv, StreamHasNoGaps
      <3>2. /\ Len(s.seen) <= Len(emitted[s.on])
            /\ \A i \in DOMAIN s.seen : i \in DOMAIN log[s.on]
        BY <3>1 DEF PrefixOf
      <3> QED
        BY <3>1, <3>2 DEF PrefixOf
    <2> QED
      BY <2>1, <2>2
  <1> QED
    BY <1>1, StreamTypeCorrect, LogHolds, SeenHolds, PTL
=============================================================================
