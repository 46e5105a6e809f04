----------------------------- MODULE ChildProcess -----------------------------
(***************************************************************************)
(* One process a provider starts for one attempt at a call, from the spawn  *)
(* hook to the moment it is waited for: spawn.rs, stream.rs, `terminate`    *)
(* and the spawning half of oneharness/mod.rs, `call` of command.rs and     *)
(* `run` of llmlint.rs, under src/crates/onejudge/src.                      *)
(*                                                                          *)
(* The parent is one thread. It writes the request, then either collects    *)
(* both pipes to their ends and waits (a buffered call), or reads stdout    *)
(* line by line while a thread drains stderr (a streamed one) and tears the *)
(* process down when the turn is abandoned.                                 *)
(*                                                                          *)
(* The child is a program onejudge does not control. It may write before it *)
(* reads, write more than a pipe holds, close its stdin, exit at any time   *)
(* and with any status, close its stdout and live on, ignore a closed       *)
(* stdout and a signal, and leave behind a process that keeps either of its *)
(* pipes open. Two things are assumed of it: it answers for the operation   *)
(* it was asked, and one that exits naming a flag it will not accept has    *)
(* written nothing else. Of the observer it is assumed that it returns: one *)
(* that panics unwinds out of `read_stream` past `terminate` and the wait.  *)
(***************************************************************************)
EXTENDS ToolEvents

R == INSTANCE HarnessReport

CONSTANTS
  Documents,  \* per program and operation, the reports a child may write
  Written,    \* per operation, the lines a child may stream
  MAX_LINES,  \* how many of them
  BigRequests \* a request may be more than a pipe holds

NoReport == [results |-> <<>>, fallback |-> R!NoFallback, socket |-> FALSE,
             redirected |-> FALSE]

Lines == Actions \cup {"history", "garbage", "result"}

(* The programs a provider runs, and what they are asked for; only a        *)
(* worker's turn and a supervision are streamed.                            *)
Programs == {"oneharness", "command", "llmlint"}
Operations == {"respond", "supervisor", "user", "judge", "assess"}
Watchable == {"respond", "supervisor"}

ASSUME ChildAssumption ==
  /\ Written \in [Watchable -> SUBSET Lines]
  /\ MAX_LINES \in [Watchable -> Nat]
  /\ DOMAIN Documents = Programs \X Operations
  /\ BigRequests \in BOOLEAN
  /\ \A asked \in DOMAIN Documents : NoReport \notin Documents[asked]

VARIABLES
  at,      \* where the parent is
  spec,    \* what the attempt in flight asks for
  child,   \* the process
  out,     \* the lines in its stdout pipe
  heard,   \* the events read from this attempt
  outcome, \* how reading the stream ended
  recorded, \* whether the attempt's process is on the record, Spawner.records
  got,     \* what the attempt came to
  shown    \* history: every event the observer was handed during the call

process == <<child, out, heard, outcome, recorded>>

Stages == {"idle", "ladder", "attempt", "grouping", "writing", "collecting", "reading", "eof",
           "grace1", "grace2", "waiting", "joining", "running", "back"}

(* The parent no longer reads the child's stdout. *)
Closed == {"grace1", "grace2", "waiting", "joining"}

(* What a process exits with: 0, 1, or anything else and a signal. *)
Other == 2
Codes == 0 .. Other

(* The pipes a child writes to. "open" are those with a writer left: the     *)
(* child itself or, once it is gone, a process it started (its heir).        *)
Pipes == {"out", "err"}
NoChild == [at |-> "none", read |-> FALSE, lines |-> 0, open |-> {}]

Blocked == {"stuck_out", "stuck_err"}
Alive == {"up"} \cup Blocked

(* The words a failed child's stderr may be read for: what it was asked for  *)
(* and would not do.                                                         *)
Words == {"nothing", "session", "control"}

(* What an attempt comes to: an error with the words that may be read in it,  *)
(* a turn that was abandoned, or output to be read as a report.               *)
Got(is, report, code, words) == [is |-> is, report |-> report, code |-> code, words |-> words]
Failed(words) == Got("error", NoReport, Other, words)
Pending == Got("pending", NoReport, Other, "nothing")
Refused == Failed("nothing")

-----------------------------------------------------------------------------
(* What a child may have said when it has exited: a document or nothing that *)
(* can be read, and any status; or a refusal, which names what was asked and *)
(* is all there is. Only a turn that asked for control has a socket. Nobody  *)
(* looks before it is over, so that is when it is chosen.                    *)

Writable == {NoReport} \cup
  {d \in Documents[<<spec.by, spec.op>>] : d.socket \/ d.redirected => spec.control}

Refusals ==
  IF child.lines > 0 THEN {}
  ELSE {words \in {"session", "control"} : IF words = "session" THEN spec.session ELSE spec.control}

Output ==
  {Got("output", d, code, "nothing") : d \in Writable,
     code \in IF spec.stdin THEN {0, Other} ELSE Codes}
  \cup {Got("output", NoReport, Other, words) : words \in Refusals}

-----------------------------------------------------------------------------
(* Spawner::spawn. Making the request may fail first, the hook is asked      *)
(* before the process is made, and the process may not be made.              *)

Create ==
  /\ at = "attempt"
  /\ \/ at' = "grouping" /\ child' = [NoChild EXCEPT !.at = "up", !.open = Pipes] /\ UNCHANGED got
     \/ at' = "back" /\ got' = Refused /\ UNCHANGED child
  /\ UNCHANGED <<spec, out, heard, outcome, recorded, shown>>

(* A call with nothing to write goes on to collect what the child says. *)
AfterSpawn == IF spec.stdin THEN "writing" ELSE "collecting"

(* Mutant: a process the hook refused is left running. *)
LeaveRefused ==
  /\ at = "grouping"
  /\ \/ at' = AfterSpawn /\ recorded' = TRUE /\ UNCHANGED <<child, got>>
     \/ at' = "back" /\ got' = Refused /\ UNCHANGED <<child, recorded>>
  /\ UNCHANGED <<spec, out, heard, outcome, shown>>

(* The hook is asked again with the process; one it will not take is killed  *)
(* and waited for, and is not on the record.                                 *)
Group ==
  /\ at = "grouping"
  /\ \/ at' = AfterSpawn /\ recorded' = TRUE /\ UNCHANGED <<child, got>>
     \/ /\ at' = "back" /\ got' = Refused
        /\ child' = NoChild
        /\ UNCHANGED recorded
  /\ UNCHANGED <<spec, out, heard, outcome, shown>>

(* write_all: done once the pipe holds it or the child has read it. *)
WriteRequest ==
  /\ at = "writing"
  /\ spec.big => child.read
  /\ at' = IF spec.stream THEN "reading" ELSE "collecting"
  /\ UNCHANGED <<spec, process, got, shown>>

(* The child closed its stdin, or is gone: the call is over, and nobody      *)
(* stops the child or waits for it.                                          *)
WriteFails ==
  /\ at = "writing"
  /\ ~child.read
  /\ at' = "back"
  /\ got' = Got("unwritten", NoReport, Other, "nothing")
  /\ UNCHANGED <<spec, process, shown>>

(* wait_with_output, Running::finish: both pipes to their ends, then the     *)
(* status. A document is read whatever the status, where there is one.       *)
Collect ==
  /\ at = "collecting"
  /\ child.open = {} /\ child.at = "gone"
  /\ at' = "back"
  /\ child' = [child EXCEPT !.at = "reaped"]
  /\ got' \in Output
  /\ UNCHANGED <<spec, out, heard, outcome, recorded, shown>>

-----------------------------------------------------------------------------
(* read_stream, line by line. *)

Conclude(stage, how) == at' = stage /\ outcome' = how

(* What the observer of this attempt is told of. *)
Observed(line) ==
  \/ line \in Actions /\ spec.op = "respond"
  \/ line = "history" /\ spec.history

Hear(line) ==
  /\ heard' = IF line \in Actions THEN Append(heard, line) ELSE heard
  /\ shown' = IF Observed(line) /\ line \in Actions THEN Append(shown, line) ELSE shown

(* Mutant: the event the observer stopped on is dropped from the turn. *)
ReadEventOrStop ==
  /\ at = "reading"
  /\ out # <<>> /\ Head(out) \in Actions \cup {"history"}
  /\ out' = Tail(out)
  /\ \/ Hear(Head(out)) /\ UNCHANGED <<at, outcome>>
     \/ /\ Observed(Head(out)) /\ Conclude("grace1", "aborted")
        /\ shown' = IF Head(out) \in Actions THEN Append(shown, Head(out)) ELSE shown
        /\ UNCHANGED heard
  /\ UNCHANGED <<spec, child, recorded, got>>

(* The observer is handed each event as it is read and may stop the turn on  *)
(* it; the event it stops on is still one of the turn's.                     *)
ReadEvent ==
  /\ at = "reading"
  /\ out # <<>> /\ Head(out) \in Actions \cup {"history"}
  /\ out' = Tail(out)
  /\ Hear(Head(out))
  /\ \/ UNCHANGED <<at, outcome>>
     \/ Observed(Head(out)) /\ Conclude("grace1", "aborted")
  /\ UNCHANGED <<spec, child, recorded, got>>

ReadResult ==
  /\ at = "reading"
  /\ out # <<>> /\ Head(out) = "result"
  /\ out' = Tail(out)
  /\ Conclude("eof", "report")
  /\ UNCHANGED <<spec, child, heard, recorded, got, shown>>

(* read_line finds the end once nobody is left to write, whether or not the  *)
(* child is.                                                                 *)
EndOfStream == out = <<>> /\ "out" \notin child.open

(* A line the protocol does not know, an end without a result, or anything   *)
(* after the result.                                                         *)
Malformed ==
  \/ out # <<>> /\ Head(out) = "garbage"
  \/ out # <<>> /\ at = "eof"
  \/ at = "reading" /\ EndOfStream

ReadMalformed ==
  /\ at \in {"reading", "eof"}
  /\ Malformed
  /\ Conclude("grace1", "malformed")
  /\ out' = <<>>
  /\ UNCHANGED <<spec, child, heard, recorded, got, shown>>

(* A turn that reported is not torn down: its child is waited for as it is.  *)
ReadToEnd ==
  /\ at = "eof"
  /\ EndOfStream
  /\ at' = "waiting"
  /\ UNCHANGED <<spec, process, got, shown>>

-----------------------------------------------------------------------------
(* terminate, once the read end is dropped: a grace for the closed pipe, a   *)
(* signal, a grace for the signal, a kill. Then the child is waited for and  *)
(* its stderr joined.                                                        *)

Exited ==
  /\ at \in {"grace1", "grace2"}
  /\ child.at = "gone"
  /\ at' = "waiting"
  /\ UNCHANGED <<spec, process, got, shown>>

request_stop ==
  /\ at = "grace1"
  /\ child.at \in Alive
  /\ at' = "grace2"
  /\ UNCHANGED <<spec, process, got, shown>>

(* Mutant: the last rung waits for the child and never kills it. *)
TrustSignal ==
  /\ at = "grace2"
  /\ child.at \in Alive
  /\ at' = "waiting"
  /\ UNCHANGED <<spec, process, got, shown>>

(* A kill ends the child and nothing it started. *)
Kill ==
  /\ at = "grace2"
  /\ child.at \in Alive
  /\ at' = "waiting"
  /\ \E kept \in SUBSET child.open : child' = [child EXCEPT !.at = "gone", !.open = kept]
  /\ UNCHANGED <<spec, out, heard, outcome, recorded, got, shown>>

(* The wait has no bound of its own. *)
Wait ==
  /\ at = "waiting"
  /\ child.at = "gone"
  /\ at' = "joining"
  /\ child' = [child EXCEPT !.at = "reaped"]
  /\ UNCHANGED <<spec, out, heard, outcome, recorded, got, shown>>

(* An abandoned turn is what was heard of it; a report is read as a buffered *)
(* one is; a violation of the stream is an error with the child's own words. *)
Streamed ==
  CASE outcome = "aborted"   -> {Got("aborted", NoReport, Other, "nothing")}
    [] outcome = "report"    -> Output
    [] outcome = "malformed" -> {Failed(words) : words \in {"nothing"} \cup Refusals}

JoinStderr ==
  /\ at = "joining"
  /\ "err" \notin child.open
  /\ at' = "back"
  /\ got' \in Streamed
  /\ UNCHANGED <<spec, process, shown>>

-----------------------------------------------------------------------------
(* The child. Its steps are its own, and none is fair but the one that       *)
(* completes a write for which there is room.                                *)

(* Mutant: nobody drains stderr while the stream is read. *)
RoomForOneStream(pipe) ==
  CASE pipe = "out" -> \/ at \in Closed \cup {"collecting"}
                       \/ at \in {"reading", "eof"} /\ out = <<>>
    [] pipe = "err" -> at \in Closed \cup {"collecting"}

(* Whether somebody reads a pipe to its end, or its read end is dropped: a   *)
(* stream's stderr has a thread of its own from the end of the request on,   *)
(* and its stdout is read a line at a time.                                  *)
Room(pipe) ==
  CASE pipe = "out" -> \/ at \in Closed \cup {"collecting"}
                       \/ at \in {"reading", "eof"} /\ out = <<>>
    [] pipe = "err" -> at \in Closed \cup {"collecting", "reading", "eof"}

(* Once the call has dropped it, nothing more of it is followed. *)
Running == child.at \in Alive /\ at \notin {"idle", "back"}

Child(next) ==
  /\ child' = next
  /\ UNCHANGED <<at, spec, heard, outcome, recorded, got, shown>>

ChildReads ==
  /\ Running /\ at \notin {"grouping"} /\ spec.stdin /\ ~child.read /\ child.at = "up"
  /\ Child([child EXCEPT !.read = TRUE])
  /\ UNCHANGED out

(* More than the pipe holds, while the parent is not reading it. *)
ChildSticks ==
  /\ Running /\ child.at = "up"
  /\ \E pipe \in child.open :
       /\ ~Room(pipe)
       /\ Child([child EXCEPT !.at = IF pipe = "out" THEN "stuck_out" ELSE "stuck_err"])
  /\ UNCHANGED out

ChildGoesOn ==
  /\ Running
  /\ \/ child.at = "stuck_out" /\ Room("out")
     \/ child.at = "stuck_err" /\ Room("err")
  /\ Child([child EXCEPT !.at = "up"])
  /\ UNCHANGED out

(* A line of the stream. *)
ChildWrites ==
  /\ Running /\ spec.stream
  /\ child.at = "up" /\ child.read /\ "out" \in child.open
  /\ at \in {"writing", "reading", "eof"}
  /\ out = <<>> /\ child.lines < MAX_LINES[spec.op]
  /\ \E line \in Written[spec.op] : out' = <<line>>
  /\ Child([child EXCEPT !.lines = @ + 1])

(* It may say that it has no more to say and live on. That it closes its     *)
(* stderr early nobody can tell: stderr is joined when it is gone.           *)
ChildCloses ==
  /\ Running /\ child.at = "up" /\ "out" \in child.open
  /\ Child([child EXCEPT !.open = @ \ {"out"}])
  /\ UNCHANGED out

(* What it started may keep what it had open. *)
ChildExits ==
  /\ Running
  /\ \E kept \in SUBSET child.open : Child([child EXCEPT !.at = "gone", !.open = kept])
  /\ UNCHANGED out

HeirLeaves ==
  /\ child.at \in {"gone", "reaped"} /\ child.open # {}
  /\ \E kept \in SUBSET child.open :
       kept # child.open /\ Child([child EXCEPT !.open = kept])
  /\ UNCHANGED out

ChildStep ==
  \/ ChildReads \/ ChildSticks \/ ChildGoesOn \/ ChildWrites \/ ChildCloses
  \/ ChildExits \/ HeirLeaves

ProcessStep ==
  \/ Create \/ Group \/ WriteRequest \/ WriteFails \/ Collect
  \/ ReadEvent \/ ReadResult \/ ReadMalformed \/ ReadToEnd
  \/ Exited \/ request_stop \/ Kill \/ Wait \/ JoinStderr
===============================================================================
