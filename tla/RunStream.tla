------------------------------- MODULE RunStream ------------------------------
(***************************************************************************)
(* The stream a run publishes for `onejudge watch` and the processes that  *)
(* write and follow it (src/crates/onejudge/src/cli/watch.rs and the run   *)
(* and watch commands of cli/mod.rs). Runs and watchers are processes of   *)
(* their own; what they share is a directory: a document that names the    *)
(* session's run, and a log per run.                                       *)
(*                                                                         *)
(* All runs here have one session name. What happens inside a run is its   *)
(* observations, in order, and how `execute` comes back.                   *)
(*                                                                         *)
(* The directory is the external onemessagebus LocalTransport, modelled    *)
(* from its use: a document is replaced at once, an append adds one whole  *)
(* record and makes the log when there is none, and reading a log that is  *)
(* not there fails or finds nothing.                                       *)
(***************************************************************************)
EXTENDS Naturals, Sequences

CONSTANTS
  Runs,            \* runs of the session
  Watchers,        \* processes that follow it
  NoRun,           \* what a document that is not there names
  Formats,         \* how a run may write its own output
  MaxObservations, \* observations a run may make
  READ_BATCH,      \* records a follower reads at once
  Summaries,       \* the exit codes `execute` may come to, 2 for a failure
  BreaksAt,        \* where a run's own output may stop accepting what it writes
  BusFails         \* the directory may refuse what is written to it

ASSUME StreamAssumption ==
  /\ NoRun \notin Runs
  /\ Formats \subseteq {"text", "json", "stream"}
  /\ MaxObservations \in Nat
  /\ Summaries \subseteq 0 .. 2
  /\ READ_BATCH \in Nat \ {0}
  /\ BreaksAt \subseteq {"observation", "end"} /\ BusFails \in BOOLEAN

VARIABLES
  current,   \* the run the session's document names
  log,       \* each run's log
  removed,   \* runs whose log a later run removed
  pc,        \* where each run's process is
  format,    \* what it was asked to write
  previous,  \* the run it found in the document when it started
  publisher, \* whether it has a stream, and whether a publish failed
  broken,    \* runs whose output broke under an observation
  code,      \* what `execute` came to: an exit code, 2 for a failure
  exit,      \* what the process exited with
  watcher,   \* each follower
  emitted    \* history: what each run had to publish, in order

files   == <<current, log, removed>>
run     == <<pc, format, previous, publisher, broken, code, exit>>
history == <<emitted>>
vars == <<files, run, watcher, history>>

Unset == 3
ExitCodes == 0 .. 2

Record(r, ends, c) == [of |-> r, nth |-> Len(emitted[r]) + 1, ends |-> ends, code |-> c]
Records == [of : Runs, nth : Nat \ {0}, ends : BOOLEAN, code : ExitCodes \cup {Unset}]

PCs == {"built", "read", "replace", "remove", "running", "executed", "written", "exited"}
Publishers == {"none", "open", "failed"}

Idle == [at |-> "waiting", on |-> NoRun, position |-> 0, seen |-> <<>>, code |-> Unset]
WatcherStates ==
  {Idle} \cup
  [at : {"reading", "checking", "pausing", "told", "newer", "failed"}, on : Runs,
   position : Nat, seen : Seq(Records), code : ExitCodes \cup {Unset}]

TypeOK ==
  /\ current \in Runs \cup {NoRun}
  /\ log \in [Runs -> Seq(Records)]
  /\ removed \subseteq Runs
  /\ pc \in [Runs -> PCs]
  /\ format \in [Runs -> Formats]
  /\ previous \in [Runs -> Runs \cup {NoRun}]
  /\ publisher \in [Runs -> Publishers]
  /\ broken \subseteq Runs
  /\ code \in [Runs -> ExitCodes \cup {Unset}]
  /\ exit \in [Runs -> ExitCodes \cup {Unset}]
  /\ watcher \in [Watchers -> WatcherStates]
  /\ emitted \in [Runs -> Seq(Records)]

Init ==
  /\ current = NoRun
  /\ log = [r \in Runs |-> <<>>]
  /\ removed = {}
  /\ pc = [r \in Runs |-> "built"]
  /\ format \in [Runs -> Formats]
  /\ previous = [r \in Runs |-> NoRun]
  /\ publisher = [r \in Runs |-> "none"]
  /\ broken = {}
  /\ code = [r \in Runs |-> Unset]
  /\ exit = [r \in Runs |-> Unset]
  /\ watcher = [w \in Watchers |-> Idle]
  /\ emitted = [r \in Runs |-> <<>>]

GoTo(r, l) == pc' = [pc EXCEPT ![r] = l]

-----------------------------------------------------------------------------
(* Publisher::start, one step per file it touches. A directory that cannot  *)
(* be opened or written leaves the run without a stream, and running.       *)

OpenStream(r) ==
  /\ pc[r] = "built"
  /\ \/ GoTo(r, "read")
     \/ BusFails /\ GoTo(r, "running")
  /\ UNCHANGED <<files, format, previous, publisher, broken, code, exit, watcher, history>>

ReadPrevious(r) ==
  /\ pc[r] = "read"
  /\ \/ previous' = [previous EXCEPT ![r] = current]
     \/ BusFails /\ UNCHANGED previous
  /\ GoTo(r, "replace")
  /\ UNCHANGED <<files, format, publisher, broken, code, exit, watcher, history>>

(* Mutant: the earlier log goes before the document has moved off it. *)
RemoveThenReplace(r) ==
  /\ pc[r] = "replace"
  /\ \/ /\ previous[r] \notin removed \cup {NoRun}
        /\ removed' = removed \cup {previous[r]}
        /\ log' = [log EXCEPT ![previous[r]] = <<>>]
        /\ UNCHANGED <<current, pc>>
     \/ /\ previous[r] \in removed \cup {NoRun}
        /\ current' = r
        /\ GoTo(r, "remove")
        /\ UNCHANGED <<log, removed>>
  /\ UNCHANGED <<format, previous, publisher, broken, code, exit, watcher, history>>

ReplaceDocument(r) ==
  /\ pc[r] = "replace"
  /\ \/ current' = r /\ GoTo(r, "remove")
     \/ BusFails /\ GoTo(r, "running") /\ UNCHANGED current
  /\ UNCHANGED <<log, removed, format, previous, publisher, broken, code, exit, watcher,
                 history>>

(* Mutant: whatever run the document names by now is taken for the earlier. *)
NamedByNow(r) == current

(* The run whose log goes with it. *)
Superseded(r) == previous[r]

RemovePrevious(r) ==
  /\ pc[r] = "remove"
  /\ publisher' = [publisher EXCEPT ![r] = "open"]
  /\ previous' = [previous EXCEPT ![r] = NoRun]
  /\ GoTo(r, "running")
  /\ IF Superseded(r) \in Runs \ {r}
     THEN /\ removed' = removed \cup {Superseded(r)}
          /\ log' = [log EXCEPT ![Superseded(r)] = <<>>]
     ELSE UNCHANGED <<removed, log>>
  /\ UNCHANGED <<current, format, broken, code, exit, watcher, history>>

-----------------------------------------------------------------------------
(* Published::observation and its terminal record, through                  *)
(* Publisher::publish: the first append that fails is the last one tried.   *)

(* Mutant: an append that failed is not the last. *)
PublishRegardless(r, record) ==
  /\ emitted' = [emitted EXCEPT ![r] = Append(@, record)]
  /\ \/ log' = [log EXCEPT ![r] = Append(@, record)] /\ UNCHANGED publisher
     \/ BusFails /\ publisher' = [publisher EXCEPT ![r] = "failed"] /\ UNCHANGED log

Publish(r, record) ==
  /\ emitted' = [emitted EXCEPT ![r] = Append(@, record)]
  /\ \/ /\ publisher[r] = "open"
        /\ log' = [log EXCEPT ![r] = Append(@, record)]
        /\ UNCHANGED publisher
     \/ /\ publisher[r] = "open" /\ BusFails
        /\ publisher' = [publisher EXCEPT ![r] = "failed"]
        /\ UNCHANGED log
     \/ publisher[r] # "open" /\ UNCHANGED <<log, publisher>>

(* An observation is published, then written; a run whose output no longer  *)
(* accepts it is stopped there. A JSON run writes nothing until its end.    *)
Observe(r) ==
  /\ pc[r] = "running" /\ r \notin broken /\ Len(emitted[r]) < MaxObservations
  /\ Publish(r, Record(r, FALSE, Unset))
  /\ \/ UNCHANGED broken
     \/ "observation" \in BreaksAt /\ format[r] # "json" /\ broken' = broken \cup {r}
  /\ UNCHANGED <<current, removed, pc, format, previous, code, exit, watcher>>

(* `execute` comes back, with a summary or with a failure: the criterion    *)
(* and the evals are judged whether the loop ended or was stopped.          *)
Execute(r) ==
  /\ pc[r] = "running"
  /\ \E c \in Summaries : code' = [code EXCEPT ![r] = c]
  /\ GoTo(r, "executed")
  /\ UNCHANGED <<files, format, previous, publisher, broken, exit, watcher, history>>

(* A streaming run that was stopped returns before it publishes its end.    *)
Unpublished(r) == format[r] = "stream" /\ r \in broken /\ code[r] # 2

PublishEnd(r) ==
  /\ pc[r] = "executed"
  /\ IF Unpublished(r) THEN UNCHANGED <<log, publisher, history>>
     ELSE Publish(r, Record(r, TRUE, code[r]))
  /\ GoTo(r, "written")
  /\ UNCHANGED <<current, removed, format, previous, broken, code, exit, watcher>>

(* Mutant: only what is written at the end decides. *)
WroteTheEnd(r, c) == c = code[r] \/ ("end" \in BreaksAt /\ c = 2)

(* The process exits as `execute` came back, unless its output broke on the *)
(* way or breaks under what is written last.                                *)
ExitsWith(r, c) ==
  IF r \in broken THEN c = 2 ELSE c = code[r] \/ ("end" \in BreaksAt /\ c = 2)

Exit(r) ==
  /\ pc[r] = "written"
  /\ \E c \in ExitCodes : ExitsWith(r, c) /\ exit' = [exit EXCEPT ![r] = c]
  /\ GoTo(r, "exited")
  /\ UNCHANGED <<files, format, previous, publisher, broken, code, watcher, history>>

-----------------------------------------------------------------------------
(* follow.                                                                  *)

(* Mutant: the document is asked again for the log to read. *)
FollowedNow(w) == current

Followed(w) == watcher[w].on

(* Mutant: a follower waits on the log it was given. *)
NeverReplaced(w) == FALSE

Replaced(w) == current # Followed(w)

Becomes(w, s) == watcher' = [watcher EXCEPT ![w] = s]
Leaves(w, how) == Becomes(w, [watcher[w] EXCEPT !.at = how])

(* Mutant: a session that has no document yet is followed at once. *)
FindAnyRun(w) ==
  /\ watcher[w].at = "waiting"
  /\ Becomes(w, [Idle EXCEPT !.at = "reading", !.on = current])
  /\ UNCHANGED <<files, run, history>>

(* The run that started last is found, once there is one. *)
FindRun(w) ==
  /\ watcher[w].at = "waiting" /\ current # NoRun
  /\ Becomes(w, [Idle EXCEPT !.at = "reading", !.on = current])
  /\ UNCHANGED <<files, run, history>>

Batch(w) ==
  LET all  == log[Followed(w)]
      from == watcher[w].position
  IN  SubSeq(all, from + 1, IF Len(all) < from + READ_BATCH THEN Len(all) ELSE from + READ_BATCH)

(* The records of one read are handed on one by one, up to the first that   *)
(* ends the run.                                                            *)
HandedOn(batch, k) ==
  /\ batch[k].ends \/ k = Len(batch)
  /\ \A i \in 1 .. k - 1 : ~batch[i].ends

ReadRecords(w) ==
  /\ watcher[w].at = "reading"
  /\ LET batch == Batch(w)
     IN  \E k \in DOMAIN batch :
           /\ HandedOn(batch, k)
           /\ Becomes(w, [watcher[w] EXCEPT
                !.position = @ + k, !.seen = @ \o SubSeq(batch, 1, k), !.code = batch[k].code,
                !.at = IF batch[k].ends THEN "told" ELSE "reading"])
  /\ UNCHANGED <<files, run, history>>

ReadNothing(w) ==
  /\ watcher[w].at = "reading" /\ Batch(w) = <<>>
  /\ Leaves(w, "checking")
  /\ UNCHANGED <<files, run, history>>

(* A log that is not there: the run was replaced, or the read failed. *)
Absent(w) == Followed(w) \in removed /\ log[Followed(w)] = <<>>

ReadFails(w) ==
  /\ watcher[w].at = "reading" /\ Absent(w)
  /\ Leaves(w, IF Replaced(w) THEN "newer" ELSE "failed")
  /\ UNCHANGED <<files, run, history>>

CheckReplaced(w) ==
  /\ watcher[w].at = "checking"
  /\ Leaves(w, IF Replaced(w) THEN "newer" ELSE "pausing")
  /\ UNCHANGED <<files, run, history>>

(* The log's fingerprint is taken and waited on, at most for FOLLOW_POLL. *)
Pause(w) ==
  /\ watcher[w].at = "pausing"
  /\ \/ Leaves(w, "reading")
     \/ Absent(w) /\ Leaves(w, "failed")
  /\ UNCHANGED <<files, run, history>>

-----------------------------------------------------------------------------
RunStep(r) ==
  \/ OpenStream(r) \/ ReadPrevious(r) \/ ReplaceDocument(r) \/ RemovePrevious(r)
  \/ Observe(r) \/ Execute(r) \/ PublishEnd(r) \/ Exit(r)

WatcherStep(w) ==
  \/ FindRun(w) \/ ReadRecords(w) \/ ReadNothing(w) \/ ReadFails(w)
  \/ CheckReplaced(w) \/ Pause(w)

(* Every run is over and every watcher has left, or waits for a first run.   *)
Rest ==
  /\ \A r \in Runs : pc[r] = "exited"
  /\ \A w \in Watchers :
       watcher[w].at \in {"told", "newer", "failed"} \/ (watcher[w].at = "waiting" /\ current = NoRun)
  /\ UNCHANGED vars

Next ==
  \/ \E r \in Runs : RunStep(r)
  \/ \E w \in Watchers : WatcherStep(w)
  \/ Rest

Spec == Init /\ [][Next]_vars

(* A follower keeps polling. Nothing makes a run start, or go on: one whose  *)
(* process is killed is one that takes no further step.                      *)
Fairness == \A w \in Watchers : WF_vars(WatcherStep(w))
FairSpec == Spec /\ Fairness
=============================================================================
