-------------------------- MODULE RunStreamProperties -------------------------
(***************************************************************************)
(* What the stream of a session owes whoever follows it, and what a run    *)
(* owes its stream.                                                        *)
(***************************************************************************)
EXTENDS RunStream

Ended(w) == watcher[w].at \in {"told", "newer", "failed"}
PrefixOf(s, t) == Len(s) <= Len(t) /\ \A i \in DOMAIN s : s[i] = t[i]

(* "One log per session name is kept": whichever runs start at once, the    *)
(* log that goes is never that of the run the session's document names,     *)
(* the one that watchers are sent to.                                       *)
CurrentLogStands == current \notin removed

(* A run's log is what the run had to say, from its first observation and   *)
(* with none left out: a stream that failed once stays cut off, and never   *)
(* goes on after a gap.                                                     *)
StreamHasNoGaps == \A r \in Runs \ removed : PrefixOf(log[r], emitted[r])

(* "A watch never mixes an earlier run's observations into the current      *)
(* one's": what a watcher was handed is of one run and in that run's order, *)
(* from its first observation while its log stands; nothing is handed on    *)
(* after the record that ended the run.                                     *)
WatchersSeeOneRun ==
  \A w \in Watchers :
    LET seen == watcher[w].seen IN
    /\ \A i \in DOMAIN seen :
         /\ seen[i].of = watcher[w].on
         /\ seen[i].ends => i = Len(seen)
         /\ \A k \in DOMAIN seen : k < i => seen[k].nth < seen[i].nth
    /\ watcher[w].on \in Runs \ removed => PrefixOf(seen, emitted[watcher[w].on])

(* Nobody is sent away from the run the session is on: a watcher is told of *)
(* a newer run, or fails on its log, only when there is a newer run.        *)
LeavesOnlyReplaced ==
  \A w \in Watchers : watcher[w].at \in {"newer", "failed"} => watcher[w].on # current

(* A run that succeeds told its watchers so: its output took everything it  *)
(* wrote, and success is the last record of a stream that never failed. A   *)
(* run whose reader went away is not reported as one that succeeded.        *)
LastSaid(r) == emitted[r][Len(emitted[r])]
SuccessIsTold ==
  \A r \in Runs :
    exit[r] = 0 =>
      /\ r \notin broken
      /\ emitted[r] # <<>> /\ LastSaid(r).ends /\ LastSaid(r).code = 0
      /\ publisher[r] = "open" /\ r \notin removed => log[r] = emitted[r]

(* A watcher of a run that published its end, or was replaced, leaves.      *)
EndPublished(r) == \E i \in DOMAIN log[r] : log[r][i].ends

WatchersLeave ==
  \A w \in Watchers :
    watcher[w].on # NoRun /\ (current # watcher[w].on \/ EndPublished(watcher[w].on)) ~> Ended(w)

-----------------------------------------------------------------------------
(* Why they hold: the inductive invariant. A run that has not yet written   *)
(* itself to the document is known to nobody; one that has never does       *)
(* again, so a run the document has moved off stays replaced.               *)
Unnamed == {r \in Runs : pc[r] \in {"built", "read", "replace"}}

OnlyNamedAreKnown ==
  /\ current \notin Unnamed
  /\ removed \cap Unnamed = {}
  /\ \A r \in Runs : previous[r] \notin Unnamed
  /\ \A w \in Watchers : watcher[w].on \notin Unnamed

SupersededIsPast == \A r \in Runs : pc[r] = "remove" => previous[r] # current

DocumentInv ==
  OnlyNamedAreKnown /\ SupersededIsPast /\ CurrentLogStands /\ LeavesOnlyReplaced

(* A log is all its run had to say while nothing failed, and nothing before *)
(* the run began to say it.                                                 *)
Unopened == {r \in Runs : pc[r] \in {"built", "read", "replace", "remove"}}

NothingSaidYet == \A r \in Unopened : emitted[r] = <<>> /\ log[r] = <<>>
OpenIsComplete == \A r \in Runs \ removed : publisher[r] = "open" => log[r] = emitted[r]

LogInv == NothingSaidYet /\ OpenIsComplete /\ StreamHasNoGaps

(* The records of a log are its run's own and in its order, also in a log   *)
(* that a run whose first one was removed makes again; and what is ahead of *)
(* a follower in the log it follows, the run said after all it has seen.    *)
OwnRecords ==
  \A r \in Runs : \A i \in DOMAIN log[r] :
    /\ log[r][i].of = r /\ log[r][i].nth <= Len(emitted[r])
    /\ \A k \in DOMAIN log[r] : k < i => log[r][k].nth < log[r][i].nth

SeenInOrder(w) ==
  LET seen == watcher[w].seen IN
  \A i \in DOMAIN seen :
    /\ seen[i].of = watcher[w].on
    /\ seen[i].ends => i = Len(seen) /\ watcher[w].at = "told"
    /\ \A k \in DOMAIN seen : k < i => seen[k].nth < seen[i].nth

UpToPosition(w) ==
  LET s == watcher[w] IN
  /\ s.position = Len(s.seen) /\ (s.on = NoRun => s.seen = <<>>)
  /\ s.on \in Runs =>
       \A k \in DOMAIN s.seen :
         /\ s.seen[k].nth <= Len(emitted[s.on])
         /\ \A i \in DOMAIN log[s.on] : i > s.position => s.seen[k].nth < log[s.on][i].nth
  /\ s.on \in Runs \ removed => PrefixOf(s.seen, log[s.on])

SeenInv == OwnRecords /\ \A w \in Watchers : SeenInOrder(w) /\ UpToPosition(w)

(* What a run that came back has said, and what it exited with.             *)
SaidItsEnd(r) == emitted[r] # <<>> /\ LastSaid(r).ends /\ LastSaid(r).code = code[r]

EndInv ==
  \A r \in Runs :
    /\ pc[r] \in {"written", "exited"} /\ ~Unpublished(r) => SaidItsEnd(r)
    /\ exit[r] # Unset => pc[r] = "exited" /\ ExitsWith(r, exit[r])

-----------------------------------------------------------------------------
(* docs/cli.md: watch "follows it to the result and exits with the run's    *)
(* own exit code": a run that exited, and could publish all along, left its *)
(* own exit code as the last record of its stream.                          *)
RunsPublishTheirExit ==
  \A r \in Runs :
    pc[r] = "exited" /\ publisher[r] = "open" =>
      emitted[r] # <<>> /\ LastSaid(r).ends /\ LastSaid(r).code = exit[r]
=============================================================================
