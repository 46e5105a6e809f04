# onejudge: models, checks and proofs

onejudge drives a conversation between a *worker* (a coding agent run through
`oneharness`, or any command that speaks its protocol) and a simulated user, the
*supervisor*, who decides after every worker turn whether the work is done. The
finished transcript is then scored by judges. This directory holds TLA+ models of
the parts of it that run concurrently or may fail half-way and of the decisions a run
rests on, the TLC configurations that check them on small instances, and TLAPS proofs
of what they promise.

Five specifications stand beside each other, each with a module of properties, a module
of instances for TLC and proofs:

| specification | of | properties | TLC | proofs |
|---|---|---|---|---|
| `Conversation` (with `NoteInbox`, `NoopStreak`) | the loop of `engine.rs`, the watch of `interrupt.rs`, the note channel | `ConversationProperties`, `NoteContract` | `MCConversation` | `ConversationProofs`, `DeliveryProofs` |
| `JudgePanel` | `panel.rs` and what the engine does with it | `JudgePanelProperties` | `MCJudgePanel` | `JudgePanelProofs` |
| `RunStream` | `cli/watch.rs` and the run and watch commands | `RunStreamProperties` | `MCRunStream` | `RunStreamProofs` |
| `HarnessCall` (with `ChildProcess`, `JudgeReply`, `HarnessReport`, `ToolEvents`) | one call of a provider: `oneharness/`, `command.rs`, `llmlint.rs`, `spawn.rs`, `stream.rs`, the re-ask and the evidence loop of `provider.rs` | `HarnessCallProperties`, `TurnContract` | `MCHarnessCall` | `HarnessCallProofs` |
| `RunPlan` (with `PlanConfig`, `Posture`, `AnyProvider`, `NoteAdmission`) | a run of the command line from its configuration to its exit code: `cli/config.rs`, `cli/provider.rs`, `execute` of `cli/mod.rs`, `telemetry.rs`, `usage.rs`, what a note may be | `RunPlanProperties` | `MCRunPlan` | `RunPlanProofs`, `CriterionProofs`, `SpendingProofs` |

`PROJECT.json` says of every definition which lines it models, of every property
which change of the code it would catch, and lists the components, the hazards and
the disagreements found.

## The system

Paths are under `src/crates/onejudge/src/`.

**Conversation loop** (`engine.rs`). State: the transcript, the number of assistant
turns, the record of delivered notes, the senders held for a decision, the notes the
worker has yet to see, the no-op streak, telemetry. `Engine::run*` build a
conversation; `converse` runs `drive` and closes the note channel whichever way it
comes back; `drive` alternates a worker call and a supervisor call, delivers queued
notes between turns, takes a decision again when a note arrived while it was being
made, and ends on completion, on a decision with no instruction, on a settled no-op
streak, at the turn cap, when the observer says stop, or with an error. Hard: every
one of those ways out may happen with senders still held, in an order fixed by the
code and visible to other threads. Right when every sender is told what happened to
its note exactly once, when what it is told agrees with what each party was shown,
when a decision counts only if taken with every delivered note in hand, and when the
loop ends.

**Note channel** (`note.rs`, over the external `onemessagebus`). State: the queue and
each message's fate. Senders send, wait (perhaps with a deadline) and may withdraw;
the engine and the watch take, release and answer; closing refuses what is queued.
Hard: all of it races. Right when it keeps `NoteContract`.

**Interrupt watch** (`interrupt.rs`, `control.rs`). One thread beside each live turn
that has a control socket. It polls the queue for notes that may interrupt this
party, frames every one presented so far into a redirect, sends it through the
socket, and hands a refused one back. Hard: it shares the inbox with the engine, its
redirects take effect before the engine knows of them, and `thread::scope` waits for
it. Right when a note is only ever held by one of the two and when it always ends.

**Judge panel** (`panel.rs`). State: the decisions recorded and not yet drained. Each
operation runs every selected judge on a thread of its own, awaits all and combines
what they returned; a streaming supervise lets judges ask the caller's observer
through a channel and a rendezvous reply. Hard: failure, panic and stop of some
threads while others go on or wait for a reply. Right when no thread outlives its
call, nobody deadlocks, a stop is obeyed, a failed judge is never read as a pass and
the record belongs to the run and turn it names.

**Run stream and watch** (`cli/watch.rs`, `cli/mod.rs`). State: a directory with one
document per session, naming its current run, and one log per run. A run moves the
document to itself, removes the log of the run it found there, appends one record per
observation and one that ends the run; `watch` finds the run, reads from the start,
and leaves when it is told the end or the document moved on. Hard: these are separate
processes that start and die at any time, over files any of which may fail. Right when
a watcher sees one run, in order and without gaps, is never sent away from the current
one, is told the run's own exit code, and leaves.

**Provider calls** (`provider.rs`, `command.rs`, `llmlint.rs`, `spawn.rs`, `stream.rs`,
`oneharness/`). State: the processes spawned, the telemetry, what each party can say of
out-of-band control, the record of a supervisor decision, the link to a finished lint
run. A call spawns a process or runs the linked library, writes a request, reads a
document or a stream of events and then the document, and waits. Around that, the
oneharness provider drops the one thing an attempt was refused for and tries again, a
judge may ask for evidence, and a supervisor whose answer is unusable is asked again.
Hard: pipes that fill, hooks that fail after the process exists, an observer that stops
the turn at any event, a child that ignores being stopped, and three retry loops nested
in one another. Right when a call leaves no process behind, cannot wait for a child that
waits for it, keeps what it told its observer, reports an address only if the last turn
was controlled at it, and accounts for every report it read.

**Run plan** (`cli/config.rs`, `cli/provider.rs`, `cli/mod.rs`, `bin/onejudge.rs`,
`skill.rs`, `posture.rs`, `telemetry.rs`, `usage.rs`, `report.rs`, the criteria of
`note.rs`). A plan is made of three layers (file, environment, flags), validated, and
built into a tree of providers. `execute` runs the engine, judges the criterion again
over the finished transcript, runs the evals and the assessment, and reports. Hard: the
layers meet in many combinations, what a backend cannot do is found at the end of a paid
run unless it is refused at its start, and what was spent is collected from a tree along
several ways out. Right when an accepted plan can be carried out, no override is lost,
an exit code of 0 was earned, and everything spent is reported once.

**Left out**: the YAML and number parsing, generated schemas, error types and their
messages, the text of transcripts, prompts and notes, the attribution read back from a
harness's history file (`oneharness/history.rs`), argument vectors (`oneharness/turn.rs`)
and request frames; the `init` and `schema` commands; the trait's default `supervise`
and `simulate_user` of a panel, which nothing in the crate calls; the Python SDK, which
starts the binary and parses its output; build, release and repository tooling; test
doubles. These are data that does not change over time, or code outside the running
program.

How they interact: the engine calls a provider (a panel, a split of two, a command,
oneharness) synchronously; the provider calls the engine back with events and
observations, and any of these callbacks may answer stop or panic; the watch thread
shares the inbox and the redirect list with the engine; senders and watchers are
threads and processes of the caller. The `Conversation` model takes the provider as
anything that may return; `JudgePanel` takes the judges' providers so, and the engine
reduced to what it does with a panel; `RunStream` takes the engine as a sequence of
observations and an exit code; `HarnessCall` takes the engine as an observer that may
stop a turn at any event; `RunPlan` takes a whole turn, a call and a panel's answer as one
step each. Composing them would multiply states and add no interaction: what passes
between them is the call's result and the observer's answer, which each model takes from
the other as any value the other can produce.

## Conversation

`pc` is where the engine's thread is. Between two of its values the engine touches
nothing another thread can see change, so each value but `worker` and `judge` stands
for a stretch of `drive`; at those two the engine is inside a provider call, the watch
and the senders go on, and the call comes back with any answer it can give. The
transcript is kept as the number of assistant turns and, per note, whether it is in a
user message. What was not needed to tell the properties apart is abstract: texts are
one of two values (two notes with the same text matter, since the watch tells notes it
passed over by content), messages have no wording.

`NoteInbox` is the channel: `fate[n]` goes from `unsent` through `queued` and `taken`
to an outcome. It is external code, modelled from how `note.rs`, `interrupt.rs` and
`engine.rs` use it. `dropped` is the fate of a handle that was let go without an
answer: nobody will tell its sender anything. `NoopStreak` is the streak's `observe`, with
a reply read as whether it used tools, was tiny, and what it said.

The actions follow `drive` from its top (`DeliverQueued`, `OpenWorkerTurn`,
`WorkerReturns`, `WorkerReplied` or `WorkerFailed`, `LostDecided`, `TurnEndNotes`,
`OpenSupervisorTurn`, `BeginAttempt`, `JudgeReturns`, `JudgeStopped` or
`JudgeAnswered`, `RetakeDecision`, `SettleDecision`, `Decided`) to `CloseInbox` and the
drops; `WatchConnects` to `WatchEnds` follow `Watch::run`; `Offer`, `Withdraw` and
`DeadlinePasses` are the senders.

| run | instance | shows |
|---|---|---|
| `conversation` | 2 interchangeable notes, each an interrupt to both parties in one of two texts or one that waits for the turn's end; cap of 3 turns; observer that stops or panics | 9 properties and the refinement, on 1.4 million states |
| `conversation_live` | 2 notes, cap 2, observer that stops | senders are answered; the run ends |
| `lost_turns`, `panicked_watch`, `lost_redirect`, `stopped_judge` | 1 note, cap 2 | the four disagreements below |

Why that is enough: a hazard here is between at most two notes (one being held while
another arrives, or two in one redirect); three turns let a note arrive before, during
and after a decision that is then taken again; two exchanges make or break a streak
whose limit is set to 2.

The properties: `Custody` (a note taken is in exactly one pair of hands, and no other
note in any), `NobodyLeftWaiting` (a closed channel leaves no note untold, and lets a sender
go without an answer only when its note redirected the very supervisor turn that a history
observation stopped: the case `stopped_judge` shows), `RecordAgreesWithAnswers`,
`HandedOnce` (a note reaches the worker once, by whichever of three routes, is there
before it works on, and never if the finished run was judged with it),
`DecidedWithEverything`, `FramedOnlyTaken`, `InterruptedOnlyAsAsked`; of steps, `AnswersAreFinal` and
`NothingAcceptedAfterJudgedWith`; `KeepsContract` is the refinement of `NoteContract`,
where a note is only waiting, held, counted towards a decision or told, one that is
counted can only be accepted, and the channel closes only when nobody holds a note. A note
counts while its sender is in `AwaitingDecision`; without that type's `Drop`, both
`NobodyLeftWaiting` and `KeepsContract` fail.
`SendersAnswered` takes a sender let go of as no longer waiting; `NobodyLeftWaiting` says who
that can be. `JudgedWithMeansCompleted` is stated and not checked: the repository does
not say which of its two readings is meant when the observer stops a run on the very
turn that completed it.

Fairness: weak, of the engine's and of the watch's steps. Both are threads that are
never blocked for ever by anything the code does other than what the models contain; a
provider call is assumed to return, which its own time limits and not onejudge ensure.
Senders have none: one need never send, withdraw or give up. `ConversationEnds` is
conditional on worker turns being lost only finitely often; `lost_turns` shows what
happens otherwise.

## Judge panel

`caller` is the calling thread (idle, receiving, joining, unwinding, and how the call
ended), `at[j]` each judge's thread. `JudgeAsks` sends a request and blocks on its
reply; `ReceiveRequest` answers it, asking the observer unless it already said stop;
the loop ends when the last sender is dropped (`ReceiveEnds`); `Join` combines. An
observer that panics unwinds through the receiving loop while judges still wait
(`ObserverPanicked`, `ToldGone`, `Unwinds`), and a judge's panic is carried to the
caller once all were joined. `Combined` is the table of answers: per operation, what a
list of results comes to. `Drain`, `StopUndrained`, `Scored` and `NewRun` are the
engine's side of the decisions' record.

`judge_panel` checks panels of one, two and three judges that make 3, 2 and 1 calls
(two calls show what one leaves to the next; three judges, every row of the table of
answers), two candidates a judge, two scores, two turns, observers and judges that
panic: 564,000 states. `undrained_stop` is the disagreement below.

The properties: `EveryJudgeAwaited`, `NotAskedAfterBreak`, `EveryCandidateWasSeen`,
`AnswerSpeaksForAll`, `OneEntryPerTurn`, `RecordIsThisRuns`, and `CallsEnd`. Fairness:
weak, of the panel's and the engine's steps; again a judge's provider is assumed to
return.

## Run stream

`pc[r]` is where the process of run `r` is, `watcher[w]` each follower. Starting a
stream is four steps, one per file touched, because two runs may be between any two of
them; any of them may fail and leave the run without a stream. `Publish` appends one
record or fails, and a failed stream stays cut off. `Observe` publishes and then writes,
and a text or streaming run whose reader has left is stopped there. `PublishEnd` and `Exit` are the
end; `code` is what `execute` came to, `exit` what the process exited with. `FindRun`,
`ReadRecords`, `ReadNothing`, `ReadFails`, `CheckReplaced` and `Pause` are `follow`. A
run that is killed is one that takes no further step: runs have no fairness, watchers
have weak fairness, since a follower polls and its polls come back.

`run_stream` checks two runs of one session, a watcher, one observation each, batches of
two and every failure: 825,000 states. Two runs are what the start races over; a third
would be superseded in the same ways. A log then has at most two records, read in one
batch or in two. `watch_exit` is the disagreement below; it takes the two runs as
interchangeable.

The properties: `CurrentLogStands`, `StreamHasNoGaps`, `WatchersSeeOneRun`,
`LeavesOnlyReplaced`, `SuccessIsTold` and `WatchersLeave` (liveness, for watchers of a
run that published its end or was replaced: the code promises nothing to a watcher of a
run that was killed).

## One provider call

`ChildProcess` is one process of one attempt: the parent's thread (`at`: spawning, writing,
collecting or reading, the two grace periods of `terminate`, waiting, joining the stderr
thread) against a child that onejudge does not control. A pipe is full or has room. The
child may write before it reads, write more than a pipe holds, close its stdin, close its
stdout and live on, exit at any time with any status, ignore a closed stdout and a signal,
and leave behind a process (an heir) that keeps either of its pipes open: `child.open` is the
pipes that still have a writer, and a read meets the end of one that has none, whether the
child is gone or not. Stderr is only joined once the child is gone, so closing that early is
nothing anybody can tell. `HarnessReport` reads a document: which candidate
ran and how it failed. `JudgeReply` reads an answer: a request for evidence, a decision,
a verdict. `ToolEvents` is which events of a turn are tools. `HarnessCall` is the call around the attempts: `Begin` with what is refused
before anything runs, `EnterLadder` and `Retry` for the rungs (controlled, in the session,
plain), `LibraryEvent` and `LibraryReturns` for the linked engine, `Worked`, `Look`,
`Supervised` and `Scored` for the ways it is answered, `Fail`, and what the engine does
between calls (`reset_telemetry`, `TakeRecord`). A document is chosen when the child has
exited, since nobody reads it earlier. Telemetry is kept for the call in flight: what
earlier calls added is never changed, only reset.

| run | instance | shows |
|---|---|---|
| `harness_call` | a controlled streaming oneharness, a plain one, one in process, one on a platform without sockets, a command and an llmlint; the calls each is made of; two calls in a row with resets between | 2 invariants, one action property, the refinement and two liveness properties, on 919,000 states |

Bounds: `MAX_CALLS` is 2, so that what one call leaves (an address, a link, a record) meets
another; a worker's stream has at most 3 lines and a supervisor's 2, so that an event, a
break, and a line after the end can follow each other; the re-ask limit is 1 (2 in the
code) and the evidence limit 1, so that each of the nested loops goes round, is exhausted
and is reset by the other; `BigRequests` lets a request be larger than a pipe. The
documents are one for each way a report or an answer is read, not their product.

The properties: `NoChildLeftBehind`; `OpenAddressIsFresh`; `AnswersAccountForReports`;
`KeepsTurnContract`, the refinement of `TurnContract` (events are shown once, a stopped turn
shows nothing more and comes to what was shown, a turn that was not streamed is replayed from
its start); `StuckChildrenGoOn`: past the write of its request, a child that fills a pipe
finds it read or closed and goes on, so parent and child never wait for each other (during
the write they may, which is the hazard of `command.rs:422`: a child that fills its stdout
before it reads is waited for); and `EndedTurnsLetGo`: a turn that was abandoned or malformed
lets go of its child however that answers the closed pipe and the signal. Two exceptions are
part of it, because they are what the code does. A turn that *reported* skips `terminate`
(`oneharness/mod.rs:1287`) and its child is waited for without a bound: one that wrote its
result, closed its stdout and lives on keeps the call for as long as it lives. And an heir
that keeps stderr keeps the call, since the thread that drains it is joined.

Fairness is weak, of the parent's own steps (a thread that goes on when it can; the drain of
stderr is one) and of a write for which there is room, which the operating system completes.
Nothing else is assumed of the child, nothing of the linked engine, and nothing of the write
of the request, so what `EndedTurnsLetGo` shows is the work of the teardown: closed pipe,
signal, kill.

Assumed of what is external: a child answers for the operation it was asked, and one that
exits naming a flag it will not accept has written nothing else. The observer is assumed to
return: one that panics while a spawned stream is read unwinds out of `read_stream` past
`terminate` and the wait, and leaves the child running and unreaped. A failure that happens
to name `--control` in its text would be taken by the code for a refusal.

## A run of the command line

`PlanConfig` is configuration: `Layered` lays environment and flags over the file setting
by setting, `resolve_task`, `rebase_skill` and `load_skill` find what a setting names,
`Resolves` and `Resolved` walk a provider's fields by kind, `Accepts` is `into_plan` with
everything it refuses, `Plan` what it makes. `Posture` is the mode a judge's harness runs
in, from the environment, the judge's file and the files found around it. `AnyProvider` is
the tree of backends: what each refuses, whom a call reaches, under which session and
history name, and how what its leaves recorded is collected, stamped, numbered and
summed. A tree, of a config or of a backend, is a function of its places: `<< >>` is the
top, `0` leads to a split's skill, `i` to its `i`-th judge, and a place below them is the
way there. What the code walks a tree for is then said of its places at once: that none is
refused, that a call gets to those every split on the way hands it on to, that what was
recorded is read from left to right. `NoteAdmission` is what a note's text and criterion
may say, over tokens. `RunPlan` goes through a run in the code's order: `DraftNote` (of an
embedder), `ReadPlan`, `Build`, the turns (`WorkerReplies`, `WorkerFails`, `Supervises`,
`SupervisorFails`, `StopsAtOpening`), `Rejudge`, `ScoreEval`, `Assess`, `ScoreFails`,
`Report`. A turn and a
call are one step each, and end in any way the other specifications allow.

| run | instance | shows |
|---|---|---|
| `run_plan` | pairs of related settings, given or not (or blank, or wrong) in each of the three layers; all pairs of nine judges under a split, with other skills and other tops, under five lists of evals and three assessments; panels under every judge file in 36 surroundings; criteria up to six tokens, rule by rule; five backends driven to the end; entry points and hooks; runs refused before a plan | 6 properties, on 321,000 states |

Bounds: `DefaultTurns` is 2 (8 in the code), so that a run can reach its cap; `MaxOdd` is
1: one call of a run is asked again (and reports, or dies, the second time; the call may be
answered or fail), reports no usage, dies or is not started, which is what sets it apart
from the others; `MaxLost` is 1: a lost turn can be recovered from. A
setting interacts with the ones it is paired with (a config with the kind that selects
whose it is, a criterion with the cap, a skill with the prompt it is laid under), not with
all others. Where the run goes before the conversation depends on the invocation alone, so
most of these are checked by a few states each. Runs end, so deadlock is not checked; the
run has no fairness, since only `Conversation` shows that a conversation ends.

The properties: `AcceptedPlansRun` (no call of an accepted plan is refused as invalid, and
no judge that may edit the tree runs beside another unless allowed; stated where no judge
is itself a split, see below), `NoOverrideIsLost`, `ZeroExitIsEarned` (an exit code of 0
rests on verdicts about the finished transcript, over the configured criterion and every
one a note bound), `SpendingIsReported` (along every way out, each invocation and each
process once), `UsableCriteriaBind` and `PartiesAreToldApart`. The posture and the
criteria's rules are each given twice: as the code goes about it in `Posture` and
`NoteAdmission`, and as its documentation puts it in `RunPlanProperties`, so that a run
compares the two.

## Where code and words disagree

Each is a run that TLC ends with a behaviour of the code that breaks the quoted words.

- `lost_turns`: a judge side that answers Continue to every lost worker turn retries
  without bound; the turn cap counts assistant turns and a lost turn adds none.
- `panicked_watch`: an observer that panics inside a live controlled turn skips
  `Watch::end`; `thread::scope` waits for the watch, and waiting senders are never
  answered.
- `lost_redirect`: a worker turn redirected by a note and then lost leaves neither in
  the transcript its retry is given.
- `stopped_judge`: a supervisor turn redirected by a note and then stopped drops the
  sender unanswered.
- `undrained_stop`: the decisions of a supervise stopped by a history observation are
  not on the run's report.
- `watch_exit`: a streaming run whose reader left returns before it publishes its end,
  so its watchers poll for ever.

Others were met while modelling and have no run of their own; the models follow the code.

- `cli/config.rs:1004` says a nested split scores if it is judged by one that does; the
  code takes any nested split to score. `refuse_writable_panels` does not look into a
  nested split, although `docs/judges.md:278` refuses a panel in which any judge may
  write. `AcceptedPlansRun` excludes split judges for both reasons.
- A controlled turn whose observer stopped it is never recorded, so its party reports that
  it named no control socket, or the socket of an earlier refused attempt
  (`control_address`, `oneharness/mod.rs:783`).
- `oneharness/mod.rs:1304` says a streamed and a buffered run classify a failure
  identically; a streamed run with a clean report and a non-zero exit is an error, a
  buffered one is its turn.
- `spawn.rs:257` says a child whose grouping is refused is still blocked on its stdin; a
  lint run has none.
- `report.rs:216` calls `usage` that of every provider call; the criterion judged again
  and the evals are only in their verdicts. `SpendingIsReported` counts both.
- `telemetry.rs:226`: records are collected judge by judge, so a panel's numbers do not
  follow time. Lint runs take a number and have no attribution.
- Under nested panels the scope's label is replaced while the session's is extended, so a
  judge's history name and session differ there and two judges with one inner label share
  a name. `PartiesAreToldApart` excludes split judges.
- Rules of criteria: `v1.2.` at the end of a sentence is not found, a closing backtick may
  open a span, and two rules do not lower case.
- A session name that `llmlint` refuses as a label is accepted and fails at each turn.
- The wait for a child that reported has no grace, signal or kill, while an aborted or
  malformed turn is stopped "either way" (`oneharness/mod.rs:1288`): a child that reports,
  closes its stdout and lives on is waited for as long as it lives. `EndedTurnsLetGo`
  excepts it.
- After a request that could not be written the child is neither stopped nor waited for
  (`command.rs:424`); `NoChildLeftBehind` excepts it.

## Proofs

Theorems are of `Spec`, for every value of the constants that the assumptions allow: any
number of notes, judges, runs and watchers, any reports and documents, any bound.
`ConversationAssumption`, `DraftsAssumption`, `NoopAssumption`, `PanelAssumption`,
`StreamAssumption`, `ChildAssumption`, `CallAssumption`, `PostureAssumption`,
`PlanConfigAssumption` and `RunPlanAssumption` say no more than which set a constant is
from: of a run of the command line, that its file holds a configuration (`IsConfig`: any
tree of providers, any settings), its variables and flags any of theirs, and that it is
started among any files; a draft of a note holds any texts at all. `DocumentsAssumption` says that a document is a report, and that one of a
command or a lint run stands for the one object it printed. TLC evaluates each in every run
that uses it.

Every safety property that a passing run checks is proved, action properties and the two
refinements included. None of them is inductive as it stands. What each needed beside it is
stated as a named invariant; TLC checked each of them on an instance before it was proved.

*Conversation, custody* (`ConversationProofs`). `TypeCorrect`; then `CustodyHolds`,
`AnswersStayFinal` and `ConversationKeepsContract`. `Custody` says
who holds a note, not why nobody else can come to. `CustodyInv` adds that holders
are only non-empty where the engine's thread can have filled them (`HoldersInPhase`),
that the watch is on only during a live turn of its party (`WatchInPhase`), that the
channel is open until the engine closes it (`OpenUntilClosed`), and splits custody into
the three facts steps preserve: what is held is taken, what is taken is held, and
nothing is held twice (`HeldIsTaken`, `TakenIsHeld`, `HeldOnce`). The refinement
follows from it: a step that answers notes answers ones that are held, one that lets some go
counts none of them, and the channel closes when no holder has anything.

*Conversation, delivery* (`DeliveryProofs`). A chain, each invariant preserved with the help
of those before it. `PresentedIsHeld` (what a watch presented and was not handed back is in
its hands or in a redirect) gives `RedirectsFrameTakenNotes`. `PhaseInv` (where the engine
may be once there is a result, once a note was judged with, and while notes wait for the
worker) gives `NothingIsAcceptedAfterJudgedWith`. `Asked` (whoever holds a note as an
interrupt holds one that asked to interrupt that party) is needed for `InterruptsAreAsAsked`,
and with `DroppedByStop` (a sender is only let go of by a run that is stopped) and `RecordInv`
for `NobodyIsLeftWaiting`.
`RecordInv` says when a note is on the record *inside* a call too, where
`RecordAgreesWithAnswers` is silent: a worker's redirect is answered before the end of the
call records it, so the record is behind the answers by exactly the redirects; it gives
`RecordAndAnswersAgree`. `HandedInv` counts, for each of the three routes to the worker, the
one place that tells it was taken (`WorkerHas`), and gives `WorkerIsHandedOnce`. `InHandInv`
(from the query on, the record and every redirect of the judge's turn are in hand) gives
`DecisionsHaveEverything`.

*The no-op streak* (`ConversationProofs`). `observe` sees one exchange and what it kept of
those before; `StreakIsOfTheLast` says what that comes to for any run of exchanges and any
limit: the conversation settles exactly when the last `NOOP_SETTLE_LIMIT` of them were
no-ops with one answer (`LastAlike`). `TellsOf` is what a streak says of the exchanges so
far, with the one that stands before it and is not of it, which is what makes "exactly"
hold; `ObserveTells` is that one more exchange keeps it so.

*Panel.* `PanelTypeCorrect`, `EveryJudgeIsAwaited`, `NobodyAsksAfterBreak`,
`CandidatesAreSeen`, `AnswersSpeakForAll`, `RecordsAreOwn`, from `PanelInv`: a judge's
thread lives only inside its call and waits only while the loop is there to answer; the
channel holds one request of each judge that waits; a judge not told to stop has begun
exactly what it was let through and what it asks about; an answered call's answer is
the combination of what each selected judge returned; what waits to be drained was
decided on this turn. `TurnsHaveOneEntry` is from `RecordedInCalls`: decisions are recorded
a call at a time, so the list is always a whole number of groups of one decision per judge,
each in list order, and draining moves whole groups.

*Run stream.* `StreamTypeCorrect`, `CurrentLogIsKept`, `WatchersLeaveReplacedRuns` from
`DocumentInv`: a run that has not yet written itself to the document is known to nobody
(`OnlyNamedAreKnown`), so the document never comes back to a run it has left, and a run
about to remove an earlier log has moved the document off it (`SupersededIsPast`).
`StreamsHaveNoGaps` from `LogInv`: nothing was said or logged before a stream opened,
and a stream that never failed holds everything said. `WatchersFollowOneRun` from `SeenInv`:
a log holds only its run's records, in order, and a watcher has handed on no more than it
stands in front of; for a log that is removed under a watcher that still has it open, what
it handed on is kept apart from what the directory holds. `SuccessIsPublished` from `EndInv`:
a run that came back said its end, with its own code, as the last thing it said.

*One provider call* (`HarnessCallProofs`). `HarnessTypeCorrect`, with `Staged`: which stage
an attempt is in decides which spec it runs under and that it comes to something; types alone
do not survive a step, since a document is only known to be a report while it is known what
was asked. `NoChildIsLeftBehind` from `ProcessInv` (by stage: not made, made and not yet on
record, followed, waited for). `OpenAddressIsOfLastTurn` from `AddressInv`: a rung below the
controlled one is only reached once its party has been told that there is no address.
`AnswersAreAccountedFor` from `AccountInv`: at every point of the three nested loops the
telemetry is what the asks so far and this ask spent together, and an attempt that is tried
again reported nothing. `CallsKeepTheTurnContract`, the refinement, from `ShownInv`: what the
observer saw is what was heard of the attempt in flight, because an attempt is only given up
for another while its child has said nothing.
`ToolsOfPrefix` is what the refinement needs of `tool_events`, a recursive
function: the tools of a prefix are a prefix of the tools. It is an induction on length, done
by the least number at which it would fail, as no induction theorem can be instantiated.

*A run of the command line* (`RunPlanProofs`). Most of what has to be shown is about the
configuration, before anything runs. Environment and flags leave a configuration one
(`ConfigIsOne`); resolving it adds defaults and keeps its places (`ResolvedIsWellBuilt`);
a tree that `Accepts` took is one that can be built (`WellBuiltIsBuilt`). Where no judge is
itself a split, a worker's turn reaches one leaf and a judge's call the judges that take
part (`OneWorker`, `JudgePlaces`), and what the refusals let through is what these do not
answer as invalid (`WorkerIsNotRefused`, `JudgesAreNotRefused`). `EditingIsWriting` is that
the posture the code works out layer by layer is the one its documentation gives by
precedence, so that a panel that was accepted is one in which nobody may edit
(`PanelsAreRaceFree`). `NamesDiffer` is that no two leaves have a session or a name in
common, from the labels on the way to each (`LabelsOfAJudge`). `PlanInv` then carries all of
it through a run: its plan is the one made of an accepted configuration.
`AcceptedPlansRunHolds` needs beside it that a call of the run is one the plan was accepted
for (`NotInvalid`); `ZeroExitIsEarnedHolds` needs `ScoresInv`, that each score taken so far
was given by a verdict after the last turn; `PartiesAreToldApartHolds` needs `RecordsInv`,
that each record is of a call that reached its leaf, under the names of that call.

*The layers* (`RunPlanProofs`). `NoOverrideIsLostHolds` needs nothing that a run does: it
follows from `PlanInv`, that the plan is the one made of the accepted configuration.
`LayerCarries` is that a layer applied sets what it gives and keeps the rest, `ConfigSays`
puts the three together, and `SettingsInEffect` is where each setting of a configuration
ends up in its plan. The worker's config is the one whose place depends on another
setting: each layer puts it where the kind of the layers so far says. A kind that a
higher layer changes therefore leaves it where no worker runs, and `WorkerConfigLands` is
that such a configuration is refused, whatever the tree is. Two things the property had to
say precisely only came up here, and the instances have them: a task of `-` names the
standard input only as a flag, and a prompt or a skill that is all blanks adds no words.

*What a criterion may say* (`CriterionProofs`). `UsableCriteriaBindHolds` from `NotesInv`:
whatever is bound was drafted, trimmed and not refused. The rest is about texts of any
length and speaks of no state. `WithinTrimmed`: what is left of a text stands in it with
blanks or nothing around it. `RefusedWithin`: a text that is refused is refused wherever it
stands so, rule by rule, since no rule looks further than one token past what it matches;
hence `RefusedInASentence`. `DemandIsRefused` and `PlainHasNoPhrase` compare the rules with
the documentation's reading of them, and need that words are counted alike in the whole
text and in the part (`words_of` is by where a word begins).

*Spending* (`SpendingProofs`). `SpendingIsReportedHolds` from `SpendInv`, which has four
parts: what calls answered is in the run's total or in a verdict (`UsageInv`); no channel for
notes outlives the conversation (`InboxInv`); each leaf keeps records and processes of its own
calls only (`LeavesInv`); a report, once written, was read out of the leaves as they are
(`ReportInv`). The rest is what reading out comes to, for a tree of any shape. No leaf is
above another (`AboveIsSplit`), so that the order in which a tree is read, `Before`, compares
any two entries (`BeforeIsTransitive`, `BeforeIsTotal`) and their ranks are the numbers from 0
on, each once (`RankGrows`, `InOrderIsAll`): `CollectedIsAll` is that the list has every entry
of every leaf once. The library's sum over a function is a fold, about which it states no theorem;
`SumIsCount` gives it a meaning as a count, element by element, and with it the totals of the
parties (`TotalIsOfAll`) and the usage of the verdicts (`VerdictSpends`). `FirstLabel`
is that the label which stays on an entry is that of the judge at the top, whose labels
differ (`JudgesAreToldApart`). A file can only list so many providers; `Tree` therefore says
that its places are finite in number, which nothing else needed.

Model-checked only: liveness (`SendersAnswered`, `ConversationEnds`, `CallsEnd`,
`WatchersLeave`, `StuckChildrenGoOn`, `EndedTurnsLetGo`: fairness and ENABLED are beyond the prover), and the
violations that the disagreements above are shown by.

## Plan

Done: the five specifications, and the proofs above. Next, in this order:

1. In `RunStream`, what the directory holds once every run is over: two runs that start
   at once (`watch.rs:152`) leave a log that no later run removes.
2. In `HarnessCall`, the attribution of a turn by the tail of a history file that other
   runs append to.

Not planned: text rendering, parsing and validation messages, release and repository
tooling, the SDK.
