------------------------------ MODULE NoteInbox ------------------------------
(***************************************************************************)
(* The note channel a running conversation reads: the shapes of            *)
(* src/crates/onejudge/src/note.rs (who a note is for, how it may reach a  *)
(* live turn, what its sender is answered) over the channel itself, the    *)
(* Sender/Inbox pair of the external onemessagebus crate, modelled from    *)
(* how the engine and the watch use it and from what docs/notes.md and the *)
(* end-to-end tests say they may rely on:                                  *)
(*                                                                         *)
(*   - an offered note waits in arrival order until it is taken;           *)
(*   - only an untaken note can be withdrawn or pass its deadline; a taken *)
(*     one that is released goes back untaken to its place, unless its     *)
(*     deadline passed meanwhile: then it expires in that same step;       *)
(*   - the first close refuses everything still waiting, and everything    *)
(*     sent afterwards, with the reason it carries;                        *)
(*   - a taken note is answered by whoever took it, or by nobody.          *)
(***************************************************************************)
EXTENDS Naturals, FiniteSets

CONSTANTS
  Notes,     \* identities of the notes senders may send
  Drafts     \* the contents they may have: records with fields text, to, how

(* A note's `to` is the set of parties its Addressee stands for. *)
ASSUME DraftsAssumption ==
  \A d \in Drafts : /\ d.to \subseteq {"Worker", "Supervisor"}
                    /\ d.how \in {"interrupt", "turn-end"}

VARIABLES
  fate,      \* what has become of each note: one of Fates
  draft,     \* what each note says, once it was offered
  stamp,     \* each note's place in arrival order
  arrivals,  \* how many notes have been offered
  late,      \* notes whose deadline passed while they were taken
  closed     \* "open", or the refusal the channel was closed with

inbox == <<fate, draft, stamp, arrivals, late, closed>>

Party == {"Worker", "Supervisor"}

(* Accepted: the answers that say a note was (or will be) read. *)
Interrupted(p) == IF p = "Worker" THEN "InterruptedWorker" ELSE "InterruptedSupervisor"
AtTurnEnd(p)   == IF p = "Worker" THEN "AtTurnEndWorker" ELSE "AtTurnEndSupervisor"

ReachedWorker     == {"Queued", "InterruptedWorker", "AtTurnEndWorker"}
ReachedSupervisor == {"InterruptedSupervisor", "AtTurnEndSupervisor", "JudgedWith"}
Accepted          == ReachedWorker \cup ReachedSupervisor

(* Undelivered: the refusals that say no one will read it. *)
Undelivered == {"ConversationCompleted", "MemberSettled", "NoConversation"}

(* "dropped" is a taken note let go of without an answer. *)
Unresolved == {"unsent", "queued", "taken"}
Fates == Unresolved \cup Accepted \cup Undelivered \cup {"withdrawn", "expired", "dropped"}

NoDraft == [text |-> "", to |-> {}, how |-> "interrupt"]

InboxTypeOK ==
  /\ fate \in [Notes -> Fates]
  /\ draft \in [Notes -> Drafts \cup {NoDraft}]
  /\ stamp \in [Notes -> Nat]
  /\ arrivals \in Nat
  /\ late \subseteq Notes
  /\ closed \in {"open"} \cup Undelivered

InboxInit ==
  /\ fate = [n \in Notes |-> "unsent"]
  /\ draft = [n \in Notes |-> NoDraft]
  /\ stamp = [n \in Notes |-> 0]
  /\ arrivals = 0
  /\ late = {}
  /\ closed = "open"

Queued == {n \in Notes : fate[n] = "queued"}

(* n is the first note in arrival order among S: what a take that accepts   *)
(* the notes of S hands out.                                                *)
Earliest(n, S) == n \in S /\ \A m \in S : stamp[n] <= stamp[m]

-----------------------------------------------------------------------------
(* The senders' operations: Notes::send and Notes::offer, Offer's           *)
(* withdrawal, and wait_until's deadline.                                   *)

Offer(n, d) ==
  /\ fate[n] = "unsent"
  /\ fate' = [fate EXCEPT ![n] = IF closed = "open" THEN "queued" ELSE closed]
  /\ draft' = [draft EXCEPT ![n] = d]
  /\ stamp' = [stamp EXCEPT ![n] = arrivals + 1]
  /\ arrivals' = arrivals + 1
  /\ UNCHANGED <<late, closed>>

Withdraw(n) ==
  /\ fate[n] = "queued"
  /\ fate' = [fate EXCEPT ![n] = "withdrawn"]
  /\ UNCHANGED <<draft, stamp, arrivals, late, closed>>

DeadlinePasses(n) ==
  /\ \/ /\ fate[n] = "queued"
        /\ fate' = [fate EXCEPT ![n] = "expired"]
        /\ UNCHANGED late
     \/ /\ fate[n] = "taken" /\ n \notin late
        /\ late' = late \cup {n}
        /\ UNCHANGED fate
  /\ UNCHANGED <<draft, stamp, arrivals, closed>>

-----------------------------------------------------------------------------
(* The inbox's operations, as the next value of `fate` (and of `closed`).   *)
(* The step that uses one says what becomes of the rest.                    *)

Taken(n)    == [fate EXCEPT ![n] = "taken"]
Released(n) == [fate EXCEPT ![n] = IF n \in late THEN "expired" ELSE "queued"]

(* Every note of S answered, or let go of, in one way. *)
AnsweredAll(S, a) == [n \in Notes |-> IF n \in S THEN a ELSE fate[n]]

(* Mutants of Close: it forgets the senders already waiting; it refuses     *)
(* every note ever sent.                                                    *)
CloseForLaterOnly(refusal) ==
  /\ closed' = IF closed = "open" THEN refusal ELSE closed
  /\ UNCHANGED <<fate, draft, stamp, arrivals, late>>

CloseOnEveryone(refusal) ==
  /\ closed' = IF closed = "open" THEN refusal ELSE closed
  /\ fate' = AnsweredAll({n \in Notes : fate[n] # "unsent"}, refusal)
  /\ UNCHANGED <<draft, stamp, arrivals, late>>

(* close(refusal): everything untaken is refused, and a second close         *)
(* changes nothing.                                                          *)
Close(refusal) ==
  /\ closed' = IF closed = "open" THEN refusal ELSE closed
  /\ fate' = IF closed = "open" THEN AnsweredAll(Queued, refusal) ELSE fate
  /\ UNCHANGED <<draft, stamp, arrivals, late>>
=============================================================================
