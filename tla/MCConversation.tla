---------------------------- MODULE MCConversation ---------------------------
(* Instances of Conversation for model checking. *)
EXTENDS ConversationProperties, TLC

(* Notes are interchangeable: nothing orders them but their arrival. *)
NotesSymmetry == Permutations(Notes)

(* An interrupt note to either party, and one that waits for the turn's end. *)
ToWorker     == [text |-> "a", to |-> {"Worker"}, how |-> "interrupt"]
ToSupervisor == [text |-> "a", to |-> {"Supervisor"}, how |-> "interrupt"]
ToBoth       == [text |-> "a", to |-> {"Worker", "Supervisor"}, how |-> "interrupt"]
ToBothAgain  == [text |-> "b", to |-> {"Worker", "Supervisor"}, how |-> "interrupt"]
Patient      == [text |-> "a", to |-> {"Worker"}, how |-> "turn-end"]

BothAndPatient == {ToBoth, Patient}
TwoAndPatient  == {ToBoth, ToBothAgain, Patient}

BothParties == {"Worker", "Supervisor"}
SupervisorOnly == {"Supervisor"}
(* A turn that did work, and two quiet turns that said the same thing. *)
OneReply == {"same"}
WorkOrQuiet == {[tools |-> TRUE, tiny |-> FALSE, says |-> "same"],
                [tools |-> FALSE, tiny |-> TRUE, says |-> "same"]}
=============================================================================
