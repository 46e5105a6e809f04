------------------------------ MODULE AnyProvider ------------------------------
(***************************************************************************)
(* The backend a plan builds (cli/provider.rs, with the forwarding of      *)
(* split.rs and panel.rs it rests on) and what is read out of it at the    *)
(* end of a run (telemetry.rs, usage.rs).  A backend is a tree, as a       *)
(* config's providers are: a leaf runs its calls itself; a split hands the *)
(* worker's turns to its skill and everything else to its judges.          *)
(***************************************************************************)
EXTENDS PlanConfig, NoteAdmission, FiniteSetsExt

Ops == {"respond", "supervise", "boolean", "numeric", "assess"}

JudgesAt(b, place) == {Append(place, i) : i \in 1..b[place].judges}

(* A panel that refuses to be made. *)
PanelRefused(b, place) ==
  \/ JudgesAt(b, place) = {}
  \/ \E judge \in JudgesAt(b, place) :
       \/ b[judge].label = BadLabel
       \/ \E other \in JudgesAt(b, place) \ {judge} : b[other].label = b[judge].label

(* A backend that refuses to be built, somewhere in the tree. *)
BuildRefused(b) ==
  \E place \in DOMAIN b :
    \/ b[place].kind = "command" /\ b[place].command \in {None, Blank}
    \/ b[place].kind = "llmlint" /\ b[place].bin = Blank
    \/ b[place].kind = "split" /\ PanelRefused(b, place)

Leaves(b) == {place \in DOMAIN b : b[place].kind # "split"}

(* Which operations of the judge's side a judge of a kind takes part in,   *)
(* and so who is asked by a split.                                         *)
TakesPart(kind, op) == op \in {"numeric", "assess"} => kind # "llmlint"
Asks(b, place, op) ==
  IF op = "respond" THEN {Append(place, 0)}
  ELSE {judge \in JudgesAt(b, place) : TakesPart(b[judge].kind, op)}

(* The places that a call gets to: every split on the way asks on.         *)
GetsTo(b, op) ==
  {place \in DOMAIN b :
     \A k \in DOMAIN place : Way(place, k) \in Asks(b, Way(place, k - 1), op)}

(* The leaves one call reaches. *)
Reached(b, op) == GetsTo(b, op) \cap Leaves(b)

(* Whether a call is one the backend answers with Error::Invalid. *)
Refuses(b, op) ==
  \E place \in GetsTo(b, op) :
    \/ b[place].kind = "llmlint" /\ op \in {"respond", "numeric", "assess"}
    \/ b[place].kind = "split" /\ Asks(b, place, op) = {}

(* A lost turn is decided on by a command, or a panel all of whose judges  *)
(* do, in whatever panels they are.                                        *)
supervises_lost_turns(b) ==
  \A leaf \in Leaves(b) : 0 \notin Range(leaf) => b[leaf].kind = "command"

(* An oneharness that names no binary runs inside this process, unless the *)
(* plan has a spawn hook: that is given to every backend in the tree, and  *)
(* there must be a process to show it.                                     *)
InProcess(spec) == spec.kind = "oneharness" /\ spec.bin = None
Spawns(spec, hook) == hook \/ ~InProcess(spec)
(* A command's answers carry no invocation telemetry. *)
Measures(spec) == spec.kind # "command"

-----------------------------------------------------------------------------
(* The names a run's calls are known by at their harnesses: <base>-skill,  *)
(* <base>-user, <base>-judge and <base>-assess, with the label of a judge  *)
(* in a panel of several.  The base is the run's own and left out here.    *)

Suffix == [respond |-> "skill", supervise |-> "user", boolean |-> "judge", numeric |-> "judge",
           assess |-> "assess"]

Unlabelled(name, label) == name
labelled(name, label) == name \o label

(* The labels a leaf is given on the way to it: each panel of several has  *)
(* one for each of its judges.                                             *)
InPanel(b, place) == IsJudge(place) /\ b[Front(place)].judges > 1
LabelsOf(b, leaf) ==
  LET labels[k \in 0..Len(leaf)] ==
        IF k = 0 THEN << >>
        ELSE IF InPanel(b, Way(leaf, k)) THEN Append(labels[k - 1], b[Way(leaf, k)].label)
        ELSE labels[k - 1]
  IN labels[Len(leaf)]

(* The session a leaf is handed: every panel on the way adds its label.    *)
session_for(b, leaf, session) == labelled(session, LabelsOf(b, leaf))

(* The label in the scope a leaf is set: each panel replaces the one above. *)
ScopeLabel(b, leaf) ==
  IF LabelsOf(b, leaf) = << >> THEN None ELSE <<Last(LabelsOf(b, leaf))>>

(* The session a call continues.  The worker's passes no panel, and a      *)
(* verdict and an assessment have none.                                    *)
SessionOf(b, leaf, op) ==
  CASE op = "respond" -> <<Suffix[op]>>
    [] op = "supervise" -> session_for(b, leaf, <<Suffix[op]>>)
    [] OTHER -> None

(* The name a call is recorded under in the harness's history. *)
history_name(b, leaf, op) ==
  IF op = "respond" THEN <<Suffix[op]>>
  ELSE labelled(<<Suffix[op]>>, ScopeLabel(b, leaf))

-----------------------------------------------------------------------------
(* Usage and telemetry.  Usage is one count, present or not. *)

(* What all the leaves kept, in the order the tree is read: a split's      *)
(* skill, then its judges in list order, and what one leaf kept in its own *)
(* order, as if each entry were a place below its leaf.  Every panel       *)
(* stamps its label on what its judges kept, over what a panel below did.  *)
Before(place, other) ==
  \E k \in DOMAIN place \cap DOMAIN other :
    place[k] < other[k] /\ \A j \in 1..(k - 1) : place[j] = other[j]
Rank(places, place) == Cardinality({other \in places : Before(other, place)})
InOrder(places) ==
  [i \in 1..Cardinality(places) |-> CHOOSE place \in places : Rank(places, place) = i - 1]
Stamp(entry, labels) ==
  IF labels = << >> THEN entry ELSE [entry EXCEPT !.judge = <<labels[1]>>]
KeptAt(kept) == UNION {{Append(leaf, k) : k \in DOMAIN kept[leaf]} : leaf \in DOMAIN kept}
Collected(b, kept) ==
  LET order == InOrder(KeptAt(kept))
  IN [i \in DOMAIN order |->
        Stamp(kept[Front(order[i])][Last(order[i])], LabelsOf(b, Front(order[i])))]

Add(total, usage) == IF usage = None THEN total ELSE <<OrElse(total, 0) + usage[1]>>

(* Its number among the invocations of its role. *)
TurnIndexOverall(records, i) == i
TurnIndex(records, i) == Cardinality({j \in 1..i : records[j].role = records[i].role})

(* An invocation that names no harness (llmlint's) takes its number in its *)
(* role but is attributed to nobody.                                       *)
Attributed(records) ==
  [i \in {i \in DOMAIN records : records[i].named} |->
     [role |-> records[i].role, turn_index |-> TurnIndex(records, i),
      judge |-> records[i].judge, ran |-> records[i].ran]]

OfRole(records, role) == {i \in DOMAIN records : records[i].role = role}

(* One party's total is absent as soon as one of its records has none. *)
strict_sum(records, party) ==
  IF \E i \in party : records[i].usage = None THEN None
  ELSE <<SumFunction([i \in party |-> records[i].usage[1]])>>
summarize(records, party) == IF party = {} THEN None ELSE strict_sum(records, party)

aggregate(records) ==
  IF records = << >> THEN None
  ELSE <<[agent |-> summarize(records, OfRole(records, "agent")),
          judge |-> summarize(records, OfRole(records, "judge")),
          attribution |-> Attributed(records)]>>
=============================================================================
