----------------------------- MODULE RunPlanProofs -----------------------------
(***************************************************************************)
(* Proofs about RunPlan, for any configurations, trees of providers,       *)
(* surroundings and notes: that the plan is one the backends can carry     *)
(* out, that the exit code is earned, that the parties are told apart, and *)
(* that no override is lost between the layers and the plan.               *)
(***************************************************************************)
EXTENDS RunPlanProperties, FiniteSetTheorems, TLAPS

-----------------------------------------------------------------------------
(* A set of naturals that has an element has a least one. *)
LEMMA Least ==
  ASSUME NEW S \in SUBSET Nat, S # {}
  PROVE  \E s \in S : \A t \in S : s <= t
<1>1. PICK s \in S : \A t \in S : ~ (<<t, s>> \in OpToRel(<, Nat))
  BY NatLessThanWellFounded, WFMin
<1>2. ASSUME NEW t \in S PROVE s <= t
  <2>1. SUFFICES ASSUME t < s PROVE FALSE
    OBVIOUS
  <2>2. <<t, s>> \in OpToRel(<, Nat)
    BY <2>1 DEF OpToRel
  <2>3. QED
    BY <1>1, <2>2
<1>3. QED
  BY <1>2

-----------------------------------------------------------------------------
(* The layers keep a configuration one. *)

LEMMA OrElseType ==
  ASSUME NEW S, NEW v \in Optional(S), NEW d \in S
  PROVE  OrElse(v, d) \in S
<1>1. CASE v = None
  BY <1>1 DEF OrElse
<1>2. CASE v # None
  <2>1. v \in Seq(S) /\ Len(v) <= 1 /\ Len(v) # 0
    BY <1>2 DEF Optional, None
  <2>2. QED
    BY <1>2, <2>1 DEF OrElse
<1>3. QED
  BY <1>1, <1>2

LEMMA SomeType == \A S : None \in Optional(S) /\ \A v \in S : <<v>> \in Optional(S)
BY DEF Optional, None

LEMMA GivenType ==
  ASSUME NEW S, NEW v \in Optional(S), v # None
  PROVE  Len(v) = 1 /\ v \in Seq(S) /\ v = <<v[1]>> /\ v[1] \in S
<1>1. v \in Seq(S) /\ Len(v) <= 1 /\ Len(v) # 0
  BY DEF Optional, None
<1>2. Len(v) = 1
  <2>1. Len(v) \in Nat
    BY <1>1
  <2>2. QED
    BY <1>1, <2>1
<1>3. v[1] \in S
  BY <1>1, <1>2
<1>4. v = <<v[1]>>
  BY <1>1, <1>2
<1>5. QED
  BY <1>1, <1>2, <1>3, <1>4

(* A provider that lists no other children than the one before it may take *)
(* its place.                                                              *)
LEMMA ReplacedInTree ==
  ASSUME NEW t, Tree(t), NEW there \in DOMAIN t, NEW p \in ProviderConfig,
         p.fields = t[there].fields, p.judges = t[there].judges
  PROVE  Tree([t EXCEPT ![there] = p])
<1> DEFINE u == [t EXCEPT ![there] = p]
<1>1. /\ DOMAIN u = DOMAIN t
      /\ u = [place \in DOMAIN u |-> u[place]]
      /\ \A place \in DOMAIN t : u[place] = IF place = there THEN p ELSE t[place]
  BY DEF Tree
<1>2. \A place \in DOMAIN t : Below(u[place]) = Below(t[place])
  BY <1>1 DEF Below, Judges
<1>3. \A place \in DOMAIN t : u[place] \in ProviderConfig
  BY <1>1 DEF Tree
<1> HIDE DEF u
<1>4. QED
  BY <1>1, <1>2, <1>3 DEF Tree, u

LEMMA PlacedInTree ==
  ASSUME NEW t, Tree(t), NEW config \in Optional(STRING)
  PROVE  Tree(PlaceWorkerConfig(t, config))
<1> DEFINE there == IF t[<< >>].kind = "split" /\ <<0>> \in DOMAIN t THEN <<0>> ELSE << >>
           p == [t[there] EXCEPT !.worker_config = Over(@, config)]
<1>1. there \in DOMAIN t /\ t[there] \in ProviderConfig
  BY DEF Tree
<1>2. p \in ProviderConfig /\ p.fields = t[there].fields /\ p.judges = t[there].judges
  BY <1>1 DEF ProviderConfig, Over
<1>3. PlaceWorkerConfig(t, config) = [t EXCEPT ![there] = p]
  BY DEF PlaceWorkerConfig
<1> HIDE DEF p, there
<1>4. Tree([t EXCEPT ![there] = p])
  BY <1>1, <1>2, ReplacedInTree
<1>5. QED
  BY <1>3, <1>4

(* A name that is given stays one of its set, whichever layer gives it. *)
LEMMA OverType ==
  ASSUME NEW S, NEW below \in Optional(S), NEW v \in Optional(S)
  PROVE  Over(below, v) \in Optional(S)
BY DEF Over

LEMMA ImpliedType ==
  ASSUME NEW o \in Overrides, NEW user \in Optional(UserConfig)
  PROVE  ImpliedUser(user, o) \in Optional(UserConfig)
<1>1. DefaultUser \in UserConfig
  <2> DEFINE nothing == << >>
  <2>1. nothing \in Seq(STRING)
    OBVIOUS
  <2>2. None \in Optional(STRING) /\ None \in Optional(Nat) /\ None \in Optional(BOOLEAN)
    BY SomeType
  <2> HIDE DEF nothing
  <2>3. [persona |-> "", done_when |-> None, max_turns |-> None, settle |-> None,
         artifacts |-> nothing] \in UserConfig
    BY <2>1, <2>2 DEF UserConfig
  <2>4. QED
    BY <2>3 DEF DefaultUser, nothing
<1> DEFINE u == OrElse(user, DefaultUser)
           n == [u EXCEPT !.persona = OrElse(o.persona, @), !.done_when = Over(@, o.done_when),
                          !.max_turns = Over(@, o.max_turns),
                          !.artifacts = OrElse(o.artifacts, @)]
<1>2. u \in UserConfig
  BY <1>1, OrElseType
<1>3. /\ OrElse(o.persona, u.persona) \in STRING \cup {""}
      /\ OrElse(o.artifacts, u.artifacts) \in Seq(STRING)
  <2>1. o.persona \in Optional(STRING) /\ u.persona \in STRING \cup {""}
    BY <1>2 DEF Overrides, UserConfig
  <2>2. o.persona # None => o.persona[1] \in STRING
    BY <2>1, GivenType
  <2>3. OrElse(o.persona, u.persona) \in STRING \cup {""}
    BY <2>1, <2>2 DEF OrElse
  <2>4. OrElse(o.artifacts, u.artifacts) \in Seq(STRING)
    BY <1>2, OrElseType DEF Overrides, UserConfig
  <2>5. QED
    BY <2>3, <2>4
<1>4. /\ Over(u.done_when, o.done_when) \in Optional(STRING)
      /\ Over(u.max_turns, o.max_turns) \in Optional(Nat)
  BY <1>2, OverType DEF Overrides, UserConfig
<1>5. n \in UserConfig
  BY <1>2, <1>3, <1>4 DEF UserConfig
<1>6. ImpliedUser(user, o) = user \/ ImpliedUser(user, o) = <<n>>
  BY DEF ImpliedUser
<1> HIDE DEF n
<1>7. <<n>> \in Optional(UserConfig)
  BY <1>5, SomeType
<1>8. QED
  BY <1>6, <1>7

LEMMA Applied ==
  ASSUME NEW c, IsConfig(c), NEW o \in Overrides
  PROVE  IsConfig(Apply(c, o))
<1> DEFINE top == [c.provider[<< >>] EXCEPT !.judge_config = Over(@, o.judge_config),
                                            !.kind = OrElse(o.kind, @)]
           kept == [c.provider EXCEPT ![<< >>] = top]
           a == Apply(c, o)
<1>1. Tree(c.provider) /\ << >> \in DOMAIN c.provider /\ c.provider[<< >>] \in ProviderConfig
  BY DEF IsConfig, Tree
<1>2. /\ Over(c.provider[<< >>].judge_config, o.judge_config) \in Optional(STRING)
      /\ OrElse(o.kind, c.provider[<< >>].kind) \in Kinds
  BY <1>1, OverType, OrElseType DEF ProviderConfig, Overrides
<1>3. /\ top \in ProviderConfig
      /\ top.fields = c.provider[<< >>].fields /\ top.judges = c.provider[<< >>].judges
  BY <1>1, <1>2 DEF ProviderConfig
<1> HIDE DEF top
<1>4. Tree(kept)
  BY <1>1, <1>3, ReplacedInTree
<1> HIDE DEF kept
<1>5. Tree(PlaceWorkerConfig(kept, o.worker_config))
  BY <1>4, PlacedInTree DEF Overrides
<1>6. ImpliedUser(c.user, o) \in Optional(UserConfig)
  BY ImpliedType DEF IsConfig
<1>7. a = [c EXCEPT !.provider = PlaceWorkerConfig(kept, o.worker_config),
                    !.user = ImpliedUser(@, o),
                    !.skill = Over(@, o.skill), !.system_prompt = Over(@, o.system_prompt),
                    !.task = Over(@, o.task), !.session = Over(@, o.session)]
  BY <1>1 DEF Apply, kept, top
<1>8. /\ Over(c.skill, o.skill) \in Optional(Path)
      /\ Over(c.system_prompt, o.system_prompt) \in Optional(STRING)
      /\ Over(c.task, o.task) \in Optional(STRING)
      /\ Over(c.session, o.session) \in Optional(STRING)
  BY OverType DEF IsConfig, Overrides
<1>9. a \in [provider : {a.provider}, skill : Optional(Path), system_prompt : Optional(STRING),
              task : Optional(STRING), user : Optional(UserConfig), session : Optional(STRING),
              evals : Seq(EvalConfig), assessment : Optional(STRING)]
  BY <1>6, <1>7, <1>8 DEF IsConfig
<1>10. a.provider = PlaceWorkerConfig(kept, o.worker_config)
  BY <1>7 DEF IsConfig
<1>11. QED
  BY <1>5, <1>9, <1>10 DEF IsConfig

(* The three layers of a run are what layers are. *)
LEMMA LayersOfARun ==
  ASSUME NEW i \in Invocations
  PROVE  /\ IsConfig(rebase_skill(i.file, i.base))
         /\ from_env(i.env) \in Overrides
         /\ resolve_task(i.flags, i.stdin) \in Overrides
<1> DEFINE file == rebase_skill(i.file, i.base)
           flags == resolve_task(i.flags, i.stdin)
<1>1. /\ IsConfig(i.file) /\ i.base \in STRING /\ i.stdin \in STRING
      /\ i.env.set \in Overrides /\ i.flags \in Overrides
  BY RunPlanAssumption
<1>2. IsConfig(file)
  <2>1. CASE i.file.skill # None /\ i.file.skill[1].from = "cwd"
    <3> DEFINE skill == [i.file.skill EXCEPT ![1].from = i.base]
    <3>1. i.file.skill \in Seq(Path) /\ Len(i.file.skill) = 1
      <4>1. i.file.skill \in Optional(Path)
        BY <1>1 DEF IsConfig
      <4>2. QED
        BY <4>1, <2>1, GivenType
    <3>2. i.file.skill[1] \in Path
      BY <3>1
    <3>3. [i.file.skill[1] EXCEPT !.from = i.base] \in Path
      BY <3>2, <1>1 DEF Path
    <3>4. skill = <<[i.file.skill[1] EXCEPT !.from = i.base]>>
      BY <3>1
    <3> HIDE DEF skill
    <3>5. skill \in Optional(Path)
      BY <3>3, <3>4, SomeType
    <3>6. file = [i.file EXCEPT !.skill = skill]
      BY <2>1, <1>1 DEF rebase_skill, skill, IsConfig
    <3>7. QED
      BY <3>5, <3>6, <1>1 DEF IsConfig
  <2>2. QED
    BY <1>1, <2>1 DEF rebase_skill
<1>3. flags \in Overrides
  <2>1. <<i.stdin>> \in Optional(STRING)
    BY <1>1, SomeType
  <2>2. QED
    BY <1>1, <2>1 DEF resolve_task, Overrides
<1>4. from_env(i.env) \in Overrides
  <2> DEFINE e == from_env(i.env)
  <2>1. /\ e = [s \in DOMAIN e |-> e[s]] /\ DOMAIN e = DOMAIN NoOverrides
        /\ \A s \in DOMAIN NoOverrides : e[s] = None \/ e[s] = i.env.set[s]
    BY DEF from_env
  <2> HIDE DEF e
  <2>2. DOMAIN e = {"judge_config", "worker_config", "skill", "system_prompt", "task", "persona",
                    "done_when", "max_turns", "artifacts", "session", "kind"}
    BY <2>1 DEF NoOverrides
  <2>3. /\ e.judge_config \in Optional(STRING) /\ e.worker_config \in Optional(STRING)
        /\ e.skill \in Optional(Path) /\ e.system_prompt \in Optional(STRING)
        /\ e.task \in Optional(STRING) /\ e.persona \in Optional(STRING)
    BY <1>1, <2>1, <2>2, SomeType DEF Overrides
  <2>4. /\ e.done_when \in Optional(STRING) /\ e.max_turns \in Optional(Nat)
        /\ e.artifacts \in Optional(Seq(STRING)) /\ e.session \in Optional(STRING)
        /\ e.kind \in Optional(Kinds)
    BY <1>1, <2>1, <2>2, SomeType DEF Overrides
  <2>5. e \in Overrides
    BY <2>1, <2>2, <2>3, <2>4 DEF Overrides
  <2>6. QED
    BY <2>5 DEF e
<1> HIDE DEF file, flags
<1>5. QED
  BY <1>2, <1>3, <1>4 DEF file, flags

(* The configuration that a run goes by is one. *)
LEMMA ConfigIsOne ==
  ASSUME NEW i \in Invocations
  PROVE  IsConfig(Config(i))
BY LayersOfARun, Applied DEF Config, Layered

-----------------------------------------------------------------------------
(* Trees that were resolved. *)

LEMMA WayFacts ==
  ASSUME NEW place \in Seq(Nat), NEW k \in 0..Len(place)
  PROVE  /\ Way(place, k) \in Seq(Nat) /\ Len(Way(place, k)) = k
         /\ \A j \in 1..k : Way(place, k)[j] = place[j]
         /\ k = 0 => Way(place, k) = << >>
         /\ k = Len(place) => Way(place, k) = place
BY DEF Way

(* What holds of a tree of backends once the configuration was resolved:   *)
(* only splits have anything below them, they have a skill and judges who  *)
(* are told apart, and what a backend cannot do without is there.          *)
WellBuilt(b) ==
  /\ << >> \in DOMAIN b /\ IsFiniteSet(DOMAIN b)
  /\ \A place \in DOMAIN b :
       /\ place \in Seq(Nat) /\ b[place].kind \in Kinds /\ b[place].judges \in Nat
       /\ \A k \in DOMAIN place : /\ Way(place, k - 1) \in DOMAIN b
                                  /\ b[Way(place, k - 1)].kind = "split"
       /\ b[place].kind = "split" =>
            /\ Append(place, 0) \in DOMAIN b /\ b[place].judges > 0
            /\ \A i \in 1..b[place].judges :
                 /\ Append(place, i) \in DOMAIN b /\ b[Append(place, i)].label # BadLabel
                 /\ \A j \in 1..b[place].judges :
                      i # j => b[Append(place, i)].label # b[Append(place, j)].label
       /\ b[place].kind # "split" => b[place].judges = 0
       /\ b[place].kind = "command" => b[place].command \notin {None, Blank}
       /\ b[place].kind = "llmlint" => IsJudge(place) /\ b[place].bin # Blank

LEMMA JudgesType ==
  ASSUME NEW p \in ProviderConfig
  PROVE  Judges(p) \in Nat
<1>1. OrElse(p.judges, 0) \in Nat
  BY OrElseType DEF ProviderConfig
<1>2. QED
  BY <1>1 DEF Judges

(* Only a split may list anything. *)
LEMMA OnlySplitsBranch ==
  ASSUME NEW p \in ProviderConfig, Given(p) \subseteq Allowed[p.kind], p.kind # "split"
  PROVE  Judges(p) = 0 /\ Below(p) = {}
<1>1. "skill" \notin Given(p) /\ "judge" \notin Given(p) /\ "judges" \notin Given(p)
  BY DEF Allowed, ProviderConfig, Kinds
<1>2. "skill" \notin p.fields /\ "judge" \notin p.fields /\ p.judges = None
  BY <1>1 DEF Given
<1>3. Judges(p) = 0
  BY <1>2 DEF Judges, OrElse
<1>4. QED
  BY <1>2, <1>3 DEF Below

LEMMA AppendIsJudge ==
  ASSUME NEW place \in Seq(Nat), NEW i \in Nat \ {0}
  PROVE  IsJudge(Append(place, i))
<1>1. Append(place, i) # << >> /\ Last(Append(place, i)) = i
  BY DEF Last
<1>2. QED
  BY <1>1 DEF IsJudge

LEMMA ResolvedIsWellBuilt ==
  ASSUME NEW t, Tree(t), Resolves(t)
  PROVE  WellBuilt(Resolved(t))
<1> DEFINE b == Resolved(t)
<1>1. DOMAIN b = DOMAIN t /\ << >> \in DOMAIN b /\ IsFiniteSet(DOMAIN b)
  BY DEF Tree, Resolved
<1>2. ASSUME NEW place \in DOMAIN b
      PROVE  /\ place \in Seq(Nat) /\ t[place] \in ProviderConfig
             /\ b[place].kind = t[place].kind /\ b[place].judges = Judges(t[place])
             /\ b[place].command = t[place].command /\ b[place].bin = t[place].bin
             /\ IsJudge(place) => b[place].label = Label(t, place)
  BY <1>1 DEF Resolved, Tree
<1>3. ASSUME NEW place \in DOMAIN b
      PROVE  /\ Given(t[place]) \subseteq Allowed[t[place].kind]
             /\ InPlace(t[place], place)
             /\ t[place].kind = "command" => t[place].command \notin {None, Blank}
             /\ t[place].kind = "llmlint" => t[place].bin # Blank
             /\ t[place].kind = "split" => SplitShape(t[place]) /\ ~LabelsTaken(t, place)
  BY <1>1 DEF Resolves
<1> HIDE DEF b
<1>4. ASSUME NEW place \in DOMAIN b, NEW k \in DOMAIN place
      PROVE  Way(place, k - 1) \in DOMAIN b /\ b[Way(place, k - 1)].kind = "split"
  <2>1. Way(place, k - 1) \in DOMAIN b /\ place[k] \in Below(t[Way(place, k - 1)])
    BY <1>1 DEF Tree
  <2>2. QED
    BY <1>2, <1>3, <2>1, OnlySplitsBranch
<1>5. ASSUME NEW place \in DOMAIN b, b[place].kind = "split"
      PROVE  /\ Append(place, 0) \in DOMAIN b /\ b[place].judges > 0
             /\ \A i \in 1..b[place].judges :
                  /\ Append(place, i) \in DOMAIN b /\ b[Append(place, i)].label # BadLabel
                  /\ \A j \in 1..b[place].judges :
                       i # j => b[Append(place, i)].label # b[Append(place, j)].label
  <2>1. /\ place \in Seq(Nat) /\ b[place].judges = Judges(t[place])
        /\ Judges(t[place]) \in Nat /\ SplitShape(t[place]) /\ ~LabelsTaken(t, place)
    BY <1>2, <1>3, <1>5, JudgesType
  <2>2. \A step \in Below(t[place]) : Append(place, step) \in DOMAIN b
    BY <1>1 DEF Tree
  <2>3. Append(place, 0) \in DOMAIN b /\ b[place].judges > 0
    BY <2>1, <2>2 DEF SplitShape, Below
  <2>4. ASSUME NEW i \in 1..b[place].judges
        PROVE  /\ Append(place, i) \in DOMAIN b
               /\ b[Append(place, i)].label = Label(t, Append(place, i))
    <3>1. i \in Below(t[place])
      BY <2>1 DEF Below
    <3>2. Append(place, i) \in DOMAIN b
      BY <2>2, <3>1
    <3>3. IsJudge(Append(place, i))
      BY <2>1, AppendIsJudge
    <3>4. QED
      BY <1>2, <3>2, <3>3
  <2>5. ASSUME NEW i \in 1..b[place].judges
        PROVE  Label(t, Append(place, i)) # BadLabel
    <3>1. t[Append(place, i)].label # BadLabel
      BY <2>1 DEF LabelsTaken
    <3>2. \A kind, n : <<kind, n>> # BadLabel
      BY DEF BadLabel
    <3>3. QED
      BY <3>1, <3>2 DEF Label
  <2>6. \A i, j \in 1..b[place].judges :
          i # j => Label(t, Append(place, i)) # Label(t, Append(place, j))
    BY <2>1 DEF LabelsTaken
  <2>7. QED
    BY <2>3, <2>4, <2>5, <2>6
<1>6. ASSUME NEW place \in DOMAIN b
      PROVE  /\ b[place].kind \in Kinds /\ b[place].judges \in Nat
             /\ b[place].kind # "split" => b[place].judges = 0
             /\ b[place].kind = "command" => b[place].command \notin {None, Blank}
             /\ b[place].kind = "llmlint" => IsJudge(place) /\ b[place].bin # Blank
  <2>1. b[place].kind \in Kinds
    BY <1>2 DEF ProviderConfig
  <2>2. b[place].judges \in Nat
    BY <1>2, JudgesType
  <2>3. b[place].kind # "split" => b[place].judges = 0
    BY <1>2, <1>3, OnlySplitsBranch
  <2>4. QED
    BY <1>2, <1>3, <2>1, <2>2, <2>3 DEF InPlace
<1>7. QED
  BY <1>1, <1>2, <1>4, <1>5, <1>6 DEF WellBuilt, b

LEMMA WellBuiltIsBuilt ==
  ASSUME NEW b, WellBuilt(b)
  PROVE  ~BuildRefused(b)
<1>1. ASSUME NEW place \in DOMAIN b, b[place].kind = "split"
      PROVE  ~PanelRefused(b, place)
  <2>1. b[place].judges \in Nat /\ b[place].judges > 0
    BY <1>1 DEF WellBuilt
  <2>2. JudgesAt(b, place) # {}
    <3>1. 1 \in 1..b[place].judges
      BY <2>1
    <3>2. Append(place, 1) \in JudgesAt(b, place)
      BY <3>1 DEF JudgesAt
    <3>3. QED
      BY <3>2
  <2>3. ASSUME NEW judge \in JudgesAt(b, place)
        PROVE  b[judge].label # BadLabel
    BY <1>1 DEF WellBuilt, JudgesAt
  <2>4. ASSUME NEW judge \in JudgesAt(b, place), NEW other \in JudgesAt(b, place) \ {judge}
        PROVE  b[other].label # b[judge].label
    BY <1>1 DEF WellBuilt, JudgesAt
  <2>5. QED
    BY <2>2, <2>3, <2>4 DEF PanelRefused
<1>2. QED
  BY <1>1 DEF BuildRefused, WellBuilt

-----------------------------------------------------------------------------
(* Where calls get to. *)

LEMMA SameSequence ==
  ASSUME NEW S, NEW s \in Seq(S), NEW t \in Seq(S), Len(s) = Len(t),
         \A k \in 1..Len(s) : s[k] = t[k]
  PROVE  s = t
OBVIOUS

(* The worker's calls only ever go to skills. *)
LEMMA WorkerPlaces ==
  ASSUME NEW b, WellBuilt(b), NEW place \in GetsTo(b, "respond")
  PROVE  ~IsJudge(place) /\ \A k \in DOMAIN place : place[k] = 0
<1>1. place \in DOMAIN b /\ place \in Seq(Nat)
  BY DEF GetsTo, WellBuilt
<1>2. ASSUME NEW k \in DOMAIN place
      PROVE  place[k] = 0
  <2>1. Way(place, k) = Append(Way(place, k - 1), 0)
    BY <1>1, <1>2 DEF GetsTo, Asks
  <2>2. k \in 1..Len(place) /\ k - 1 \in 0..Len(place) /\ k \in 0..Len(place)
    BY <1>1, <1>2
  <2>3. /\ Way(place, k - 1) \in Seq(Nat) /\ Len(Way(place, k - 1)) = k - 1
        /\ Way(place, k)[k] = place[k]
    BY <1>1, <2>2, WayFacts
  <2>4. QED
    BY <2>1, <2>2, <2>3
<1>3. place # << >> => Last(place) = 0
  BY <1>1, <1>2 DEF Last
<1>4. QED
  BY <1>2, <1>3 DEF IsJudge

(* There is one worker. *)
LEMMA OneWorker ==
  ASSUME NEW b, WellBuilt(b),
         NEW l \in Reached(b, "respond"), NEW m \in Reached(b, "respond")
  PROVE  l = m
<1>1. /\ l \in DOMAIN b /\ l \in Seq(Nat) /\ b[l].kind # "split"
      /\ m \in DOMAIN b /\ m \in Seq(Nat) /\ b[m].kind # "split"
      /\ \A k \in DOMAIN l : l[k] = 0
      /\ \A k \in DOMAIN m : m[k] = 0
  BY WorkerPlaces DEF Reached, GetsTo, Leaves, WellBuilt
<1>2. ASSUME NEW x \in Seq(Nat), NEW y \in Seq(Nat), x \in DOMAIN b, y \in DOMAIN b,
             \A k \in DOMAIN x : x[k] = 0, \A k \in DOMAIN y : y[k] = 0,
             Len(x) < Len(y)
      PROVE  b[x].kind = "split"
  <2>1. Len(x) \in 0..Len(y) /\ Len(x) + 1 \in DOMAIN y
    BY <1>2
  <2>2. /\ Way(y, Len(x)) \in Seq(Nat) /\ Len(Way(y, Len(x))) = Len(x)
        /\ \A j \in 1..Len(x) : Way(y, Len(x))[j] = y[j]
    BY <1>2, <2>1, WayFacts
  <2>3. Way(y, Len(x)) = x
    <3>1. ASSUME NEW j \in 1..Len(x)
          PROVE  Way(y, Len(x))[j] = x[j]
      <4>1. DOMAIN x = 1..Len(x) /\ DOMAIN y = 1..Len(y)
        BY <1>2
      <4>2. j \in DOMAIN x /\ j \in DOMAIN y
        BY <1>2, <4>1
      <4>3. QED
        BY <1>2, <2>2, <4>2
    <3>2. QED
      BY <1>2, <2>2, <3>1, SameSequence
  <2>4. b[Way(y, Len(x) + 1 - 1)].kind = "split"
    BY <1>2, <2>1 DEF WellBuilt
  <2>5. QED
    BY <1>2, <2>3, <2>4
<1>3. Len(l) = Len(m)
  <2>1. ~(Len(l) < Len(m)) /\ ~(Len(m) < Len(l))
    BY <1>1, <1>2
  <2>2. Len(l) \in Nat /\ Len(m) \in Nat
    BY <1>1
  <2>3. QED
    BY <2>1, <2>2
<1>4. \A k \in 1..Len(l) : l[k] = m[k]
  BY <1>1, <1>3, SMTT(30)
<1>5. QED
  BY <1>1, <1>3, <1>4, SameSequence

(* The judges' calls stay at the top, or get to the judges of the panel    *)
(* there where none of those is a split.                                   *)
LEMMA JudgePlaces ==
  ASSUME NEW b, WellBuilt(b), \A i \in 1..b[<< >>].judges : b[<<i>>].kind # "split",
         NEW op, op # "respond", NEW place \in GetsTo(b, op)
  PROVE  \/ place = << >>
         \/ /\ b[<< >>].kind = "split"
            /\ \E i \in 1..b[<< >>].judges : place = <<i>>
            /\ place \in Asks(b, << >>, op)
            /\ b[place].kind # "split" /\ TakesPart(b[place].kind, op)
<1>1. place \in DOMAIN b /\ place \in Seq(Nat)
  BY DEF GetsTo, WellBuilt
<1>2. CASE place # << >>
  <2>1. 1 \in DOMAIN place /\ Len(place) \in Nat /\ Len(place) > 0
    BY <1>1, <1>2
  <2>2. /\ Way(place, 0) = << >> /\ Len(Way(place, 1)) = 1
        /\ Way(place, 1) \in Seq(Nat) /\ Way(place, 1)[1] = place[1]
    <3>1. 0 \in 0..Len(place) /\ 1 \in 0..Len(place) /\ 1 \in 1..1
      BY <2>1
    <3>2. QED
      BY <1>1, <3>1, WayFacts
  <2>3. Way(place, 1) = <<place[1]>>
    BY <2>2
  <2>4. <<place[1]>> \in Asks(b, << >>, op) /\ b[<< >>].kind = "split"
    <3>1. Way(place, 1) \in Asks(b, Way(place, 1 - 1), op) /\ b[Way(place, 1 - 1)].kind = "split"
      BY <1>1, <2>1 DEF GetsTo, WellBuilt
    <3>2. QED
      BY <2>2, <2>3, <3>1
  <2>5. \E i \in 1..b[<< >>].judges : <<place[1]>> = <<i>>
    <3>1. PICK i \in 1..b[<< >>].judges : <<place[1]>> = Append(<< >>, i)
      BY <2>4 DEF Asks, JudgesAt
    <3>2. Append(<< >>, i) = <<i>>
      OBVIOUS
    <3>3. QED
      BY <3>1, <3>2
  <2>6. b[<<place[1]>>].kind # "split"
    BY <2>5
  <2>7. Len(place) = 1
    <3>1. SUFFICES ASSUME Len(place) # 1 PROVE FALSE
      OBVIOUS
    <3>2. 2 \in DOMAIN place
      <4>1. DOMAIN place = 1..Len(place)
        BY <1>1
      <4>2. \A n \in Nat : n > 0 /\ n # 1 => 2 \in 1..n
        OBVIOUS
      <4>3. 2 \in 1..Len(place)
        BY <2>1, <3>1, <4>2
      <4>4. QED
        BY <4>1, <4>3
    <3>3. b[Way(place, 2 - 1)].kind = "split"
      BY <1>1, <3>2 DEF WellBuilt
    <3>4. QED
      BY <2>3, <2>6, <3>3
  <2>8. place = <<place[1]>>
    BY <1>1, <2>7
  <2>9. TakesPart(b[place].kind, op)
    BY <2>4, <2>8 DEF Asks
  <2>10. QED
    BY <2>4, <2>5, <2>6, <2>8, <2>9
<1>3. QED
  BY <1>2

(* Which calls a backend that was accepted never answers as invalid.       *)
LEMMA WorkerIsNotRefused ==
  ASSUME NEW b, WellBuilt(b)
  PROVE  ~Refuses(b, "respond")
<1>1. ASSUME NEW place \in GetsTo(b, "respond")
      PROVE  b[place].kind # "llmlint" /\ Asks(b, place, "respond") # {}
  BY WorkerPlaces DEF GetsTo, WellBuilt, Asks
<1>2. QED
  BY <1>1 DEF Refuses

LEMMA JudgesAreNotRefused ==
  ASSUME NEW b, WellBuilt(b), \A i \in 1..b[<< >>].judges : b[<<i>>].kind # "split",
         NEW op \in Ops \ {"respond"},
         \/ op \notin {"numeric", "assess"} \/ b[<< >>].kind # "split"
         \/ \E i \in 1..b[<< >>].judges : scores_and_writes(b[<<i>>])
  PROVE  ~Refuses(b, op)
<1>1. ASSUME NEW place \in GetsTo(b, op)
      PROVE  b[place].kind = "llmlint" => op \notin {"respond", "numeric", "assess"}
  <2>1. place = << >> => b[place].kind # "llmlint"
    BY DEF WellBuilt, IsJudge
  <2>2. place # << >> => TakesPart(b[place].kind, op)
    BY JudgePlaces
  <2>3. QED
    BY <2>1, <2>2 DEF TakesPart
<1>2. ASSUME NEW place \in GetsTo(b, op), b[place].kind = "split"
      PROVE  Asks(b, place, op) # {}
  <2>1. place = << >>
    BY <1>2, JudgePlaces
  <2>2. \E i \in 1..b[<< >>].judges : TakesPart(b[<<i>>].kind, op)
    <3>1. CASE op \notin {"numeric", "assess"}
      <4>1. b[<< >>].judges \in Nat /\ b[<< >>].judges > 0
        BY <1>2, <2>1 DEF WellBuilt
      <4>2. 1 \in 1..b[<< >>].judges
        BY <4>1
      <4>3. QED
        BY <3>1, <4>2 DEF TakesPart
    <3>2. CASE op \in {"numeric", "assess"}
      BY <1>2, <2>1, <3>2 DEF TakesPart, scores_and_writes
    <3>3. QED
      BY <3>1, <3>2
  <2>3. PICK i \in 1..b[<< >>].judges : TakesPart(b[<<i>>].kind, op)
    BY <2>2
  <2>4. Append(<< >>, i) = <<i>>
    OBVIOUS
  <2>5. <<i>> \in JudgesAt(b, << >>)
    BY <2>4 DEF JudgesAt
  <2>6. <<i>> \in Asks(b, << >>, op)
    BY <2>3, <2>5 DEF Asks
  <2>7. QED
    BY <2>1, <2>6
<1>3. QED
  BY <1>1, <1>2 DEF Refuses

-----------------------------------------------------------------------------
(* Judges who may change the tree. *)

LEMMA LastSetterWins ==
  ASSUME NEW S, NEW layers \in Seq(S), NEW setting, NEW i \in DOMAIN layers,
         layers[i][setting] # None,
         \A j \in DOMAIN layers : j > i => layers[j][setting] = None
  PROVE  Explained(layers, setting) = layers[i][setting]
<1> DEFINE setters == {k \in DOMAIN layers : layers[k][setting] # None}
<1>1. DOMAIN layers \subseteq Int
  OBVIOUS
<1>2. i \in setters /\ \A j \in setters : j <= i
  BY <1>1
<1>3. \A k \in setters : (\A j \in setters : j <= k) => k = i
  BY <1>1, <1>2
<1> DEFINE last == CHOOSE k \in setters : \A j \in setters : j <= k
<1>4. last \in setters /\ \A j \in setters : j <= last
  BY <1>2
<1>5. last = i
  BY <1>3, <1>4
<1>6. Explained(layers, setting) = layers[last][setting]
  BY <1>2 DEF Explained
<1>7. QED
  BY <1>5, <1>6

(* A judge's calls go by the defaults, then its files, then the environment. *)
LEMMA FilesOfAJudge ==
  ASSUME NEW around \in Surrounding, NEW leaf
  PROVE  /\ evaluator_configs(cli_judge_config(leaf.judge_config, around), around)
              = <<JUDGE_DEFAULTS>> \o JudgeFiles(around, leaf)
         /\ \E S : JudgeFiles(around, leaf) \in Seq(S)
<1>1. CASE leaf.judge_config # None
  <2> DEFINE file == ConfigFiles[leaf.judge_config[1]]
  <2>1. /\ cli_judge_config(leaf.judge_config, around) = <<file>>
        /\ JudgeFiles(around, leaf) = <<file>>
    BY <1>1 DEF cli_judge_config, JudgeFiles
  <2> HIDE DEF file
  <2>2. <<file>> # None /\ <<file>> \in Seq({file})
    BY DEF None
  <2>3. QED
    BY <2>1, <2>2 DEF evaluator_configs
<1>2. CASE leaf.judge_config = None /\ around.default_file # None
  <2>1. around.default_file \in Seq(Layer)
    BY DEF Surrounding, Optional
  <2>2. QED
    BY <1>2, <2>1 DEF evaluator_configs, cli_judge_config, JudgeFiles
<1>3. CASE leaf.judge_config = None /\ around.default_file = None
  <2>1. around.discovered \in Seq(Layer)
    BY DEF Surrounding
  <2>2. QED
    BY <1>3, <2>1 DEF evaluator_configs, cli_judge_config, JudgeFiles
<1>4. QED
  BY <1>1, <1>2, <1>3

LEMMA EditingIsWriting ==
  ASSUME NEW around \in Surrounding, NEW leaf, MayEdit(around, leaf)
  PROVE  Writable(leaf, around)
<1> DEFINE files == JudgeFiles(around, leaf)
           configs == <<JUDGE_DEFAULTS>> \o files
           layers == Append(configs, around.environment)
<1>1. PICK S : files \in Seq(S)
  BY FilesOfAJudge
<1>2. /\ leaf.kind = "oneharness"
      /\ \A k \in DOMAIN files : files[k].readable
      /\ \/ Edits(around.environment.mode)
         \/ /\ around.environment.mode = None
            /\ \E k \in DOMAIN files : /\ Edits(files[k].mode)
                                       /\ \A j \in DOMAIN files : j > k => files[j].mode = None
  BY DEF MayEdit
<1> HIDE DEF files
<1> DEFINE U == S \cup {JUDGE_DEFAULTS, around.environment}
<1>3. /\ files \in Seq(U) /\ configs \in Seq(U) /\ layers \in Seq(U)
      /\ Len(configs) = Len(files) + 1 /\ Len(layers) = Len(files) + 2
      /\ Len(files) \in Nat
  BY <1>1
<1>4. /\ configs[1] = JUDGE_DEFAULTS
      /\ \A k \in 1..Len(files) : configs[k + 1] = files[k]
      /\ \A k \in 1..Len(configs) : layers[k] = configs[k]
      /\ layers[Len(files) + 2] = around.environment
  BY <1>1, <1>3
<1>5. DOMAIN files = 1..Len(files) /\ DOMAIN configs = 1..(Len(files) + 1)
      /\ DOMAIN layers = 1..(Len(files) + 2)
  BY <1>3
<1>6. JUDGE_DEFAULTS.readable
  BY DEF JUDGE_DEFAULTS, NoLayer
<1> HIDE DEF configs, layers, U
<1>7. ASSUME NEW i \in DOMAIN configs
      PROVE  configs[i].readable
  <2>1. i = 1 \/ (i - 1 \in 1..Len(files) /\ i = (i - 1) + 1)
    BY <1>3, <1>5
  <2>2. QED
    BY <1>2, <1>4, <1>5, <1>6, <2>1
<1>8. Explained(layers, "mode") # None /\ is_writable(Explained(layers, "mode")[1])
  <2>1. CASE Edits(around.environment.mode)
    <3>1. /\ Len(files) + 2 \in DOMAIN layers
          /\ \A j \in DOMAIN layers : ~(j > Len(files) + 2)
      BY <1>3, <1>5
    <3>2. layers[Len(files) + 2].mode # None
      BY <1>4, <2>1 DEF Edits
    <3>3. Explained(layers, "mode") = layers[Len(files) + 2].mode
      BY <1>3, <3>1, <3>2, LastSetterWins
    <3>4. QED
      BY <1>4, <2>1, <3>3 DEF Edits, is_writable
  <2>2. CASE /\ around.environment.mode = None
             /\ \E k \in DOMAIN files : /\ Edits(files[k].mode)
                                        /\ \A j \in DOMAIN files : j > k => files[j].mode = None
    <3>1. PICK k \in DOMAIN files : /\ Edits(files[k].mode)
                                    /\ \A j \in DOMAIN files : j > k => files[j].mode = None
      BY <2>2
    <3>2. k \in 1..Len(files) /\ k + 1 \in DOMAIN layers /\ k + 1 \in 1..Len(configs)
      BY <1>3, <1>5
    <3>3. layers[k + 1] = files[k]
      BY <1>4, <3>2
    <3>4. ASSUME NEW j \in DOMAIN layers, j > k + 1
          PROVE  layers[j].mode = None
      <4>1. j = Len(files) + 2 \/ (j - 1 \in 1..Len(files) /\ j - 1 > k /\ j = (j - 1) + 1
                                  /\ j \in 1..Len(configs))
        BY <1>3, <1>5, <3>2, <3>4
      <4>2. QED
        BY <1>4, <1>5, <2>2, <3>1, <4>1
    <3>5. layers[k + 1].mode # None
      BY <3>1, <3>3 DEF Edits
    <3>6. Explained(layers, "mode") = layers[k + 1].mode
      BY <1>3, <3>2, <3>4, <3>5, LastSetterWins
    <3>7. QED
      BY <3>1, <3>3, <3>6 DEF Edits, is_writable
  <2>3. QED
    BY <1>2, <2>1, <2>2
<1>9. is_writable(resolve(configs, around))
  BY <1>8 DEF resolve, layers
<1>10. MayWrite(leaf.judge_config, around)
  BY <1>7, <1>9, FilesOfAJudge DEF MayWrite, configs, files
<1>11. QED
  BY <1>2, <1>10 DEF Writable

(* No two judges who may run at once run over a tree that one may change.  *)
LEMMA AllAlike ==
  ASSUME NEW S, \A x, y \in S : x = y
  PROVE  Cardinality(S) < 2
<1>1. CASE S = {}
  BY <1>1, FS_EmptySet
<1>2. CASE S # {}
  <2>1. PICK x \in S : S = {x}
    BY <1>2
  <2>2. Cardinality({x}) = 1
    BY FS_Singleton
  <2>3. QED
    BY <2>1, <2>2
<1>3. QED
  BY <1>1, <1>2

LEMMA PanelsAreRaceFree ==
  ASSUME NEW b, WellBuilt(b), \A i \in 1..b[<< >>].judges : b[<<i>>].kind # "split",
         NEW around \in Surrounding, ~RefusedPanel(b, around), NEW op \in Ops
  PROVE  \/ Cardinality(Reached(b, op)) < 2
         \/ b[<< >>].allow
         \/ \A l \in Reached(b, op) : ~MayEdit(around, b[l])
<1>1. CASE op = "respond"
  BY <1>1, OneWorker, AllAlike
<1>2. CASE op # "respond" /\ b[<< >>].kind # "split"
  <2>1. \A l \in Reached(b, op) : l = << >>
    BY <1>2, JudgePlaces DEF Reached
  <2>2. QED
    BY <2>1, AllAlike
<1>3. CASE op # "respond" /\ b[<< >>].kind = "split"
  <2>1. b[<< >>].judges \in Nat
    BY DEF WellBuilt
  <2>2. \A l \in Reached(b, op) : \E i \in 1..b[<< >>].judges : l = <<i>>
    BY <1>3, JudgePlaces DEF Reached, Leaves
  <2>3. CASE b[<< >>].judges < 2
    <3>1. \A i, j \in 1..b[<< >>].judges : i = j
      BY <2>1, <2>3
    <3>2. QED
      BY <2>2, <3>1, AllAlike
  <2>4. CASE b[<< >>].judges >= 2 /\ ~b[<< >>].allow
    <3>1. \A i \in 1..b[<< >>].judges : ~Writable(b[Append(<< >>, i)], around)
      BY <1>3, <2>4 DEF RefusedPanel, WellBuilt
    <3>2. \A i : Append(<< >>, i) = <<i>>
      OBVIOUS
    <3>3. ASSUME NEW l \in Reached(b, op)
          PROVE  ~MayEdit(around, b[l])
      BY <2>2, <3>1, <3>2, EditingIsWriting
    <3>4. QED
      BY <3>3
  <2>5. QED
    BY <2>1, <2>3, <2>4
<1>4. QED
  BY <1>1, <1>2, <1>3

-----------------------------------------------------------------------------
(* Names. *)

LabelsKept(b, leaf, f) ==
  f = [k \in 0..Len(leaf) |->
         IF k = 0 THEN << >>
         ELSE IF InPanel(b, Way(leaf, k)) THEN Append(f[k - 1], b[Way(leaf, k)].label)
         ELSE f[k - 1]]

LEMMA LabelsAreKept ==
  ASSUME NEW b, NEW leaf, NEW g, LabelsKept(b, leaf, g)
  PROVE  \E f : LabelsKept(b, leaf, f) /\ LabelsOf(b, leaf) = f[Len(leaf)]
<1> DEFINE f == CHOOSE f : f = [k \in 0..Len(leaf) |->
                                 IF k = 0 THEN << >>
                                 ELSE IF InPanel(b, Way(leaf, k))
                                 THEN Append(f[k - 1], b[Way(leaf, k)].label)
                                 ELSE f[k - 1]]
<1>1. LabelsKept(b, leaf, f)
  BY DEF LabelsKept
<1>2. LabelsOf(b, leaf) = f[Len(leaf)]
  BY DEF LabelsOf
<1>3. QED
  BY <1>1, <1>2

LEMMA LabelsAtTop ==
  ASSUME NEW b
  PROVE  LabelsOf(b, << >>) = << >>
<1> DEFINE leaf == << >>
           g == [k \in 0..0 |-> << >>]
<1>1. Len(leaf) = 0
  OBVIOUS
<1> HIDE DEF leaf
<1>2. LabelsKept(b, leaf, g)
  BY <1>1 DEF LabelsKept
<1>3. PICK f : LabelsKept(b, leaf, f) /\ LabelsOf(b, leaf) = f[Len(leaf)]
  BY <1>2, LabelsAreKept
<1>4. f[0] = << >>
  BY <1>1, <1>3 DEF LabelsKept
<1>5. QED
  BY <1>1, <1>3, <1>4 DEF leaf

LEMMA OneStep ==
  ASSUME NEW place \in Seq(Nat), Len(place) = 1
  PROVE  /\ Way(place, 1) = place /\ Front(place) = << >> /\ Last(place) = place[1]
         /\ place # << >>
<1>1. 0 \in 0..Len(place) /\ 1 \in 0..Len(place)
  OBVIOUS
<1>2. Way(place, 1) = place /\ Way(place, 0) = << >>
  BY <1>1, WayFacts
<1>3. Front(place) = Way(place, 0) /\ Last(place) = place[1]
  BY DEF Front, Way, Last
<1>4. place # << >>
  <2>1. 1 \in DOMAIN place
    OBVIOUS
  <2>2. DOMAIN << >> = {}
    OBVIOUS
  <2>3. QED
    BY <2>1, <2>2
<1>5. QED
  BY <1>2, <1>3, <1>4

LEMMA LabelsOfAJudge ==
  ASSUME NEW b, NEW i \in Nat \ {0}
  PROVE  LabelsOf(b, <<i>>) = IF b[<< >>].judges > 1 THEN <<b[<<i>>].label>> ELSE << >>
<1> DEFINE leaf == <<i>>
           labels == IF InPanel(b, leaf) THEN <<b[leaf].label>> ELSE << >>
           g == [k \in 0..1 |-> IF k = 0 THEN << >> ELSE labels]
<1>1. Len(leaf) = 1 /\ Way(leaf, 1) = leaf /\ Front(leaf) = << >> /\ Last(leaf) = i
      /\ leaf # << >>
  <2>1. leaf \in Seq(Nat) /\ Len(leaf) = 1 /\ leaf[1] = i
    OBVIOUS
  <2>2. QED
    BY <2>1, OneStep
<1>2. InPanel(b, leaf) = (b[<< >>].judges > 1)
  BY <1>1 DEF InPanel, IsJudge
<1> HIDE DEF leaf
<1>3. labels = IF InPanel(b, leaf) THEN Append(<< >>, b[leaf].label) ELSE << >>
  OBVIOUS
<1> HIDE DEF labels
<1>4. LabelsKept(b, leaf, g)
  <2>1. 0..Len(leaf) = {0, 1} /\ 0..1 = {0, 1}
    BY <1>1
  <2>2. QED
    BY <1>1, <1>3, <2>1 DEF LabelsKept
<1>5. PICK f : LabelsKept(b, leaf, f) /\ LabelsOf(b, leaf) = f[Len(leaf)]
  BY <1>4, LabelsAreKept
<1>6. f[0] = << >> /\ f[1] = labels
  <2>1. 0 \in 0..Len(leaf) /\ 1 \in 0..Len(leaf)
    BY <1>1
  <2>2. f[0] = << >>
    BY <1>5, <2>1 DEF LabelsKept
  <2>3. f[1] = IF InPanel(b, Way(leaf, 1)) THEN Append(f[0], b[Way(leaf, 1)].label) ELSE f[0]
    <3>1. f[1] = IF 1 = 0 THEN << >>
                 ELSE IF InPanel(b, Way(leaf, 1)) THEN Append(f[1 - 1], b[Way(leaf, 1)].label)
                 ELSE f[1 - 1]
      BY <1>5, <2>1 DEF LabelsKept
    <3>2. 1 - 1 = 0 /\ 1 # 0
      OBVIOUS
    <3>3. QED
      BY <3>1, <3>2
  <2>4. QED
    BY <1>1, <1>3, <2>2, <2>3
<1>7. LabelsOf(b, leaf) = labels
  BY <1>1, <1>5, <1>6
<1>8. QED
  BY <1>2, <1>7 DEF leaf, labels

(* A judge's calls are known by their kind and, in a panel of several, its *)
(* label; a supervision continues the session of that very name.           *)
OneLabelAtMost(b, leaf) == LabelsOf(b, leaf) = << >> \/ \E label : LabelsOf(b, leaf) = <<label>>

LEMMA JudgeNames ==
  ASSUME NEW b, NEW leaf, NEW op \in Ops \ {"respond"}, OneLabelAtMost(b, leaf)
  PROVE  /\ history_name(b, leaf, op) = <<Suffix[op]>> \o LabelsOf(b, leaf)
         /\ SessionOf(b, leaf, op) \in {None, history_name(b, leaf, op)}
<1>1. ScopeLabel(b, leaf) = LabelsOf(b, leaf)
  <2>1. \A label : Last(<<label>>) = label /\ <<label>> # << >>
    BY DEF Last
  <2>2. QED
    BY <2>1 DEF ScopeLabel, OneLabelAtMost, None
<1>2. history_name(b, leaf, op) = <<Suffix[op]>> \o LabelsOf(b, leaf)
  BY <1>1 DEF history_name, labelled
<1>3. SessionOf(b, leaf, op) \in {None, <<Suffix[op]>> \o LabelsOf(b, leaf)}
  BY DEF SessionOf, session_for, labelled, Ops
<1>4. QED
  BY <1>2, <1>3

LEMMA WorkerNames ==
  ASSUME NEW b, NEW leaf
  PROVE  /\ history_name(b, leaf, "respond") = <<"skill">>
         /\ SessionOf(b, leaf, "respond") = history_name(b, leaf, "respond")
BY DEF history_name, SessionOf, Suffix

LEMMA JudgeLabels ==
  ASSUME NEW b, WellBuilt(b), \A i \in 1..b[<< >>].judges : b[<<i>>].kind # "split",
         NEW op \in Ops \ {"respond"}, NEW leaf \in Reached(b, op)
  PROVE  OneLabelAtMost(b, leaf)
<1>1. b[<< >>].judges \in Nat
  BY DEF WellBuilt
<1>2. CASE leaf = << >>
  BY <1>2, LabelsAtTop DEF OneLabelAtMost
<1>3. CASE \E i \in 1..b[<< >>].judges : leaf = <<i>>
  <2>1. PICK i \in 1..b[<< >>].judges : leaf = <<i>>
    BY <1>3
  <2>2. i \in Nat \ {0}
    BY <1>1
  <2>3. QED
    BY <2>1, <2>2, LabelsOfAJudge DEF OneLabelAtMost
<1>4. QED
  BY <1>2, <1>3, JudgePlaces DEF Reached

LEMMA PairOf == \A x, p : (<<x>> \o <<p>>)[2] = p
<1>1. ASSUME NEW S, NEW s \in Seq(S), NEW t \in Seq(S), Len(s) = 1, Len(t) = 1
      PROVE  (s \o t)[2] = t[1]
  <2>1. 2 \in (Len(s) + 1)..(Len(s) + Len(t)) /\ 2 - Len(s) = 1
    BY <1>1
  <2>2. \A k \in (Len(s) + 1)..(Len(s) + Len(t)) : (s \o t)[k] = t[k - Len(s)]
    OBVIOUS
  <2>3. (s \o t)[2] = t[2 - Len(s)]
    BY <2>1, <2>2
  <2>4. QED
    BY <2>1, <2>3
<1>2. ASSUME NEW x, NEW p
      PROVE  (<<x>> \o <<p>>)[2] = p
  <2>1. <<x>> \in Seq({x, p}) /\ <<p>> \in Seq({x, p}) /\ Len(<<x>>) = 1 /\ Len(<<p>>) = 1
        /\ <<p>>[1] = p
    OBVIOUS
  <2>2. QED
    BY <1>1, <2>1
<1>3. QED
  BY <1>2

LEMMA FirstOfAName ==
  ASSUME NEW b, WellBuilt(b), \A i \in 1..b[<< >>].judges : b[<<i>>].kind # "split",
         NEW op \in Ops \ {"respond"}, NEW leaf \in Reached(b, op)
  PROVE  history_name(b, leaf, op) # <<"skill">>
<1>1. Suffix[op] # "skill"
  BY DEF Ops, Suffix
<1>2. \A x : (<<x>> \o << >>)[1] = x /\ \A label : (<<x>> \o <<label>>)[1] = x
  OBVIOUS
<1>3. history_name(b, leaf, op)[1] = Suffix[op]
  <2>1. OneLabelAtMost(b, leaf)
    BY JudgeLabels
  <2>2. history_name(b, leaf, op) = <<Suffix[op]>> \o LabelsOf(b, leaf)
    BY <2>1, JudgeNames
  <2>3. QED
    BY <1>2, <2>1, <2>2 DEF OneLabelAtMost
<1>4. QED
  BY <1>1, <1>3

(* What an invocation is known by says whose it was. *)
LEMMA NamesDiffer ==
  ASSUME NEW b, WellBuilt(b), \A i \in 1..b[<< >>].judges : b[<<i>>].kind # "split",
         NEW op \in Ops, NEW other \in Ops,
         NEW l \in Reached(b, op), NEW m \in Reached(b, other), l # m
  PROVE  history_name(b, l, op) # history_name(b, m, other)
<1>1. CASE op = "respond" /\ other = "respond"
  BY <1>1, OneWorker
<1>2. CASE op = "respond" /\ other # "respond"
  BY <1>2, WorkerNames, FirstOfAName
<1>3. CASE op # "respond" /\ other = "respond"
  BY <1>3, WorkerNames, FirstOfAName
<1>4. CASE op # "respond" /\ other # "respond"
  <2>1. b[<< >>].kind = "split"
    BY <1>4, JudgePlaces DEF Reached
  <2>2. l # << >> /\ m # << >>
    BY <2>1 DEF Reached, Leaves
  <2>3. PICK i \in 1..b[<< >>].judges : l = <<i>>
    BY <1>4, <2>2, JudgePlaces DEF Reached
  <2>4. PICK j \in 1..b[<< >>].judges : m = <<j>>
    BY <1>4, <2>2, JudgePlaces DEF Reached
  <2>5. i # j /\ b[<< >>].judges \in Nat
    BY <2>3, <2>4 DEF WellBuilt
  <2>6. b[<< >>].judges > 1 /\ i \in Nat \ {0} /\ j \in Nat \ {0}
    BY <2>5
  <2>7. LabelsOf(b, l) = <<b[l].label>> /\ LabelsOf(b, m) = <<b[m].label>>
    BY <2>3, <2>4, <2>6, LabelsOfAJudge
  <2>8. b[l].label # b[m].label
    <3>1. \A k : Append(<< >>, k) = <<k>>
      OBVIOUS
    <3>2. b[Append(<< >>, i)].label # b[Append(<< >>, j)].label
      BY <2>1, <2>5 DEF WellBuilt
    <3>3. QED
      BY <2>3, <2>4, <3>1, <3>2
  <2>9. /\ history_name(b, l, op) = <<Suffix[op]>> \o <<b[l].label>>
        /\ history_name(b, m, other) = <<Suffix[other]>> \o <<b[m].label>>
    BY <1>4, <2>7, JudgeNames DEF OneLabelAtMost
  <2>10. QED
    BY <2>8, <2>9, PairOf
<1>5. QED
  BY <1>1, <1>2, <1>3, <1>4

-----------------------------------------------------------------------------
(* The plan that a run is driven by. *)

GoodPlan(p) ==
  /\ WellBuilt(p.provider)
  /\ p.around \in Surrounding
  /\ ~RefusedPanel(p.provider, p.around)

Scored == [kind : {"boolean", "numeric"}, scale : {<< >>} \cup (Int \X Int)]
GoodRun(p) ==
  /\ GoodPlan(p)
  /\ p.evals \in Seq(Scored)
  /\ {p.user, p.done_when, p.assessment} \subseteq BOOLEAN
  /\ p.max_turns \in Nat
  /\ \/ p.provider[<< >>].kind # "split"
     \/ ~p.assessment /\ \A k \in DOMAIN p.evals : p.evals[k].kind = "boolean"
     \/ \E k \in 1..p.provider[<< >>].judges : scores_and_writes(p.provider[<<k>>])

Accepted(i) == i \in Invocations /\ Accepts(Config(i), i.around)

(* What Accepts leaves is what the backends and the scores rest on. *)
LEMMA AcceptedPlanIsGood ==
  ASSUME NEW i, Accepted(i)
  PROVE  GoodPlan(Plan(Config(i), i.around))
<1> DEFINE c == Config(i)
<1>1. IsConfig(c) /\ i.around \in Surrounding
  BY ConfigIsOne, RunPlanAssumption DEF Accepted
<1>2. Resolves(c.provider) /\ ~RefusedPanel(Resolved(c.provider), i.around)
  BY DEF Accepted, Accepts
<1>3. WellBuilt(Resolved(c.provider))
  BY <1>1, <1>2, ResolvedIsWellBuilt DEF IsConfig
<1>4. Plan(c, i.around).provider = Resolved(c.provider) /\ Plan(c, i.around).around = i.around
  BY DEF Plan
<1>5. QED
  BY <1>1, <1>2, <1>3, <1>4 DEF GoodPlan

LEMMA EvalType ==
  ASSUME NEW e \in EvalConfig
  PROVE  Eval(e) \in Scored /\ Eval(e).kind = e.kind
<1>1. DefaultScale \in Int \X Int
  BY DEF DefaultScale
<1>2. OrElse(e.scale, DefaultScale) \in Int \X Int
  BY <1>1, OrElseType DEF EvalConfig
<1>3. QED
  BY <1>2 DEF Eval, Scored, EvalConfig

LEMMA DrivenIsGood ==
  ASSUME NEW i, Accepted(i)
  PROVE  GoodRun(Driven(Plan(Config(i), i.around)))
<1> DEFINE c == Config(i)
           p == Plan(c, i.around)
           d == Driven(p)
<1>1. IsConfig(c) /\ Accepts(c, i.around)
  BY ConfigIsOne DEF Accepted
<1>2. GoodPlan(p)
  BY AcceptedPlanIsGood
<1>3. /\ p.provider = Resolved(c.provider)
      /\ p.evals = [k \in DOMAIN c.evals |-> Eval(c.evals[k])]
      /\ p.assessment = (c.assessment \notin {None, Blank})
      /\ p.settings = Settings(c) /\ p.conversation = Conversation(c)
  BY DEF Plan
<1>4. Settings(c).max_turns \in Nat
  <2>1. OrElse(c.user, DefaultUser).max_turns \in Optional(Nat)
    <3>1. CASE c.user = None
      BY <3>1, SomeType DEF OrElse, DefaultUser
    <3>2. CASE c.user # None
      <4>1. c.user[1] \in UserConfig
        BY <1>1, <3>2, GivenType DEF IsConfig
      <4>2. QED
        BY <3>2, <4>1 DEF OrElse, UserConfig
    <3>3. QED
      BY <3>1, <3>2
  <2>2. DefaultTurns \in Nat
    BY PlanConfigAssumption
  <2>3. OrElse(OrElse(c.user, DefaultUser).max_turns, DefaultTurns) \in Nat
    BY <2>1, <2>2, OrElseType
  <2>4. QED
    BY <2>3 DEF Settings
<1>5. p.evals \in Seq(Scored) /\ \A k \in DOMAIN p.evals : p.evals[k].kind = c.evals[k].kind
  <2>1. c.evals \in Seq(EvalConfig)
    BY <1>1 DEF IsConfig
  <2>2. \A k \in DOMAIN c.evals : Eval(c.evals[k]) \in Scored
                                 /\ Eval(c.evals[k]).kind = c.evals[k].kind
    BY <2>1, EvalType
  <2> HIDE DEF p
  <2>3. QED
    BY <1>3, <2>1, <2>2
<1>6. \/ p.provider[<< >>].kind # "split"
      \/ ~p.assessment /\ \A k \in DOMAIN p.evals : p.evals[k].kind = "boolean"
      \/ \E k \in 1..p.provider[<< >>].judges : scores_and_writes(p.provider[<<k>>])
  <2>1. Answerable(p.provider, c)
    BY <1>1, <1>3 DEF Accepts
  <2>2. \A k \in DOMAIN p.evals : k \in DOMAIN c.evals
    BY <1>3
  <2> HIDE DEF p
  <2>3. QED
    BY <1>3, <1>5, <2>1, <2>2 DEF Answerable
<1> HIDE DEF p
<1>7. /\ d.provider = p.provider /\ d.around = p.around /\ d.evals = p.evals
      /\ d.assessment = p.assessment /\ d.max_turns = p.settings.max_turns
      /\ d.user \in BOOLEAN /\ d.done_when \in BOOLEAN
  BY DEF Driven
<1> HIDE DEF d
<1>8. p.assessment \in BOOLEAN
  BY <1>3
<1>9. QED
  BY <1>2, <1>3, <1>4, <1>5, <1>6, <1>7, <1>8 DEF GoodRun, GoodPlan, d, p

-----------------------------------------------------------------------------
(* What holds of the plan in every phase of the run. *)

Running == {"worker", "judge", "recovery", "criterion", "evals", "report"}
PlanInv ==
  /\ phase \in {"drafting", "given", "planned", "over"} \cup Running
  /\ phase \in {"drafting", "given"} =>
       plan = None /\ exit = None /\ \E i \in Invocations : given = <<i>>
  /\ phase = "planned" => \E i : /\ Accepted(i) /\ given = <<i>>
                                 /\ plan = <<Plan(Config(i), i.around)>>
  /\ phase \in Running => plan # None
  /\ phase \in Running \cup {"over"} /\ plan # None => GoodRun(plan[1])

(* A step of the conversation or of the scores. *)
RunStep == \/ StopsAtOpening \/ WorkerReplies \/ WorkerFails \/ Supervises \/ SupervisorFails
           \/ Rejudge \/ ScoreEval \/ Assess \/ ScoreFails \/ Report

LEMMA RunStepStays ==
  ASSUME RunStep
  PROVE  phase \in Running /\ phase' \in Running \cup {"over"} /\ UNCHANGED <<given, plan>>
<1>1. CASE StopsAtOpening
  BY <1>1 DEF StopsAtOpening, EndLoop, Running
<1>2. CASE WorkerReplies
  BY <1>2 DEF WorkerReplies, AfterReply, EndLoop, GoOn, Running
<1>3. CASE WorkerFails
  BY <1>3 DEF WorkerFails, Failed, Running
<1>4. CASE Supervises
  BY <1>4 DEF Supervises, EndLoop, GoOn, Failed, Running
<1>5. CASE SupervisorFails
  BY <1>5 DEF SupervisorFails, Failed, Running
<1>6. CASE Rejudge
  BY <1>6 DEF Rejudge, Running
<1>7. CASE ScoreEval
  BY <1>7 DEF ScoreEval, Running
<1>8. CASE Assess
  BY <1>8 DEF Assess, Running
<1>9. CASE ScoreFails
  BY <1>9 DEF ScoreFails, Asking, None, Failed, Running
<1>10. CASE Report
  BY <1>10 DEF Report, Running
<1>11. QED
  BY <1>1, <1>2, <1>3, <1>4, <1>5, <1>6, <1>7, <1>8, <1>9, <1>10 DEF RunStep

LEMMA NextIsKnown == Next <=> DraftNote \/ ReadPlan \/ Build \/ RunStep
BY DEF Next, RunStep

LEMMA PlanInvInit == Init => PlanInv
BY DEF Init, PlanInv, Running

LEMMA PlanInvStep == PlanInv /\ [Next]_vars => PlanInv'
<1> SUFFICES ASSUME PlanInv, [Next]_vars
             PROVE  PlanInv'
  OBVIOUS
<1> USE DEF Running
<1>1. CASE DraftNote
  BY <1>1 DEF DraftNote, PlanInv, outcome
<1>2. CASE ReadPlan
  <2>1. PICK i \in Invocations : given = <<i>>
    BY <1>2 DEF ReadPlan, PlanInv
  <2>2. given[1] = i
    BY <2>1
  <2>3. CASE CanStart(i) /\ Accepts(Config(i), i.around)
    <3>1. Accepted(i)
      BY <2>3 DEF Accepted
    <3>2. phase' = "planned" /\ plan' = <<Plan(Config(i), i.around)>> /\ given' = <<i>>
      BY <1>2, <2>1, <2>2, <2>3 DEF ReadPlan
    <3>3. QED
      BY <3>1, <3>2 DEF PlanInv
  <2>4. CASE ~(CanStart(i) /\ Accepts(Config(i), i.around))
    <3>1. phase' = "over" /\ plan' = None
      BY <1>2, <2>2, <2>4 DEF ReadPlan, PlanInv
    <3>2. QED
      BY <3>1 DEF PlanInv
  <2>5. QED
    BY <2>3, <2>4
<1>3. CASE Build
  <2>1. PICK i : Accepted(i) /\ given = <<i>> /\ plan = <<Plan(Config(i), i.around)>>
    BY <1>3 DEF Build, PlanInv
  <2>2. plan[1] = Plan(Config(i), i.around)
    BY <2>1
  <2>3. plan' = <<Driven(plan[1])>> /\ phase' \in {"worker", "over"}
    BY <1>3 DEF Build
  <2>4. plan'[1] = Driven(plan[1]) /\ plan' # None
    BY <2>3 DEF None
  <2>5. GoodRun(plan'[1])
    BY <2>1, <2>2, <2>4, DrivenIsGood
  <2>6. QED
    BY <2>3, <2>4, <2>5 DEF PlanInv
<1>4. CASE RunStep
  <2>1. phase \in Running /\ phase' \in Running \cup {"over"} /\ UNCHANGED <<given, plan>>
    BY <1>4, RunStepStays
  <2>2. plan # None /\ GoodRun(plan[1])
    BY <2>1 DEF PlanInv
  <2>3. QED
    BY <2>1, <2>2 DEF PlanInv
<1>5. CASE UNCHANGED vars
  BY <1>5 DEF vars, PlanInv, outcome
<1>6. QED
  BY <1>1, <1>2, <1>3, <1>4, <1>5, NextIsKnown

(* A run is only ever driven by a plan whose configuration was accepted,   *)
(* with all that the refusals of into_plan leave.                          *)
THEOREM PlanInvHolds == Spec => []PlanInv
<1>1. PlanInv /\ [Next]_vars => PlanInv'
  BY PlanInvStep
<1>2. QED
  BY PlanInvInit, <1>1, PTL DEF Spec

-----------------------------------------------------------------------------
(* The scores so far say what the judges said of the finished transcript. *)

Result == [kind : {"boolean", "numeric"}, yes : BOOLEAN]
ScoresType ==
  /\ turns \in Nat /\ results \in Seq(Result) /\ done \in {None, <<TRUE>>, <<FALSE>>}
  /\ \E S : verdicts \in Seq(S)

CriterionScored == IF Criteria = {} THEN done = None
                   ELSE done # None /\ (done[1] => JudgedYes(Criteria, 0))
EvalsScored ==
  /\ Len(results) <= Len(plan[1].evals)
  /\ \A i \in DOMAIN results : /\ results[i].kind = plan[1].evals[i].kind
                               /\ results[i].yes => JudgedYes({}, i)

ScoresInv ==
  /\ ScoresType
  /\ phase \in {"drafting", "given", "planned", "worker", "judge", "recovery", "criterion"} =>
       results = << >> /\ done = None
  /\ phase \in {"evals", "report"} => CriterionScored /\ EvalsScored
  /\ phase = "report" => Len(results) = Len(plan[1].evals)
  /\ exit # None => phase = "over"
  /\ ZeroExitIsEarned

LEMMA NextEvalIsOne ==
  ASSUME PlanInv, ScoresType, phase = "evals", Len(results) < Len(plan[1].evals)
  PROVE  /\ Len(results) + 1 \in DOMAIN plan[1].evals
         /\ NextEval = plan[1].evals[Len(results) + 1] /\ NextEval \in Scored
<1>1. plan[1].evals \in Seq(Scored)
  BY DEF PlanInv, GoodRun, Running
<1>2. Len(results) \in Nat /\ Len(plan[1].evals) \in Nat
  BY <1>1 DEF ScoresType
<1>3. Len(results) + 1 \in 1..Len(plan[1].evals)
  BY <1>2
<1>4. QED
  BY <1>1, <1>3 DEF NextEval

LEMMA ScoresTypeStep == PlanInv /\ ScoresType /\ [Next]_vars => ScoresType'
<1> SUFFICES ASSUME PlanInv, ScoresType, [Next]_vars
             PROVE  ScoresType'
  OBVIOUS
<1>1. PICK S : verdicts \in Seq(S)
  BY DEF ScoresType
<1>2. ASSUME verdicts' = verdicts
      PROVE  \E T : verdicts' \in Seq(T)
  BY <1>1, <1>2
<1>3. ASSUME NEW v, verdicts' = Append(verdicts, v)
      PROVE  \E T : verdicts' \in Seq(T)
  <2>1. Append(verdicts, v) \in Seq(S \cup {v})
    BY <1>1
  <2>2. QED
    BY <1>3, <2>1
<1>4. CASE DraftNote \/ ReadPlan \/ Build \/ StopsAtOpening \/ WorkerFails \/ Supervises
           \/ SupervisorFails \/ Assess \/ ScoreFails \/ Report \/ UNCHANGED vars
  <2>1. UNCHANGED <<turns, results, done, verdicts>>
    BY <1>4 DEF DraftNote, ReadPlan, Build, StopsAtOpening, WorkerFails, Supervises,
                SupervisorFails, Assess, ScoreFails, Report, vars, loop, scores
  <2>2. QED
    BY <1>2, <2>1 DEF ScoresType
<1>5. CASE WorkerReplies
  <2>1. turns' = turns + 1 /\ UNCHANGED <<results, done, verdicts>>
    BY <1>5 DEF WorkerReplies, scores
  <2>2. turns' \in Nat
    BY <2>1 DEF ScoresType
  <2>3. QED
    BY <1>2, <2>1, <2>2 DEF ScoresType
<1>6. CASE Rejudge
  <2>1. UNCHANGED <<turns, results>>
    BY <1>6 DEF Rejudge, loop
  <2>2. \/ UNCHANGED <<done, verdicts>>
        \/ \E yes \in BOOLEAN : \E v : done' = <<yes>> /\ verdicts' = Append(verdicts, v)
    BY <1>6 DEF Rejudge
  <2>3. \E T : verdicts' \in Seq(T)
    BY <1>2, <1>3, <2>2
  <2>4. done' \in {None, <<TRUE>>, <<FALSE>>}
    BY <2>2 DEF ScoresType
  <2>5. QED
    BY <2>1, <2>3, <2>4 DEF ScoresType
<1>7. CASE ScoreEval
  <2>1. NextEval \in Scored
    BY <1>7, NextEvalIsOne DEF ScoreEval
  <2>2. PICK yes \in BOOLEAN :
          /\ results' = Append(results, [kind |-> NextEval.kind, yes |-> yes])
          /\ \E v : verdicts' = Append(verdicts, v)
    BY <1>7 DEF ScoreEval
  <2>3. [kind |-> NextEval.kind, yes |-> yes] \in Result
    BY <2>1 DEF Scored, Result
  <2>4. UNCHANGED <<turns, done>>
    BY <1>7 DEF ScoreEval, loop
  <2>5. results' \in Seq(Result)
    BY <2>2, <2>3 DEF ScoresType
  <2>6. \E T : verdicts' \in Seq(T)
    BY <1>3, <2>2
  <2>7. QED
    BY <2>4, <2>5, <2>6 DEF ScoresType
<1>8. QED
  BY <1>4, <1>5, <1>6, <1>7 DEF Next

(* A verdict stays one when another follows. *)
LEMMA VerdictsStay ==
  ASSUME ScoresType, NEW v, verdicts' = Append(verdicts, v), UNCHANGED turns, NEW of, NEW eval
  PROVE  /\ JudgedYes(of, eval) => JudgedYes(of, eval)'
         /\ v.of = of /\ v.eval = eval /\ v.yes /\ v.turns = turns => JudgedYes(of, eval)'
<1>1. PICK S : verdicts \in Seq(S)
  BY DEF ScoresType
<1>2. /\ \A i \in DOMAIN verdicts : i \in DOMAIN verdicts' /\ verdicts'[i] = verdicts[i]
      /\ Len(verdicts) + 1 \in DOMAIN verdicts' /\ verdicts'[Len(verdicts) + 1] = v
  BY <1>1
<1>3. QED
  BY <1>2 DEF JudgedYes
LEMMA ScoresInvInit == Init => ScoresInv
<1> SUFFICES ASSUME Init PROVE ScoresInv
  OBVIOUS
<1>1. results = << >> /\ done = None /\ verdicts = << >> /\ turns = 0 /\ exit = None
      /\ phase = "drafting"
  BY DEF Init
<1>2. << >> \in Seq(Result) /\ << >> \in Seq({})
  OBVIOUS
<1>3. ScoresType
  BY <1>1, <1>2 DEF ScoresType
<1>4. ZeroExitIsEarned
  BY <1>1 DEF ZeroExitIsEarned, None
<1>5. QED
  BY <1>1, <1>3, <1>4 DEF ScoresInv

LEMMA RejudgeScores ==
  ASSUME PlanInv, ScoresInv, Rejudge
  PROVE  CriterionScored' /\ EvalsScored' /\ phase' = "evals" /\ UNCHANGED <<exit, plan>>
<1>1. UNCHANGED <<plan, bound, turns, results, exit>> /\ phase = "criterion"
      /\ phase' = "evals"
  BY DEF Rejudge, loop, outcome
<1>2. results = << >> /\ done = None /\ ScoresType
  BY <1>1 DEF ScoresInv
<1>3. Criteria' = Criteria
  BY <1>1 DEF Criteria, ConfiguredOnly
<1>4. CriterionScored'
  <2>1. CASE Criteria = {}
    BY <1>2, <1>3, <2>1 DEF Rejudge, CriterionScored
  <2>2. CASE Criteria # {}
    <3>1. PICK yes \in BOOLEAN :
            /\ done' = <<yes>>
            /\ \E spent : verdicts' = Append(verdicts, Verdict(Criteria, 0, yes, spent))
      BY <2>2 DEF Rejudge
    <3> PICK spent : verdicts' = Append(verdicts, Verdict(Criteria, 0, yes, spent))
      BY <3>1
    <3>2. yes => JudgedYes(Criteria, 0)'
      BY <1>1, <1>2, <1>3, <3>1, VerdictsStay DEF Verdict
    <3>3. done' # None /\ done'[1] = yes
      BY <3>1 DEF None
    <3>4. QED
      BY <1>3, <2>2, <3>2, <3>3 DEF CriterionScored
  <2>3. QED
    BY <2>1, <2>2
<1>5. EvalsScored'
  <2>1. plan[1].evals \in Seq(Scored)
    BY <1>1 DEF PlanInv, GoodRun, Running
  <2>2. Len(plan[1].evals) \in Nat /\ Len(results) = 0 /\ DOMAIN results = {}
    BY <1>2, <2>1
  <2>3. QED
    BY <1>1, <2>2 DEF EvalsScored
<1>6. QED
  BY <1>1, <1>4, <1>5

LEMMA ScoreEvalScores ==
  ASSUME PlanInv, ScoresInv, ScoreEval
  PROVE  CriterionScored' /\ EvalsScored' /\ phase' = "evals" /\ UNCHANGED <<exit, plan>>
<1>1. /\ UNCHANGED <<plan, bound, turns, done, exit>> /\ phase = "evals" /\ phase' = "evals"
      /\ Len(results) < Len(plan[1].evals)
  BY DEF ScoreEval, loop, outcome
<1>2. ScoresType /\ CriterionScored /\ EvalsScored
  BY <1>1 DEF ScoresInv
<1>3. Criteria' = Criteria
  BY <1>1 DEF Criteria, ConfiguredOnly
<1>4. PICK yes \in BOOLEAN :
        /\ results' = Append(results, [kind |-> NextEval.kind, yes |-> yes])
        /\ \E spent : verdicts' = Append(verdicts, Verdict({}, Len(results) + 1, yes, spent))
  BY DEF ScoreEval
<1> PICK spent : verdicts' = Append(verdicts, Verdict({}, Len(results) + 1, yes, spent))
  BY <1>4
<1>5. CriterionScored'
  <2>1. JudgedYes(Criteria, 0) => JudgedYes(Criteria, 0)'
    BY <1>1, <1>2, <1>3, <1>4, VerdictsStay
  <2>2. QED
    BY <1>1, <1>2, <1>3, <2>1 DEF CriterionScored
<1>6. EvalsScored'
  <2>1. Len(results) \in Nat /\ results \in Seq(Result)
    BY <1>2 DEF ScoresType
  <2>2. Len(plan[1].evals) \in Nat
    BY <1>1 DEF PlanInv, GoodRun, Running
  <2>3. PICK n : n = Len(results) + 1
    OBVIOUS
  <2>4. NextEval = plan[1].evals[n]
    BY <1>1, <1>2, <2>3, NextEvalIsOne
  <2>5. /\ Len(results') = n /\ DOMAIN results' = DOMAIN results \cup {n}
        /\ \A i \in DOMAIN results : results'[i] = results[i]
        /\ results'[n] = [kind |-> NextEval.kind, yes |-> yes]
    BY <1>4, <2>1, <2>3
  <2>6. verdicts' = Append(verdicts, Verdict({}, n, yes, spent))
    BY <1>4, <2>3
  <2>7. \A i : JudgedYes({}, i) => JudgedYes({}, i)'
    BY <1>1, <1>2, <2>6, VerdictsStay
  <2>8. yes => JudgedYes({}, n)'
    <3>1. PICK v : v = Verdict({}, n, yes, spent)
      OBVIOUS
    <3>2. v.of = {} /\ v.eval = n /\ v.yes = yes /\ v.turns = turns
      BY <3>1 DEF Verdict
    <3>3. verdicts' = Append(verdicts, v)
      BY <2>6, <3>1
    <3>4. QED
      BY <1>1, <1>2, <3>2, <3>3, VerdictsStay
  <2>9. Len(results') <= Len(plan'[1].evals)
    BY <1>1, <2>1, <2>2, <2>3, <2>5
  <2>10. ASSUME NEW i \in DOMAIN results'
         PROVE  /\ results'[i].kind = plan'[1].evals[i].kind
                /\ results'[i].yes => JudgedYes({}, i)'
    <3>1. CASE i \in DOMAIN results
      <4>1. results'[i] = results[i] /\ plan' = plan
        BY <1>1, <2>5, <3>1
      <4>2. /\ results[i].kind = plan[1].evals[i].kind
            /\ results[i].yes => JudgedYes({}, i)
        BY <1>2, <3>1 DEF EvalsScored
      <4>3. QED
        BY <2>7, <4>1, <4>2
    <3>2. CASE i = n
      <4>1. results'[i].kind = plan'[1].evals[i].kind
        BY <1>1, <2>4, <2>5, <3>2
      <4>2. results'[i].yes = yes
        BY <2>5, <3>2
      <4>3. QED
        BY <2>8, <3>2, <4>1, <4>2
    <3>3. QED
      BY <2>5, <3>1, <3>2
  <2>11. QED
    BY <2>9, <2>10 DEF EvalsScored
<1>7. QED
  BY <1>1, <1>5, <1>6

LEMMA ReportEarns ==
  ASSUME PlanInv, ScoresInv, Report
  PROVE  ZeroExitIsEarned' /\ phase' = "over"
<1>1. /\ UNCHANGED <<plan, bound, turns, ended, done, results, verdicts>>
      /\ phase = "report" /\ phase' = "over" /\ exit' = <<exit_code>>
  BY DEF Report, loop, scores
<1>2. /\ ScoresType /\ CriterionScored /\ EvalsScored
      /\ Len(results) = Len(plan[1].evals)
  BY <1>1 DEF ScoresInv
<1>3. GoodRun(plan[1])
  BY <1>1 DEF PlanInv, Running
<1>4. InForce = Criteria
  BY DEF InForce, Criteria, ConfiguredOnly
<1>5. SUFFICES ASSUME completed,
                      \A i \in DOMAIN results : results[i].kind = "boolean" => results[i].yes
               PROVE  /\ IF InForce # {} THEN JudgedYes(InForce, 0)
                         ELSE ended # "settled" /\ (~plan[1].user \/ turns < plan[1].max_turns)
                      /\ \A i \in DOMAIN plan[1].evals :
                           plan[1].evals[i].kind = "boolean" => JudgedYes({}, i)
  <2>1. exit' = <<0>> => /\ completed
                         /\ \A i \in DOMAIN results : results[i].kind = "boolean" => results[i].yes
    BY <1>1 DEF exit_code
  <2>2. /\ InForce' = InForce /\ JudgedYes(InForce, 0)' = JudgedYes(InForce, 0)
        /\ \A i : JudgedYes({}, i)' = JudgedYes({}, i)
    BY <1>1 DEF InForce, JudgedYes
  <2>3. QED
    BY <1>1, <1>5, <2>1, <2>2 DEF ZeroExitIsEarned
<1>6. \A i \in DOMAIN plan[1].evals : plan[1].evals[i].kind = "boolean" => JudgedYes({}, i)
  <2>1. DOMAIN plan[1].evals = DOMAIN results
    BY <1>2, <1>3 DEF ScoresType, GoodRun
  <2>2. ASSUME NEW i \in DOMAIN plan[1].evals, plan[1].evals[i].kind = "boolean"
        PROVE  JudgedYes({}, i)
    <3>1. i \in DOMAIN results /\ results[i].kind = plan[1].evals[i].kind
      BY <1>2, <2>1 DEF EvalsScored
    <3>2. results[i].yes
      BY <1>5, <2>2, <3>1
    <3>3. QED
      BY <1>2, <3>1, <3>2 DEF EvalsScored
  <2>3. QED
    BY <2>2
<1>7. CASE InForce # {}
  <2>1. done # None /\ (done[1] => JudgedYes(Criteria, 0))
    BY <1>2, <1>4, <1>7 DEF CriterionScored
  <2>2. done[1]
    BY <1>5, <2>1 DEF completed
  <2>3. QED
    BY <1>4, <1>6, <1>7, <2>1, <2>2
<1>8. CASE InForce = {}
  <2>1. done = None
    BY <1>2, <1>4, <1>8 DEF CriterionScored
  <2>2. ~hit_max_turns /\ ended # "settled"
    BY <1>5, <2>1 DEF completed
  <2>3. turns \in Nat /\ plan[1].max_turns \in Nat
    BY <1>2, <1>3 DEF ScoresType, GoodRun
  <2>4. ~(plan[1].user /\ turns >= plan[1].max_turns)
    BY <2>2 DEF hit_max_turns
  <2>5. ~(turns >= plan[1].max_turns) => turns < plan[1].max_turns
    BY <2>3
  <2>6. QED
    BY <1>6, <1>8, <2>2, <2>4, <2>5
<1>9. QED
  BY <1>7, <1>8

LEMMA ScoresInvStep == PlanInv /\ ScoresInv /\ [Next]_vars => ScoresInv'
<1> SUFFICES ASSUME PlanInv, ScoresInv, [Next]_vars
             PROVE  ScoresInv'
  OBVIOUS
<1> DEFINE early == {"drafting", "given", "planned", "worker", "judge", "recovery", "criterion"}
<1>1. ScoresType'
  BY ScoresTypeStep DEF ScoresInv
<1>2. CASE DraftNote \/ ReadPlan \/ Build \/ StopsAtOpening \/ WorkerReplies \/ WorkerFails
           \/ Supervises \/ SupervisorFails
  <2>1. phase \in early /\ phase' \in early \cup {"over"} /\ UNCHANGED <<results, done>>
    BY <1>2 DEF DraftNote, ReadPlan, Build, StopsAtOpening, WorkerReplies, WorkerFails, Supervises,
                SupervisorFails, EndLoop, GoOn, AfterReply, Failed, scores
  <2>2. exit = None
    BY <2>1 DEF ScoresInv
  <2>3. exit' = None \/ (exit' = <<2>> /\ phase' = "over")
    <3>1. CASE DraftNote \/ StopsAtOpening \/ WorkerReplies
      BY <2>2, <3>1 DEF DraftNote, StopsAtOpening, WorkerReplies, outcome
    <3>2. CASE ReadPlan
      BY <2>2, <3>2 DEF ReadPlan
    <3>3. CASE Build
      BY <2>2, <3>3 DEF Build
    <3>4. CASE WorkerFails
      BY <2>2, <3>4 DEF WorkerFails, Failed, outcome
    <3>5. CASE Supervises
      BY <2>2, <3>5 DEF Supervises, Failed, outcome
    <3>6. CASE SupervisorFails
      BY <3>6 DEF SupervisorFails, Failed
    <3>7. QED
      BY <1>2, <3>1, <3>2, <3>3, <3>4, <3>5, <3>6
  <2>4. exit' # <<0>>
    BY <2>3 DEF None
  <2>5. ZeroExitIsEarned'
    BY <2>4 DEF ZeroExitIsEarned
  <2>6. QED
    BY <1>1, <2>1, <2>3, <2>5 DEF ScoresInv
<1>3. CASE Rejudge \/ ScoreEval
  <2>1. CriterionScored' /\ EvalsScored' /\ phase' = "evals" /\ exit' = exit
    BY <1>3, RejudgeScores, ScoreEvalScores
  <2>2. exit = None
    BY <1>3 DEF ScoresInv, Rejudge, ScoreEval
  <2>3. ZeroExitIsEarned'
    BY <2>1, <2>2 DEF ZeroExitIsEarned, None
  <2>4. QED
    BY <1>1, <2>1, <2>2, <2>3 DEF ScoresInv
<1>4. CASE Assess
  <2>1. /\ UNCHANGED <<plan, bound, turns, done, results, verdicts, exit>>
        /\ phase = "evals" /\ phase' = "report" /\ Len(results) = Len(plan[1].evals)
    BY <1>4 DEF Assess, loop, scores, outcome
  <2>2. CriterionScored /\ EvalsScored /\ exit = None
    BY <2>1 DEF ScoresInv
  <2>3. CriterionScored' /\ EvalsScored'
    BY <2>1, <2>2 DEF CriterionScored, EvalsScored, JudgedYes, Criteria, ConfiguredOnly
  <2>4. ZeroExitIsEarned'
    BY <2>1, <2>2 DEF ZeroExitIsEarned, None
  <2>5. QED
    BY <1>1, <2>1, <2>2, <2>3, <2>4 DEF ScoresInv
<1>5. CASE ScoreFails
  <2>1. phase' = "over" /\ exit' = <<2>>
    BY <1>5 DEF ScoreFails, Failed
  <2>2. exit' # <<0>>
    BY <2>1
  <2>3. QED
    BY <1>1, <2>1, <2>2 DEF ScoresInv, ZeroExitIsEarned
<1>6. CASE Report
  <2>1. ZeroExitIsEarned' /\ phase' = "over"
    BY <1>6, ReportEarns
  <2>2. QED
    BY <1>1, <2>1 DEF ScoresInv
<1>7. CASE UNCHANGED vars
  BY <1>1, <1>7 DEF vars, loop, scores, outcome, ScoresInv, CriterionScored, EvalsScored, JudgedYes,
                    Criteria, ConfiguredOnly, ZeroExitIsEarned, InForce
<1>8. QED
  BY <1>2, <1>3, <1>4, <1>5, <1>6, <1>7 DEF Next

(* Exit code 0 is earned: PlanInv types what the run was told, ScoresInv   *)
(* ties every score to the verdict that said so after the last turn.       *)
THEOREM ZeroExitIsEarnedHolds == Spec => []ZeroExitIsEarned
<1>1. Init => PlanInv /\ ScoresInv
  BY PlanInvInit, ScoresInvInit
<1>2. PlanInv /\ ScoresInv /\ [Next]_vars => (PlanInv /\ ScoresInv)'
  BY PlanInvStep, ScoresInvStep
<1>3. ScoresInv => ZeroExitIsEarned
  BY DEF ScoresInv
<1>4. QED
  BY <1>1, <1>2, <1>3, PTL DEF Spec

-----------------------------------------------------------------------------
(* No call of a run whose plan was accepted is refused. *)

LEMMA RunOpsAreNotRefused ==
  ASSUME PlanInv, NoSplitJudges, phase \in Running,
         NEW op \in Ops,
         \/ op \in {"respond", "supervise", "boolean"}
         \/ op = "numeric" /\ \E k \in DOMAIN plan[1].evals : plan[1].evals[k].kind = "numeric"
         \/ op = "assess" /\ plan[1].assessment
  PROVE  ~Refuses(Backend, op)
<1>1. GoodRun(plan[1])
  BY DEF PlanInv
<1>2. WellBuilt(Backend)
  BY <1>1 DEF GoodRun, GoodPlan, Backend
<1>3. CASE op = "respond"
  BY <1>2, <1>3, WorkerIsNotRefused
<1>4. CASE op \in {"supervise", "boolean"}
  BY <1>2, <1>4, JudgesAreNotRefused DEF NoSplitJudges
<1>5. CASE op \in {"numeric", "assess"}
  <2>1. \/ Backend[<< >>].kind # "split"
        \/ \E k \in 1..Backend[<< >>].judges : scores_and_writes(Backend[<<k>>])
    BY <1>1, <1>5 DEF GoodRun, Backend
  <2>2. QED
    BY <1>2, <1>5, <2>1, JudgesAreNotRefused DEF NoSplitJudges
<1>6. QED
  BY <1>3, <1>4, <1>5 DEF Ops

NotInvalid == invalid => /\ plan # None /\ phase \notin {"drafting", "given", "planned"}
                         /\ ~NoSplitJudges

LEMMA NotInvalidStep == PlanInv /\ ScoresType /\ NotInvalid /\ [Next]_vars => NotInvalid'
<1> SUFFICES ASSUME PlanInv, ScoresType, NotInvalid, [Next]_vars
             PROVE  NotInvalid'
  OBVIOUS
<1> USE DEF Running
<1>1. CASE DraftNote \/ ReadPlan
  BY <1>1 DEF DraftNote, ReadPlan, NotInvalid, calls
<1>2. CASE Build
  <2>1. PICK i : Accepted(i) /\ given = <<i>> /\ plan = <<Plan(Config(i), i.around)>>
    BY <1>2 DEF Build, PlanInv
  <2>2. WellBuilt(Plan(Config(i), i.around).provider)
    BY <2>1, AcceptedPlanIsGood DEF GoodPlan
  <2>3. plan'[1].provider = plan[1].provider
    BY <1>2 DEF Build, Driven
  <2>4. ~BuildRefused(Plan(Config(i), i.around).provider)
    BY <2>2, WellBuiltIsBuilt
  <2>5. QED
    BY <1>2, <2>1, <2>3, <2>4 DEF Build, Backend, NotInvalid
<1>3. CASE RunStep
  <2>1. phase \in Running /\ phase' \in Running \cup {"over"} /\ UNCHANGED <<given, plan>>
    BY <1>3, RunStepStays
  <2>2. plan # None /\ NoSplitJudges' = NoSplitJudges
    BY <2>1 DEF PlanInv, NoSplitJudges, Backend
  <2>3. SUFFICES ASSUME NoSplitJudges, ~invalid
                 PROVE  ~invalid'
    BY <2>1, <2>2 DEF NotInvalid
  <2>4. ASSUME NEW op, Fails(op), ~Refuses(Backend, op)
        PROVE  ~invalid'
    BY <2>3, <2>4 DEF Fails
  <2>5. \A op \in {"respond", "supervise", "boolean"} : ~Refuses(Backend, op)
    BY <2>1, <2>3, RunOpsAreNotRefused DEF Ops
  <2>6. CASE WorkerFails
    BY <2>4, <2>5, <2>6 DEF WorkerFails
  <2>7. CASE SupervisorFails
    BY <2>4, <2>5, <2>7 DEF SupervisorFails
  <2>8. CASE ScoreFails
    <3>1. plan[1].evals \in Seq(Scored)
      BY <2>1, <2>2 DEF PlanInv, GoodRun
    <3>2. Fails(Asking[1]) /\ Asking # None
      BY <2>8 DEF ScoreFails
    <3>3. ~Refuses(Backend, Asking[1])
      <4>1. CASE Asking = <<"boolean">>
        BY <2>5, <4>1
      <4>2. CASE phase = "evals" /\ Len(results) < Len(plan[1].evals) /\ Asking = <<NextEval.kind>>
        <5>1. /\ Len(results) + 1 \in DOMAIN plan[1].evals
              /\ NextEval = plan[1].evals[Len(results) + 1] /\ NextEval \in Scored
          BY <4>2, NextEvalIsOne
        <5>2. NextEval.kind = "numeric" => ~Refuses(Backend, "numeric")
          BY <2>1, <2>3, <5>1, RunOpsAreNotRefused DEF Ops
        <5>3. QED
          BY <2>5, <4>2, <5>1, <5>2 DEF Scored
      <4>3. CASE plan[1].assessment /\ Asking = <<"assess">>
        <5>1. ~Refuses(Backend, "assess")
          BY <2>1, <2>3, <4>3, RunOpsAreNotRefused DEF Ops
        <5>2. QED
          BY <4>3, <5>1
      <4>4. QED
        BY <3>2, <4>1, <4>2, <4>3 DEF Asking
    <3>4. QED
      BY <2>4, <3>2, <3>3
  <2>9. CASE StopsAtOpening \/ WorkerReplies \/ Supervises \/ Rejudge \/ ScoreEval \/ Assess
             \/ Report
    BY <2>3, <2>9 DEF StopsAtOpening, WorkerReplies, Supervises, Rejudge, ScoreEval, Assess, Report,
                      Answers, calls
  <2>10. QED
    BY <1>3, <2>6, <2>7, <2>8, <2>9 DEF RunStep
<1>4. CASE UNCHANGED vars
  BY <1>4 DEF vars, calls, NotInvalid, NoSplitJudges, Backend
<1>5. QED
  BY <1>1, <1>2, <1>3, <1>4, NextIsKnown
(* A plan that was accepted never meets a backend that refuses a call, nor *)
(* two judges at once over a tree that one of them may change.             *)
LEMMA AcceptedPlansRunIn == PlanInv /\ NotInvalid => AcceptedPlansRun
<1> SUFFICES ASSUME PlanInv, NotInvalid, Planned, NoSplitJudges
             PROVE  ~invalid /\ \A op \in Ops : RaceFree(op)
  BY DEF AcceptedPlansRun
<1>1. GoodPlan(plan[1])
  <2>1. CASE phase = "planned"
    <3>1. PICK i : Accepted(i) /\ plan = <<Plan(Config(i), i.around)>>
      BY <2>1 DEF PlanInv
    <3>2. plan[1] = Plan(Config(i), i.around)
      BY <3>1
    <3>3. QED
      BY <3>1, <3>2, AcceptedPlanIsGood
  <2>2. CASE phase # "planned"
    BY <2>2 DEF PlanInv, Planned, GoodRun
  <2>3. QED
    BY <2>1, <2>2
<1>2. \A op \in Ops : RaceFree(op)
  BY <1>1, PanelsAreRaceFree DEF GoodPlan, RaceFree, Backend, NoSplitJudges
<1>3. QED
  BY <1>2 DEF NotInvalid

(* For every plan that is accepted, whatever the tree of its providers.    *)
THEOREM AcceptedPlansRunHolds == Spec => []AcceptedPlansRun
<1>1. Init => PlanInv /\ ScoresInv /\ NotInvalid
  BY PlanInvInit, ScoresInvInit DEF Init, NotInvalid
<1>2. PlanInv /\ ScoresInv /\ NotInvalid /\ [Next]_vars => (PlanInv /\ ScoresInv /\ NotInvalid)'
  BY PlanInvStep, ScoresInvStep, NotInvalidStep DEF ScoresInv
<1>3. PlanInv /\ ScoresInv /\ NotInvalid => AcceptedPlansRun
  BY AcceptedPlansRunIn
<1>4. QED
  BY <1>1, <1>2, <1>3, PTL DEF Spec

-----------------------------------------------------------------------------
(* Every record is of a call that reached its leaf, under its names.       *)

Entries(leaf) ==
  {[role |-> Role(op), judge |-> None, ran |-> leaf, history |-> history_name(Backend, leaf, op),
    session |-> SessionOf(Backend, leaf, op), usage |-> u, named |-> Backend[leaf].kind # "llmlint"] :
     op \in {op \in Ops : leaf \in Reached(Backend, op)}, u \in {None, <<1>>}}

RecordsInv == \A l \in DOMAIN records : /\ plan # None
                                        /\ phase \notin {"drafting", "given", "planned"}
                                        /\ records[l] \in Seq(Entries(l))

LEMMA RecordedType ==
  ASSUME RecordsInv, NEW op \in Ops, NEW o, o.as \in DOMAIN As, NEW l \in DOMAIN records
  PROVE  Recorded(op, o)[l] \in Seq(Entries(l))
<1>1. records[l] \in Seq(Entries(l))
  BY DEF RecordsInv
<1>2. CASE l \in Reached(Backend, op)
  <2>1. Entry(op, o, l) \in Entries(l)
    BY <1>2 DEF Entry, Entries, Spent
  <2>2. OddAt(o, l) \in DOMAIN As /\ As[OddAt(o, l)] \in Nat
    BY DEF OddAt, As
  <2>3. [k \in 1..As[OddAt(o, l)] |-> Entry(op, o, l)] \in Seq(Entries(l))
    BY <2>1, <2>2
  <2>4. QED
    BY <1>1, <2>3 DEF Recorded
<1>3. CASE l \notin Reached(Backend, op)
  BY <1>1, <1>3 DEF Recorded
<1>4. QED
  BY <1>2, <1>3

LEMMA OddType ==
  ASSUME NEW op, NEW how, how \subseteq DOMAIN As, NEW o \in Odds(op, how)
  PROVE  o.as \in DOMAIN As
BY DEF Odds, Plain, As

LEMMA CalledRecords ==
  ASSUME RecordsInv, NEW op \in Ops, NEW how, how \subseteq DOMAIN As, NEW o \in Odds(op, how),
         Called(op, o)
  PROVE  DOMAIN records' = DOMAIN records /\ \A l \in DOMAIN records : records'[l] \in Seq(Entries(l))
<1>1. records' = Recorded(op, o)
  BY DEF Called
<1>2. DOMAIN Recorded(op, o) = DOMAIN records
  BY DEF Recorded
<1>3. QED
  BY <1>1, <1>2, RecordedType, OddType
SomeCall == \E op \in Ops : \E how \in SUBSET DOMAIN As : \E o \in Odds(op, how) : Called(op, o)

LEMMA RunStepCalls ==
  ASSUME PlanInv, ScoresType, RunStep
  PROVE  UNCHANGED <<records, spawned>> \/ SomeCall
<1>1. {"silent"} \subseteq DOMAIN As /\ {"silent", "twice"} \subseteq DOMAIN As
      /\ \A op \in Ops : Failing(op) \subseteq DOMAIN As
  BY DEF As, Failing
<1>2. ASSUME NEW op \in Ops, Fails(op)
      PROVE  UNCHANGED <<records, spawned>> \/ SomeCall
  BY <1>1, <1>2 DEF Fails, SomeCall
<1>3. ASSUME NEW op \in Ops, NEW how \in {{"silent"}, {"silent", "twice"}},
             NEW o \in Odds(op, how), Answers(op, o)
      PROVE  SomeCall
  BY <1>1, <1>3 DEF Answers, SomeCall
<1>4. ASSUME phase = "evals", Len(results) < Len(plan[1].evals)
      PROVE  NextEval.kind \in Ops
  BY <1>4, NextEvalIsOne DEF Scored, Ops
<1>5. CASE StopsAtOpening \/ Report
  BY <1>5 DEF StopsAtOpening, Report, calls
<1>6. CASE WorkerReplies
  BY <1>3, <1>6 DEF WorkerReplies, Ops
<1>7. CASE WorkerFails \/ SupervisorFails
  BY <1>2, <1>7 DEF WorkerFails, SupervisorFails, Ops
<1>8. CASE Supervises
  BY <1>3, <1>8 DEF Supervises, Ops
<1>9. CASE Rejudge
  <2>1. UNCHANGED <<records, spawned>>
        \/ \E o \in Odds("boolean", {"silent", "twice"}) : Answers("boolean", o)
    BY <1>9 DEF Rejudge, calls
  <2>2. QED
    BY <1>3, <2>1 DEF Ops
<1>10. CASE ScoreEval
  <2>1. \E o \in Odds(NextEval.kind, {"silent", "twice"}) : Answers(NextEval.kind, o)
    BY <1>10 DEF ScoreEval
  <2>2. NextEval.kind \in Ops
    BY <1>4, <1>10 DEF ScoreEval
  <2>3. QED
    BY <1>3, <2>1, <2>2
<1>11. CASE Assess
  <2>1. UNCHANGED <<records, spawned>>
        \/ \E o \in Odds("assess", {"silent", "twice"}) : Answers("assess", o)
    BY <1>11 DEF Assess, calls
  <2>2. QED
    BY <1>3, <2>1 DEF Ops
<1>12. CASE ScoreFails
  <2>1. Asking # None /\ Fails(Asking[1])
    BY <1>12 DEF ScoreFails
  <2>2. Asking[1] \in Ops
    BY <1>4, <2>1 DEF Asking, Ops
  <2>3. QED
    BY <1>2, <2>1, <2>2
<1>13. QED
  BY <1>5, <1>6, <1>7, <1>8, <1>9, <1>10, <1>11, <1>12 DEF RunStep

LEMMA RecordsInvStep == PlanInv /\ ScoresType /\ RecordsInv /\ [Next]_vars => RecordsInv'
<1> SUFFICES ASSUME PlanInv, ScoresType, RecordsInv, [Next]_vars
             PROVE  RecordsInv'
  OBVIOUS
<1>1. CASE DraftNote \/ ReadPlan
  <2>1. phase \in {"drafting", "given"} /\ records' = records
    BY <1>1 DEF DraftNote, ReadPlan, calls
  <2>2. DOMAIN records = {}
    BY <2>1 DEF RecordsInv
  <2>3. QED
    BY <2>1, <2>2 DEF RecordsInv
<1>2. CASE Build
  <2>1. phase = "planned"
    BY <1>2 DEF Build
  <2>2. DOMAIN records = {}
    BY <2>1 DEF RecordsInv
  <2>3. \/ records' = records
        \/ phase' = "worker" /\ records' = [l \in Leaves(Backend) |-> << >>]
    BY <1>2 DEF Build
  <2>4. plan' # None
    BY <1>2 DEF Build, None
  <2>5. \A l \in DOMAIN records' : phase' = "worker" /\ records'[l] = << >>
    BY <2>2, <2>3
  <2>6. \A S : << >> \in Seq(S)
    OBVIOUS
  <2>7. QED
    BY <2>4, <2>5, <2>6 DEF RecordsInv
<1>3. CASE RunStep
  <2>1. phase \in Running /\ phase' \in Running \cup {"over"} /\ UNCHANGED <<given, plan>>
    BY <1>3, RunStepStays
  <2>2. /\ DOMAIN records' = DOMAIN records
        /\ \A l \in DOMAIN records : records'[l] \in Seq(Entries(l))
    <3>1. CASE UNCHANGED <<records, spawned>>
      BY <3>1 DEF RecordsInv
    <3>2. CASE SomeCall
      BY <3>2, CalledRecords DEF SomeCall
    <3>3. QED
      BY <1>3, <3>1, <3>2, RunStepCalls
  <2>3. \A l : Entries(l)' = Entries(l)
    BY <2>1 DEF Entries, Backend
  <2>4. plan # None
    BY <2>1 DEF PlanInv
  <2>5. phase' \notin {"drafting", "given", "planned"}
    BY <2>1 DEF Running
  <2>6. \A l \in DOMAIN records' : records'[l] \in Seq(Entries(l)')
    BY <2>2, <2>3
  <2>7. QED
    BY <2>1, <2>4, <2>5, <2>6 DEF RecordsInv
<1>4. CASE UNCHANGED vars
  <2>1. UNCHANGED <<records, plan, phase>>
    BY <1>4 DEF vars, calls
  <2>2. \A l : Entries(l)' = Entries(l)
    BY <2>1 DEF Entries, Backend
  <2>3. \A l \in DOMAIN records : records[l] \in Seq(Entries(l)')
    BY <2>2 DEF RecordsInv
  <2>4. QED
    BY <2>1, <2>3 DEF RecordsInv
<1>5. QED
  BY <1>1, <1>2, <1>3, <1>4, NextIsKnown

LEMMA PartiesAreToldApartIn == PlanInv /\ RecordsInv => PartiesAreToldApart
<1> SUFFICES ASSUME PlanInv, RecordsInv, Planned, NoSplitJudges,
                    NEW l \in DOMAIN records, NEW m \in DOMAIN records,
                    NEW i \in DOMAIN records[l], NEW j \in DOMAIN records[m]
             PROVE  /\ l # m => /\ records[l][i].history # records[m][j].history
                                /\ records[l][i].session # None
                                     => records[l][i].session # records[m][j].session
                    /\ records[l][i].session # None
                         => records[l][i].history = records[l][i].session
  BY DEF PartiesAreToldApart
<1>1. WellBuilt(Backend)
  <2>1. phase \notin {"drafting", "given", "planned"}
    BY DEF RecordsInv
  <2>2. QED
    BY <2>1 DEF PlanInv, Planned, GoodRun, GoodPlan, Backend
<1>2. records[l][i] \in Entries(l) /\ records[m][j] \in Entries(m)
  BY DEF RecordsInv
<1>3. PICK op \in Ops : /\ l \in Reached(Backend, op)
                        /\ records[l][i].history = history_name(Backend, l, op)
                        /\ records[l][i].session = SessionOf(Backend, l, op)
  BY <1>2 DEF Entries
<1>4. PICK other \in Ops : /\ m \in Reached(Backend, other)
                           /\ records[m][j].history = history_name(Backend, m, other)
                           /\ records[m][j].session = SessionOf(Backend, m, other)
  BY <1>2 DEF Entries
<1>5. ASSUME NEW o \in Ops, NEW leaf \in Reached(Backend, o)
      PROVE  SessionOf(Backend, leaf, o) \in {None, history_name(Backend, leaf, o)}
  <2>1. CASE o = "respond"
    BY <2>1, WorkerNames
  <2>2. CASE o # "respond"
    <3>1. OneLabelAtMost(Backend, leaf)
      BY <1>1, <2>2, JudgeLabels DEF NoSplitJudges
    <3>2. QED
      BY <2>2, <3>1, JudgeNames
  <2>3. QED
    BY <2>1, <2>2
<1>6. l # m => history_name(Backend, l, op) # history_name(Backend, m, other)
  BY <1>1, <1>3, <1>4, NamesDiffer DEF NoSplitJudges
<1>7. QED
  BY <1>3, <1>4, <1>5, <1>6

(* The names and sessions of a run's calls differ by the backend that made *)
(* them: there is one worker, and the labels of a panel differ.            *)
THEOREM PartiesAreToldApartHolds == Spec => []PartiesAreToldApart
<1>1. Init => PlanInv /\ ScoresInv /\ RecordsInv
  BY PlanInvInit, ScoresInvInit DEF Init, RecordsInv
<1>2. PlanInv /\ ScoresInv /\ RecordsInv /\ [Next]_vars => (PlanInv /\ ScoresInv /\ RecordsInv)'
  BY PlanInvStep, ScoresInvStep, RecordsInvStep DEF ScoresInv
<1>3. PlanInv /\ ScoresInv /\ RecordsInv => PartiesAreToldApart
  BY PartiesAreToldApartIn
<1>4. QED
  BY <1>1, <1>2, <1>3, PTL DEF Spec

-----------------------------------------------------------------------------
(* A layer's settings are in effect over those below it. *)

Settled == DOMAIN NoOverrides \ {"worker_config"}

(* Where the worker's config of a layer lands. *)
WorkerSide(t) == IF t[<< >>].kind = "split" /\ <<0>> \in DOMAIN t THEN <<0>> ELSE << >>

LEMMA AppliedFields ==
  ASSUME NEW c, IsConfig(c), NEW o \in Overrides, NEW a, a = Apply(c, o)
  PROVE  /\ a.skill = Over(c.skill, o.skill) /\ a.session = Over(c.session, o.session)
         /\ a.task = Over(c.task, o.task)
         /\ a.system_prompt = Over(c.system_prompt, o.system_prompt)
         /\ a.user = ImpliedUser(c.user, o)
         /\ DOMAIN a.provider = DOMAIN c.provider
         /\ a.provider[<< >>].judge_config
              = Over(c.provider[<< >>].judge_config, o.judge_config)
         /\ a.provider[<< >>].kind = OrElse(o.kind, c.provider[<< >>].kind)
         /\ \A place \in DOMAIN c.provider :
              a.provider[place].worker_config
                = IF place = WorkerSide(a.provider)
                  THEN Over(c.provider[place].worker_config, o.worker_config)
                  ELSE c.provider[place].worker_config
<1> DEFINE t == c.provider
           top == [t[<< >>] EXCEPT !.judge_config = Over(@, o.judge_config),
                                   !.kind = OrElse(o.kind, @)]
           kept == [t EXCEPT ![<< >>] = top]
           side == WorkerSide(kept)
           there == [kept[side] EXCEPT !.worker_config = Over(@, o.worker_config)]
<1>1. /\ << >> \in DOMAIN t /\ \A place \in DOMAIN t : t[place] \in ProviderConfig
      /\ t = [place \in DOMAIN t |-> t[place]]
  BY DEF IsConfig, Tree
<1>2. /\ top.worker_config = t[<< >>].worker_config
      /\ top.judge_config = Over(t[<< >>].judge_config, o.judge_config)
      /\ top.kind = OrElse(o.kind, t[<< >>].kind)
      /\ DOMAIN top = DOMAIN t[<< >>]
      /\ {"worker_config", "judge_config", "kind"} \subseteq DOMAIN top
  BY <1>1 DEF ProviderConfig
<1>3. a = [c EXCEPT !.provider = PlaceWorkerConfig(kept, o.worker_config),
                    !.user = ImpliedUser(@, o),
                    !.skill = Over(@, o.skill), !.system_prompt = Over(@, o.system_prompt),
                    !.task = Over(@, o.task), !.session = Over(@, o.session)]
  BY <1>1 DEF Apply
<1> HIDE DEF top
<1>4. /\ DOMAIN kept = DOMAIN t
      /\ \A place \in DOMAIN t : kept[place] = IF place = << >> THEN top ELSE t[place]
  BY <1>1
<1>5. PlaceWorkerConfig(kept, o.worker_config) = [kept EXCEPT ![side] = there]
  BY DEF PlaceWorkerConfig, WorkerSide
<1> HIDE DEF kept
<1>6. side \in DOMAIN t
  BY <1>1, <1>4 DEF WorkerSide
<1>7. /\ there.worker_config = Over(kept[side].worker_config, o.worker_config)
      /\ there.judge_config = kept[side].judge_config
      /\ there.kind = kept[side].kind
  BY <1>1, <1>2, <1>4, <1>6 DEF ProviderConfig
<1> HIDE DEF there, side
<1>8. /\ a.provider = [kept EXCEPT ![side] = there]
      /\ a.skill = Over(c.skill, o.skill) /\ a.session = Over(c.session, o.session)
      /\ a.task = Over(c.task, o.task)
      /\ a.system_prompt = Over(c.system_prompt, o.system_prompt)
      /\ a.user = ImpliedUser(c.user, o)
  BY <1>3, <1>5 DEF IsConfig
<1>9. /\ DOMAIN a.provider = DOMAIN t
      /\ \A place \in DOMAIN t : a.provider[place] = IF place = side THEN there ELSE kept[place]
  BY <1>4, <1>8, kept = [place \in DOMAIN kept |-> kept[place]] DEF kept
<1>10. /\ a.provider[<< >>].kind = top.kind
       /\ a.provider[<< >>].judge_config = top.judge_config
  BY <1>1, <1>4, <1>6, <1>7, <1>9
<1>11. WorkerSide(a.provider) = side
  BY <1>1, <1>4, <1>9, <1>10 DEF WorkerSide, side
<1>12. \A place \in DOMAIN t :
         a.provider[place].worker_config = IF place = side
                                           THEN Over(t[place].worker_config, o.worker_config)
                                           ELSE t[place].worker_config
  BY <1>2, <1>4, <1>6, <1>7, <1>9
<1>13. QED
  BY <1>1, <1>2, <1>8, <1>9, <1>10, <1>11, <1>12

(* The user's settings, whether or not there was a user below. *)
LEMMA UserCarries ==
  ASSUME NEW o \in Overrides, NEW user \in Optional(UserConfig),
         NEW v, v = ImpliedUser(user, o)
  PROVE  /\ o.persona # None => v # None /\ <<v[1].persona>> = o.persona
         /\ o.artifacts # None => v # None /\ <<v[1].artifacts>> = o.artifacts
         /\ o.done_when # None => v # None /\ v[1].done_when = o.done_when
         /\ o.max_turns # None => v # None /\ v[1].max_turns = o.max_turns
         /\ user # None => /\ v # None
                           /\ o.persona = None => v[1].persona = user[1].persona
                           /\ o.artifacts = None => v[1].artifacts = user[1].artifacts
                           /\ o.done_when = None => v[1].done_when = user[1].done_when
                           /\ o.max_turns = None => v[1].max_turns = user[1].max_turns
<1> DEFINE u == OrElse(user, DefaultUser)
           n == [u EXCEPT !.persona = OrElse(o.persona, @), !.done_when = Over(@, o.done_when),
                          !.max_turns = Over(@, o.max_turns),
                          !.artifacts = OrElse(o.artifacts, @)]
<1>1. {"persona", "done_when", "max_turns", "artifacts"} \subseteq DOMAIN u
  <2>1. user # None => user[1] \in UserConfig
    BY GivenType
  <2>2. QED
    BY <2>1 DEF OrElse, UserConfig, DefaultUser
<1>2. user # None => u = user[1]
  BY DEF OrElse
<1>3. /\ n.persona = OrElse(o.persona, u.persona) /\ n.artifacts = OrElse(o.artifacts, u.artifacts)
      /\ n.done_when = Over(u.done_when, o.done_when)
      /\ n.max_turns = Over(u.max_turns, o.max_turns)
  BY <1>1
<1>4. v = IF \A s \in {"persona", "done_when", "max_turns", "artifacts"} : o[s] = None
          THEN user ELSE <<n>>
  BY DEF ImpliedUser
<1> HIDE DEF n, u
<1>5. /\ o.persona # None => o.persona = <<o.persona[1]>>
      /\ o.artifacts # None => o.artifacts = <<o.artifacts[1]>>
  BY GivenType DEF Overrides
<1>6. <<n>>[1] = n /\ <<n>> # None
  BY DEF None
<1>7. QED
  BY <1>2, <1>3, <1>4, <1>5, <1>6 DEF OrElse, Over

(* What a configuration says of each setting. *)
LEMMA Readings ==
  ASSUME NEW f
  PROVE  /\ InFile(f, "judge_config") = f.provider[<< >>].judge_config
         /\ InFile(f, "kind") = <<f.provider[<< >>].kind>>
         /\ InFile(f, "skill") = f.skill /\ InFile(f, "system_prompt") = f.system_prompt
         /\ InFile(f, "task") = f.task /\ InFile(f, "session") = f.session
         /\ InFile(f, "persona") = IF f.user = None THEN None ELSE <<f.user[1].persona>>
         /\ InFile(f, "artifacts") = IF f.user = None THEN None ELSE <<f.user[1].artifacts>>
         /\ InFile(f, "done_when") = IF f.user = None THEN None ELSE f.user[1].done_when
         /\ InFile(f, "max_turns") = IF f.user = None THEN None ELSE f.user[1].max_turns
<1>1. InFile(f, "judge_config") = f.provider[<< >>].judge_config
  BY DEF InFile
<1>2. InFile(f, "kind") = <<f.provider[<< >>].kind>>
  BY DEF InFile
<1>3. InFile(f, "skill") = f.skill
  BY DEF InFile
<1>4. InFile(f, "system_prompt") = f.system_prompt
  BY DEF InFile
<1>5. InFile(f, "task") = f.task
  BY DEF InFile
<1>6. InFile(f, "session") = f.session
  BY DEF InFile
<1>7. InFile(f, "persona") = IF f.user = None THEN None ELSE <<f.user[1].persona>>
  BY DEF InFile
<1>8. InFile(f, "artifacts") = IF f.user = None THEN None ELSE <<f.user[1].artifacts>>
  BY DEF InFile
<1>9. InFile(f, "done_when") = IF f.user = None THEN None ELSE f.user[1].done_when
  BY DEF InFile
<1>10. InFile(f, "max_turns") = IF f.user = None THEN None ELSE f.user[1].max_turns
  BY DEF InFile
<1>11. QED
  BY <1>1, <1>2, <1>3, <1>4, <1>5, <1>6, <1>7, <1>8, <1>9, <1>10

LEMMA SameReadings ==
  ASSUME NEW f, NEW g, f.provider = g.provider, f.user = g.user, f.task = g.task,
         f.system_prompt = g.system_prompt, f.session = g.session,
         NEW s \in Settled, s # "skill"
  PROVE  InFile(f, s) = InFile(g, s)
<1>1. CASE s = "judge_config"
  BY <1>1, Readings
<1>2. CASE s = "kind"
  BY <1>2, Readings
<1>3. CASE s = "system_prompt"
  BY <1>3, Readings
<1>4. CASE s = "task"
  BY <1>4, Readings
<1>5. CASE s = "session"
  BY <1>5, Readings
<1>6. CASE s = "persona"
  BY <1>6, Readings
<1>7. CASE s = "artifacts"
  BY <1>7, Readings
<1>8. CASE s = "done_when"
  BY <1>8, Readings
<1>9. CASE s = "max_turns"
  BY <1>9, Readings
<1>10. QED
  BY <1>1, <1>2, <1>3, <1>4, <1>5, <1>6, <1>7, <1>8, <1>9 DEF Settled, NoOverrides

LEMMA LayerCarries ==
  ASSUME NEW c, IsConfig(c), NEW o \in Overrides, NEW a, a = Apply(c, o), NEW s \in Settled
  PROVE  /\ o[s] # None => InFile(a, s) = o[s]
         /\ o[s] = None /\ InFile(c, s) # None => InFile(a, s) = InFile(c, s)
<1>1. /\ a.skill = Over(c.skill, o.skill) /\ a.session = Over(c.session, o.session)
      /\ a.task = Over(c.task, o.task)
      /\ a.system_prompt = Over(c.system_prompt, o.system_prompt)
      /\ a.user = ImpliedUser(c.user, o)
      /\ a.provider[<< >>].judge_config = Over(c.provider[<< >>].judge_config, o.judge_config)
      /\ a.provider[<< >>].kind = OrElse(o.kind, c.provider[<< >>].kind)
  BY AppliedFields
<1>2. s \in {"judge_config", "skill", "system_prompt", "task", "persona", "done_when",
             "max_turns", "artifacts", "session", "kind"}
  BY DEF Settled, NoOverrides
<1>3. CASE s = "skill"
  BY <1>1, <1>3, Readings DEF Over
<1>4. CASE s = "system_prompt"
  BY <1>1, <1>4, Readings DEF Over
<1>5. CASE s = "task"
  BY <1>1, <1>5, Readings DEF Over
<1>6. CASE s = "session"
  BY <1>1, <1>6, Readings DEF Over
<1>7. CASE s = "judge_config"
  BY <1>1, <1>7, Readings DEF Over
<1>8. CASE s = "kind"
  <2>1. o.kind # None => o.kind = <<o.kind[1]>>
    BY GivenType DEF Overrides
  <2>2. QED
    BY <1>1, <1>8, <2>1, Readings DEF OrElse
<1>9. /\ o.persona # None => a.user # None /\ <<a.user[1].persona>> = o.persona
      /\ o.artifacts # None => a.user # None /\ <<a.user[1].artifacts>> = o.artifacts
      /\ o.done_when # None => a.user # None /\ a.user[1].done_when = o.done_when
      /\ o.max_turns # None => a.user # None /\ a.user[1].max_turns = o.max_turns
      /\ c.user # None => /\ a.user # None
                          /\ o.persona = None => a.user[1].persona = c.user[1].persona
                          /\ o.artifacts = None => a.user[1].artifacts = c.user[1].artifacts
                          /\ o.done_when = None => a.user[1].done_when = c.user[1].done_when
                          /\ o.max_turns = None => a.user[1].max_turns = c.user[1].max_turns
  BY <1>1, UserCarries DEF IsConfig
<1>10. CASE s = "persona"
  <2>1. /\ InFile(a, "persona") = IF a.user = None THEN None ELSE <<a.user[1].persona>>
        /\ InFile(c, "persona") = IF c.user = None THEN None ELSE <<c.user[1].persona>>
    BY Readings
  <2>2. QED
    BY <1>9, <1>10, <2>1
<1>11. CASE s = "done_when"
  <2>1. /\ InFile(a, "done_when") = IF a.user = None THEN None ELSE a.user[1].done_when
        /\ InFile(c, "done_when") = IF c.user = None THEN None ELSE c.user[1].done_when
    BY Readings
  <2>2. QED
    BY <1>9, <1>11, <2>1
<1>12. CASE s = "max_turns"
  <2>1. /\ InFile(a, "max_turns") = IF a.user = None THEN None ELSE a.user[1].max_turns
        /\ InFile(c, "max_turns") = IF c.user = None THEN None ELSE c.user[1].max_turns
    BY Readings
  <2>2. QED
    BY <1>9, <1>12, <2>1
<1>13. CASE s = "artifacts"
  <2>1. /\ InFile(a, "artifacts") = IF a.user = None THEN None ELSE <<a.user[1].artifacts>>
        /\ InFile(c, "artifacts") = IF c.user = None THEN None ELSE <<c.user[1].artifacts>>
    BY Readings
  <2>2. QED
    BY <1>9, <1>13, <2>1
<1>14. QED
  BY <1>2, <1>3, <1>4, <1>5, <1>6, <1>7, <1>8, <1>10, <1>11, <1>12, <1>13

(* What a run goes by is what the highest layer that says it says. *)
LEMMA ConfigSays ==
  ASSUME NEW i \in Invocations, NEW s \in Settled, Highest(i, s) # None
  PROVE  InFile(Config(i), s) = IF s = "session" THEN Highest(i, s) ELSE Expected(i, s)
<1> DEFINE file == rebase_skill(i.file, i.base)
           env == from_env(i.env)
           flags == resolve_task(i.flags, i.stdin)
           mid == Apply(file, env)
           c == Config(i)
<1>1. IsConfig(file) /\ env \in Overrides /\ flags \in Overrides /\ IsConfig(mid)
  BY LayersOfARun, Applied
<1>2. c = Apply(mid, flags)
  BY DEF Config, Layered
<1>3. s \in {"judge_config", "skill", "system_prompt", "task", "persona", "done_when",
             "max_turns", "artifacts", "session", "kind"} /\ s \in DOMAIN NoOverrides
  BY DEF Settled, NoOverrides
<1>4. env[s] = IF s \in i.env.blank THEN None ELSE i.env.set[s]
  BY <1>3 DEF from_env
<1>5. flags[s] = IF s = "task" /\ i.flags[s] = <<"-">> THEN <<i.stdin>> ELSE i.flags[s]
  <2>1. i.flags \in Overrides
    BY RunPlanAssumption
  <2>2. CASE i.flags.task = <<"-">>
    <3>1. flags = [i.flags EXCEPT !.task = <<i.stdin>>]
      BY <2>2 DEF resolve_task
    <3>2. QED
      BY <1>3, <2>1, <2>2, <3>1 DEF Overrides
  <2>3. CASE i.flags.task # <<"-">>
    BY <2>3 DEF resolve_task
  <2>4. QED
    BY <2>2, <2>3
<1>6. /\ s # "skill" => InFile(file, s) = InFile(i.file, s)
      /\ InFile(file, "skill")
           = IF InFile(i.file, "skill") = None THEN None
             ELSE <<[InFile(i.file, "skill")[1] EXCEPT
                       !.from = IF @ = "cwd" THEN i.base ELSE @]>>
  <2>1. IsConfig(i.file)
    BY RunPlanAssumption
  <2>2. CASE i.file.skill # None /\ i.file.skill[1].from = "cwd"
    <3>1. i.file.skill = <<i.file.skill[1]>>
      BY <2>1, <2>2, GivenType DEF IsConfig
    <3> DEFINE skill == [i.file.skill EXCEPT ![1].from = i.base]
    <3>9. skill = <<[i.file.skill[1] EXCEPT !.from = i.base]>>
      BY <3>1
    <3> HIDE DEF skill
    <3>2. file = [i.file EXCEPT !.skill = skill]
      BY <2>1, <2>2 DEF rebase_skill, skill, IsConfig
    <3>3. file.skill = <<[i.file.skill[1] EXCEPT !.from = i.base]>>
      BY <2>1, <3>9, <3>2 DEF IsConfig
    <3>4. /\ file.provider = i.file.provider /\ file.user = i.file.user
          /\ file.system_prompt = i.file.system_prompt
          /\ file.task = i.file.task /\ file.session = i.file.session
      BY <2>1, <3>2 DEF IsConfig
    <3> HIDE DEF file
    <3>5. s # "skill" => InFile(file, s) = InFile(i.file, s)
      BY <3>4, SameReadings
    <3>6. QED
      BY <2>2, <3>3, <3>5, Readings
  <2>3. CASE i.file.skill # None /\ i.file.skill[1].from # "cwd"
    <3>1. i.file.skill = <<i.file.skill[1]>> /\ i.file.skill[1] \in Path
      BY <2>1, <2>3, GivenType DEF IsConfig
    <3>2. i.file.skill[1] = [i.file.skill[1] EXCEPT !.from = @]
      BY <3>1 DEF Path
    <3>3. file = i.file
      BY <2>3 DEF rebase_skill
    <3>4. QED
      BY <2>3, <3>1, <3>2, <3>3, Readings
  <2>4. CASE i.file.skill = None
    BY <2>4, Readings DEF rebase_skill
  <2>5. QED
    BY <2>2, <2>3, <2>4
<1> HIDE DEF file, env, flags
<1>7. /\ env[s] # None => InFile(mid, s) = env[s]
      /\ env[s] = None /\ InFile(file, s) # None => InFile(mid, s) = InFile(file, s)
  BY <1>1, LayerCarries
<1> HIDE DEF mid
<1>8. /\ flags[s] # None => InFile(c, s) = flags[s]
      /\ flags[s] = None /\ InFile(mid, s) # None => InFile(c, s) = InFile(mid, s)
  BY <1>1, <1>2, LayerCarries
<1> HIDE DEF c
<1>9. InFile(c, s) = IF flags[s] # None THEN flags[s]
                     ELSE IF env[s] # None THEN env[s] ELSE InFile(file, s)
  <2>1. <<i.stdin>> # None /\ \A x : <<x>> # None
    BY DEF None
  <2>2. flags[s] = None /\ env[s] = None => InFile(file, s) # None
    BY <1>4, <1>5, <1>6, <2>1 DEF Highest
  <2>3. QED
    BY <1>7, <1>8, <2>2
<1>10. QED
  BY <1>3, <1>4, <1>5, <1>6, <1>9 DEF Highest, Expected, c, None

(* Where a tree that resolves runs its worker: what is configured for the  *)
(* worker is configured there.                                             *)
LEMMA WayToSkill == Way(<<0>>, 1) = <<0>> /\ Way(<<0>>, 0) = << >> /\ Append(<< >>, 0) = <<0>>
<1> DEFINE skill == <<0>>
<1>1. skill \in Seq(Nat) /\ Len(skill) = 1 /\ skill[1] = 0
  OBVIOUS
<1>2. 0 \in 0..Len(skill) /\ 1 \in 0..Len(skill) /\ 1 \in 1..1
  BY <1>1
<1> HIDE DEF skill
<1>3. /\ Way(skill, 0) \in Seq(Nat) /\ Len(Way(skill, 0)) = 0
      /\ Way(skill, 1) \in Seq(Nat) /\ Len(Way(skill, 1)) = 1 /\ Way(skill, 1)[1] = 0
  BY <1>1, <1>2, WayFacts
<1>4. Way(skill, 0) = << >> /\ Way(skill, 1) = <<0>>
  BY <1>3
<1>5. QED
  BY <1>4 DEF skill

(* A worker is at the top, or the skill of a split that is. *)
Placed == {<< >>, <<0>>}

LEMMA WorkerLeafIs ==
  ASSUME NEW b, WellBuilt(b), NEW leaf \in Placed, leaf \in DOMAIN b,
         b[leaf].kind # "split"
  PROVE  (CHOOSE l \in Reached(b, "respond") : TRUE) = leaf
<1>1. leaf \in GetsTo(b, "respond")
  <2>1. ASSUME NEW k \in DOMAIN leaf
        PROVE  Way(leaf, k) \in Asks(b, Way(leaf, k - 1), "respond")
    <3>1. leaf = <<0>> /\ k = 1
      BY <2>1 DEF Placed
    <3>2. Way(leaf, 1) = <<0>> /\ Way(leaf, 0) = << >>
      BY <3>1, WayToSkill
    <3>3. Append(<< >>, 0) = <<0>>
      BY WayToSkill
    <3>4. k - 1 = 0
      BY <3>1
    <3>5. QED
      BY <3>1, <3>2, <3>3, <3>4 DEF Asks
  <2>2. QED
    BY <2>1 DEF GetsTo
<1>2. leaf \in Reached(b, "respond")
  BY <1>1 DEF Reached, Leaves
<1>3. (CHOOSE l \in Reached(b, "respond") : TRUE) \in Reached(b, "respond")
  BY <1>2
<1>4. QED
  BY <1>2, <1>3, OneWorker

LEMMA WorkerConfigLands ==
  ASSUME NEW i, Accepted(i), NEW b, b = Resolved(Config(i).provider),
         Highest(i, "worker_config") # None
  PROVE  b[CHOOSE l \in Reached(b, "respond") : TRUE].worker_config = Highest(i, "worker_config")
<1> DEFINE file == rebase_skill(i.file, i.base)
           env == from_env(i.env)
           flags == resolve_task(i.flags, i.stdin)
           mid == Apply(file, env)
           c == Config(i)
           t == c.provider
           first == file.provider
           middle == mid.provider
<1>1. IsConfig(file) /\ env \in Overrides /\ flags \in Overrides /\ IsConfig(mid)
  BY LayersOfARun, Applied DEF Accepted
<1>2. c = Apply(mid, flags)
  BY DEF Config, Layered
<1>3. env.worker_config = IF "worker_config" \in i.env.blank THEN None
                          ELSE i.env.set.worker_config
  BY DEF from_env, NoOverrides
<1>4. flags.worker_config = i.flags.worker_config
  BY RunPlanAssumption DEF resolve_task, Overrides, Accepted
<1>5. first = i.file.provider
  BY RunPlanAssumption DEF rebase_skill, IsConfig, Accepted
<1>6. Highest(i, "worker_config") =
        IF flags.worker_config # None THEN flags.worker_config
        ELSE IF env.worker_config # None THEN env.worker_config
        ELSE IF <<0>> \in DOMAIN first THEN first[<<0>>].worker_config
        ELSE first[<< >>].worker_config
  <2>1. InFile(i.file, "worker_config") = IF <<0>> \in DOMAIN i.file.provider
                                          THEN i.file.provider[<<0>>].worker_config
                                          ELSE i.file.provider[<< >>].worker_config
    BY DEF InFile
  <2> HIDE DEF env, flags, first
  <2>2. QED
    BY <1>3, <1>4, <1>5, <2>1 DEF Highest
<1>7. IsConfig(c) /\ Resolves(t) /\ WellBuilt(b)
  BY ConfigIsOne, ResolvedIsWellBuilt DEF Accepted, Accepts, IsConfig
<1> HIDE DEF file, env, flags, mid, c
<1>8. /\ DOMAIN middle = DOMAIN first
      /\ \A place \in DOMAIN first :
           middle[place].worker_config = IF place = WorkerSide(middle)
                                         THEN Over(first[place].worker_config, env.worker_config)
                                         ELSE first[place].worker_config
  BY <1>1, AppliedFields DEF mid
<1>9. /\ DOMAIN t = DOMAIN middle
      /\ \A place \in DOMAIN middle :
           t[place].worker_config = IF place = WorkerSide(t)
                                    THEN Over(middle[place].worker_config, flags.worker_config)
                                    ELSE middle[place].worker_config
  BY <1>1, <1>2, AppliedFields
<1>10. /\ << >> \in DOMAIN t
       /\ \A place \in DOMAIN t : /\ t[place] \in ProviderConfig
                                  /\ Given(t[place]) \subseteq Allowed[t[place].kind]
                                  /\ b[place].kind = t[place].kind
                                  /\ b[place].worker_config = t[place].worker_config
                                  /\ place \in DOMAIN b
       /\ DOMAIN b = DOMAIN t
  BY <1>7 DEF IsConfig, Tree, Resolves, Resolved, c
<1>11. \A place \in DOMAIN t : t[place].worker_config # None => t[place].kind = "oneharness"
  BY <1>10 DEF Given, Allowed, ProviderConfig, Kinds
<1>12. <<0>> \in DOMAIN t <=> "skill" \in t[<< >>].fields
  <2> DEFINE below == <<0>>
  <2>1. ASSUME below \in DOMAIN t
        PROVE  "skill" \in t[<< >>].fields
    <3>1. 1 \in DOMAIN <<0>> /\ <<0>>[1] = 0
      OBVIOUS
    <3>2. <<0>>[1] \in Below(t[Way(<<0>>, 1 - 1)])
      BY <1>7, <2>1, <3>1 DEF IsConfig, Tree
    <3>3. 0 \in Below(t[<< >>])
      BY <3>1, <3>2, WayToSkill
    <3>4. 0 \notin 1..Judges(t[<< >>])
      OBVIOUS
    <3>5. QED
      BY <3>3, <3>4 DEF Below
  <2>2. ASSUME "skill" \in t[<< >>].fields
        PROVE  <<0>> \in DOMAIN t
    <3>1. 0 \in Below(t[<< >>])
      BY <2>2 DEF Below
    <3>2. Append(<< >>, 0) \in DOMAIN t
      BY <1>7, <1>10, <3>1 DEF IsConfig, Tree
    <3>3. QED
      BY <3>2, WayToSkill
  <2>3. QED
    BY <2>1, <2>2
<1>13. t[<< >>].kind = "split" <=> <<0>> \in DOMAIN t
  <2>1. t[<< >>].kind = "split" => "skill" \in t[<< >>].fields
    BY <1>7, <1>10 DEF Resolves, SplitShape
  <2>2. "skill" \in t[<< >>].fields => "skill" \in Allowed[t[<< >>].kind]
    BY <1>10 DEF Given
  <2>3. t[<< >>].kind \in Kinds
    BY <1>10 DEF ProviderConfig
  <2>4. "skill" \in Allowed[t[<< >>].kind] => t[<< >>].kind = "split"
    BY <2>3 DEF Allowed, Kinds
  <2>5. QED
    BY <1>12, <2>1, <2>2, <2>4
<1> DEFINE leaf == WorkerSide(t)
           given_for == Highest(i, "worker_config")
<1>14. leaf = IF <<0>> \in DOMAIN t THEN <<0>> ELSE << >>
  BY <1>13 DEF WorkerSide
<1>15. leaf \in DOMAIN t /\ DOMAIN first = DOMAIN t
  BY <1>8, <1>9, <1>10, <1>14
<1>16. t[leaf].worker_config = given_for
  <2>1. WorkerSide(middle) \in {<< >>, <<0>>} /\ WorkerSide(middle) \in DOMAIN t
    BY <1>8, <1>9, <1>10 DEF WorkerSide
  <2>2. middle[leaf].worker_config
          = IF env.worker_config # None THEN env.worker_config ELSE first[leaf].worker_config
    <3>1. CASE WorkerSide(middle) = leaf
      BY <1>8, <1>15, <3>1 DEF Over
    <3>2. CASE WorkerSide(middle) # leaf
      <4>1. WorkerSide(middle) = << >> /\ leaf = <<0>>
        BY <1>8, <1>9, <1>14, <2>1, <3>2 DEF WorkerSide
      <4>2. t[<< >>].kind # "oneharness"
        BY <1>13, <1>14, <1>15, <4>1
      <4>3. t[<< >>].worker_config = None
        BY <1>10, <1>11, <4>2
      <4>4. t[<< >>].worker_config = Over(first[<< >>].worker_config, env.worker_config)
        BY <1>8, <1>9, <1>10, <3>2, <4>1
      <4>5. env.worker_config = None
        BY <4>3, <4>4 DEF Over
      <4>6. QED
        BY <1>8, <1>15, <3>2, <4>5
    <3>3. QED
      BY <3>1, <3>2
  <2>3. t[leaf].worker_config = Over(middle[leaf].worker_config, flags.worker_config)
    BY <1>8, <1>9, <1>15
  <2>4. QED
    BY <1>6, <1>14, <1>15, <2>2, <2>3 DEF Over
<1>17. b[leaf].kind = "oneharness" /\ b[leaf].worker_config = given_for
  BY <1>10, <1>11, <1>15, <1>16
<1>18. (CHOOSE l \in Reached(b, "respond") : TRUE) = leaf
  BY <1>7, <1>10, <1>14, <1>15, <1>17, WorkerLeafIs DEF Placed
<1>19. QED
  BY <1>17, <1>18

LEMMA WordsInOrder ==
  ASSUME NEW p, NEW body
  PROVE  /\ body # "" => Last(merge_instructions(p, body)) = body
         /\ p # "" => SubSeq(merge_instructions(p, body), 1, 1) = <<p>>
<1>1. Words(p) \in {<< >>, <<p>>} /\ Words(body) \in {<< >>, <<body>>}
  BY DEF Words
<1>2. /\ << >> \o <<body>> = <<body>> /\ <<p>> \o << >> = <<p>>
      /\ Len(<<body>>) = 1 /\ <<body>>[1] = body
      /\ Len(<<p>> \o <<body>>) = 2 /\ (<<p>> \o <<body>>)[2] = body
  OBVIOUS
<1>3. body # "" => Last(merge_instructions(p, body)) = body
  <2>1. SUFFICES ASSUME body # ""
                 PROVE  Last(Words(p) \o <<body>>) = body
    BY DEF merge_instructions, Words
  <2>2. QED
    BY <1>1, <1>2 DEF Last
<1>4. SubSeq(<<p>>, 1, 1) = <<p>> /\ SubSeq(<<p>> \o <<body>>, 1, 1) = <<p>>
  <2> DEFINE S == {p, body}
  <2>1. ASSUME NEW q \in Seq(S), Len(q) > 0, q[1] = p
        PROVE  SubSeq(q, 1, 1) = <<p>>
    <3>1. /\ SubSeq(q, 1, 1) \in Seq(S) /\ Len(SubSeq(q, 1, 1)) = 1
          /\ SubSeq(q, 1, 1)[1] = p
      BY <2>1
    <3>2. <<p>> \in Seq(S) /\ Len(<<p>>) = 1 /\ <<p>>[1] = p
      OBVIOUS
    <3>3. \A k \in 1..1 : k = 1
      OBVIOUS
    <3>4. QED
      BY <3>1, <3>2, <3>3, SameSequence
  <2>2. <<p>> \in Seq(S) /\ Len(<<p>>) > 0 /\ <<p>>[1] = p
    OBVIOUS
  <2>3. <<p>> \o <<body>> \in Seq(S) /\ (<<p>> \o <<body>>)[1] = p /\ Len(<<p>> \o <<body>>) > 0
    OBVIOUS
  <2> HIDE DEF S
  <2>4. SubSeq(<<p>>, 1, 1) = <<p>>
    BY <2>1, <2>2
  <2>5. SubSeq(<<p>> \o <<body>>, 1, 1) = <<p>>
    BY <2>1, <2>3
  <2>6. QED
    BY <2>4, <2>5
<1>5. p # "" => Words(p) = <<p>>
  BY DEF Words
<1>6. QED
  BY <1>1, <1>2, <1>3, <1>4, <1>5 DEF merge_instructions

(* Where each setting of an accepted configuration is in effect. *)
LEMMA SettingsInEffect ==
  ASSUME NEW i, Accepted(i), plan = <<Plan(Config(i), i.around)>>
  PROVE  LET c == Config(i)
         IN /\ InEffect("judge_config") = c.provider[<< >>].judge_config
            /\ InEffect("kind") = <<c.provider[<< >>].kind>>
            /\ InEffect("worker_config") = Backend[WorkerLeaf].worker_config
            /\ c.user # None =>
                 /\ InEffect("persona") = <<c.user[1].persona>>
                 /\ InEffect("artifacts") = <<c.user[1].artifacts>>
                 /\ InEffect("done_when") = c.user[1].done_when
                 /\ c.user[1].max_turns # None => InEffect("max_turns") = c.user[1].max_turns
            /\ InEffect("session")
                 = IF c.session \in {None, Blank} THEN <<"onejudge">> ELSE c.session
            /\ InEffect("task") = c.task
            /\ c.skill # None => InEffect("skill") = c.skill
            /\ c.system_prompt \notin {None, Blank} => InEffect("system_prompt") = c.system_prompt
            /\ c.skill # None /\ SkillBodies[c.skill[1]] # "" =>
                 Last(Instructions) = SkillBodies[c.skill[1]]
<1> DEFINE c == Config(i)
           p == Plan(c, i.around)
<1>1. IsConfig(c) /\ Accepts(c, i.around)
  BY ConfigIsOne DEF Accepted
<1> HIDE DEF c
<1>2. plan[1] = p
  BY DEF c
<1>3. /\ p.provider = Resolved(c.provider) /\ p.settings = Settings(c)
      /\ p.conversation = Conversation(c)
  BY DEF Plan
<1> HIDE DEF p
<1>4. Backend = Resolved(c.provider) /\ << >> \in DOMAIN c.provider
  BY <1>1, <1>2, <1>3 DEF Backend, IsConfig, Tree
<1>5. InEffect("judge_config") = c.provider[<< >>].judge_config
  BY <1>4 DEF InEffect, Resolved
<1>6. InEffect("kind") = <<c.provider[<< >>].kind>>
  BY <1>4 DEF InEffect, Resolved
<1>7. InEffect("worker_config") = Backend[WorkerLeaf].worker_config
  BY DEF InEffect
<1>8. ASSUME c.user # None
      PROVE  /\ InEffect("persona") = <<c.user[1].persona>>
             /\ InEffect("artifacts") = <<c.user[1].artifacts>>
             /\ InEffect("done_when") = c.user[1].done_when
             /\ c.user[1].max_turns # None => InEffect("max_turns") = c.user[1].max_turns
  <2>1. c.user = <<c.user[1]>> /\ c.user[1] \in UserConfig
    BY <1>1, <1>8, GivenType DEF IsConfig
  <2>2. User = [k \in DOMAIN c.user |-> SimulatedUser(c.user[k])] /\ 1 \in DOMAIN c.user
    BY <1>2, <1>3, <2>1 DEF User, Conversation
  <2>3. User[1] = SimulatedUser(c.user[1]) /\ 1 \in DOMAIN User
    BY <2>2
  <2>4. User # None
    BY <2>3 DEF None
  <2>5. InEffect("persona") = <<User[1].persona>>
    BY <2>4 DEF InEffect
  <2>6. InEffect("artifacts") = <<User[1].artifacts>>
    BY <2>4 DEF InEffect
  <2>7. InEffect("done_when") = User[1].done_when
    BY <2>4 DEF InEffect
  <2>8. InEffect("max_turns") = <<plan[1].settings.max_turns>>
    BY DEF InEffect
  <2>9. ASSUME c.user[1].max_turns # None
        PROVE  InEffect("max_turns") = c.user[1].max_turns
    <3>1. c.user[1].max_turns = <<c.user[1].max_turns[1]>>
      BY <2>1, <2>9, GivenType DEF UserConfig
    <3>2. plan[1].settings.max_turns = c.user[1].max_turns[1]
      BY <1>2, <1>3, <1>8, <2>9 DEF Settings, OrElse
    <3>3. QED
      BY <2>8, <3>1, <3>2
  <2>10. QED
    BY <2>3, <2>5, <2>6, <2>7, <2>9 DEF SimulatedUser
<1>9. InEffect("session") = IF c.session \in {None, Blank} THEN <<"onejudge">> ELSE c.session
  <2>1. c.session # None => c.session = <<c.session[1]>>
    BY <1>1, GivenType DEF IsConfig
  <2>2. InEffect("session") = <<plan[1].settings.session_name>>
    BY DEF InEffect
  <2>3. QED
    BY <1>2, <1>3, <2>1, <2>2 DEF Settings
<1>10. InEffect("task") = c.task
  <2>1. c.task = <<c.task[1]>>
    BY <1>1, GivenType DEF IsConfig, Accepts
  <2>2. InEffect("task") = <<plan[1].conversation.input>>
    BY DEF InEffect
  <2>3. QED
    BY <1>2, <1>3, <2>1, <2>2 DEF Conversation
<1>11. /\ Instructions = build_skill(c).instructions
       /\ InEffect("skill") = <<build_skill(c).dir>>
       /\ InEffect("system_prompt") = SubSeq(Instructions, 1, 1)
  BY <1>2, <1>3 DEF InEffect, Instructions, Conversation
<1>12. c.skill # None => /\ c.skill = <<c.skill[1]>>
                         /\ load_skill(c.skill[1])[1] = SkillBodies[c.skill[1]]
  <2>1. c.skill # None => c.skill[1] \in DOMAIN SkillBodies
    BY <1>1 DEF Accepts, CanBuildSkill, load_skill
  <2>2. QED
    BY <1>1, <2>1, GivenType DEF IsConfig, load_skill
<1>13. \E body :
         /\ Instructions = merge_instructions(OrElse(c.system_prompt, ""), body)
         /\ c.skill # None => body = SkillBodies[c.skill[1]] /\ build_skill(c).dir = c.skill[1]
  <2>1. CASE c.skill = None
    BY <1>11, <2>1 DEF build_skill
  <2>2. CASE c.skill # None
    BY <1>11, <1>12, <2>2 DEF build_skill
  <2>3. QED
    BY <2>1, <2>2
<1>14. PICK body :
         /\ Instructions = merge_instructions(OrElse(c.system_prompt, ""), body)
         /\ c.skill # None => body = SkillBodies[c.skill[1]] /\ build_skill(c).dir = c.skill[1]
  BY <1>13
<1>15. c.skill # None => InEffect("skill") = c.skill
  BY <1>11, <1>12, <1>14
<1>16. c.skill # None /\ SkillBodies[c.skill[1]] # "" =>
         Last(Instructions) = SkillBodies[c.skill[1]]
  BY <1>14, WordsInOrder
<1>17. ASSUME c.system_prompt \notin {None, Blank}
       PROVE  InEffect("system_prompt") = c.system_prompt
  <2>1. c.system_prompt = <<c.system_prompt[1]>>
    BY <1>1, <1>17, GivenType DEF IsConfig
  <2>2. c.system_prompt[1] # "" /\ OrElse(c.system_prompt, "") = c.system_prompt[1]
    BY <1>17, <2>1 DEF Blank, OrElse
  <2>3. QED
    <3>1. Instructions = merge_instructions(c.system_prompt[1], body)
      BY <1>14, <2>2
    <3>2. SubSeq(merge_instructions(c.system_prompt[1], body), 1, 1) = <<c.system_prompt[1]>>
      BY <2>2, WordsInOrder
    <3>3. QED
      BY <1>11, <2>1, <3>1, <3>2
<1>18. QED
  BY <1>5, <1>6, <1>7, <1>8, <1>9, <1>10, <1>15, <1>16, <1>17 DEF c

LEMMA NoOverrideIsLostIn == PlanInv => NoOverrideIsLost
<1> SUFFICES ASSUME PlanInv, phase = "planned",
                    NEW s \in DOMAIN NoOverrides, Highest(given[1], s) # None
             PROVE  /\ s # "system_prompt" \/ Highest(given[1], s) # Blank
                         => InEffect(s) = Expected(given[1], s)
                    /\ s = "skill" /\ SkillBodies[InEffect(s)[1]] # "" =>
                         Last(Instructions) = SkillBodies[InEffect(s)[1]]
  BY DEF NoOverrideIsLost
<1>1. PICK i : Accepted(i) /\ given = <<i>> /\ plan = <<Plan(Config(i), i.around)>>
  BY DEF PlanInv
<1>2. given[1] = i
  BY <1>1
<1> DEFINE c == Config(i)
<1>3. /\ InEffect("judge_config") = c.provider[<< >>].judge_config
      /\ InEffect("kind") = <<c.provider[<< >>].kind>>
      /\ InEffect("worker_config") = Backend[WorkerLeaf].worker_config
      /\ c.user # None =>
           /\ InEffect("persona") = <<c.user[1].persona>>
           /\ InEffect("artifacts") = <<c.user[1].artifacts>>
           /\ InEffect("done_when") = c.user[1].done_when
           /\ c.user[1].max_turns # None => InEffect("max_turns") = c.user[1].max_turns
      /\ InEffect("session") = IF c.session \in {None, Blank} THEN <<"onejudge">> ELSE c.session
      /\ InEffect("task") = c.task
      /\ c.skill # None => InEffect("skill") = c.skill
      /\ c.system_prompt \notin {None, Blank} => InEffect("system_prompt") = c.system_prompt
      /\ c.skill # None /\ SkillBodies[c.skill[1]] # "" =>
           Last(Instructions) = SkillBodies[c.skill[1]]
  BY <1>1, SettingsInEffect
<1>4. s \in Settled => InFile(c, s) = IF s = "session" THEN Highest(i, s) ELSE Expected(i, s)
  BY <1>1, <1>2, ConfigSays DEF Accepted
<1> HIDE DEF c
<1>5. s # "session" => Expected(i, s) # None
  <2>1. \A x : <<x>> # None
    BY DEF None
  <2>2. QED
    BY <1>2, <2>1 DEF Expected
<1>6. CASE s = "judge_config"
  <2>1. /\ InFile(c, "judge_config") = Expected(i, "judge_config")
        /\ Expected(i, "judge_config") # None
    BY <1>4, <1>5, <1>6 DEF Settled, NoOverrides
  <2>2. QED
    BY <1>2, <1>3, <1>6, <2>1, Readings
<1>7. CASE s = "kind"
  <2>1. InFile(c, "kind") = Expected(i, "kind") /\ Expected(i, "kind") # None
    BY <1>4, <1>5, <1>7 DEF Settled, NoOverrides
  <2>2. QED
    BY <1>2, <1>3, <1>7, <2>1, Readings
<1>8. CASE s = "persona"
  <2>1. InFile(c, "persona") = Expected(i, "persona") /\ Expected(i, "persona") # None
    BY <1>4, <1>5, <1>8 DEF Settled, NoOverrides
  <2>2. QED
    BY <1>2, <1>3, <1>8, <2>1, Readings
<1>9. CASE s = "artifacts"
  <2>1. InFile(c, "artifacts") = Expected(i, "artifacts") /\ Expected(i, "artifacts") # None
    BY <1>4, <1>5, <1>9 DEF Settled, NoOverrides
  <2>2. QED
    BY <1>2, <1>3, <1>9, <2>1, Readings
<1>10. CASE s = "done_when"
  <2>1. InFile(c, "done_when") = Expected(i, "done_when") /\ Expected(i, "done_when") # None
    BY <1>4, <1>5, <1>10 DEF Settled, NoOverrides
  <2>2. QED
    BY <1>2, <1>3, <1>10, <2>1, Readings
<1>11. CASE s = "max_turns"
  <2>1. InFile(c, "max_turns") = Expected(i, "max_turns") /\ Expected(i, "max_turns") # None
    BY <1>4, <1>5, <1>11 DEF Settled, NoOverrides
  <2>2. QED
    BY <1>2, <1>3, <1>11, <2>1, Readings
<1>12. CASE s = "task"
  <2>1. InFile(c, "task") = Expected(i, "task") /\ Expected(i, "task") # None
    BY <1>4, <1>5, <1>12 DEF Settled, NoOverrides
  <2>2. QED
    BY <1>2, <1>3, <1>12, <2>1, Readings
<1>13. CASE s = "skill"
  <2>1. InFile(c, "skill") = Expected(i, "skill") /\ Expected(i, "skill") # None
    BY <1>4, <1>5, <1>13 DEF Settled, NoOverrides
  <2>2. QED
    BY <1>2, <1>3, <1>13, <2>1, Readings
<1>14. CASE s = "session"
  <2>1. InFile(c, "session") = Highest(i, "session")
    BY <1>4, <1>14 DEF Settled, NoOverrides
  <2>2. Expected(i, "session") = IF Highest(i, "session") = Blank THEN <<"onejudge">>
                                 ELSE Highest(i, "session")
    BY DEF Expected
  <2>3. QED
    BY <1>2, <1>3, <1>14, <2>1, <2>2, Readings
<1>15. CASE s = "system_prompt"
  <2>1. InFile(c, "system_prompt") = Highest(i, "system_prompt")
    BY <1>4, <1>15 DEF Settled, NoOverrides, Expected
  <2>2. Expected(i, "system_prompt") = Highest(i, "system_prompt")
    BY DEF Expected
  <2>3. QED
    BY <1>2, <1>3, <1>15, <2>1, <2>2, Readings
<1>16. CASE s = "worker_config"
  <2>1. Backend = Resolved(c.provider)
    BY <1>1 DEF Backend, Plan, c
  <2>2. Backend[WorkerLeaf].worker_config = Highest(i, "worker_config")
    BY <1>1, <1>2, <1>16, <2>1, WorkerConfigLands DEF WorkerLeaf, c
  <2>3. Expected(i, "worker_config") = Highest(i, "worker_config")
    BY DEF Expected
  <2>4. QED
    BY <1>2, <1>3, <1>16, <2>2, <2>3
<1>17. QED
  BY <1>6, <1>7, <1>8, <1>9, <1>10, <1>11, <1>12, <1>13, <1>14, <1>15, <1>16 DEF NoOverrides

(* Whatever a flag, a variable or the file says is in effect in the plan,  *)
(* as the highest layer that says it says it.                              *)
THEOREM NoOverrideIsLostHolds == Spec => []NoOverrideIsLost
<1>1. QED
  BY PlanInvHolds, NoOverrideIsLostIn, PTL
=============================================================================
