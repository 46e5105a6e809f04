-------------------------- MODULE HarnessCallProofs ---------------------------
(***************************************************************************)
(* Proofs about HarnessCall, for any providers and calls of them, any       *)
(* reports a child may write and any lines it may stream, and any bounds.   *)
(***************************************************************************)
EXTENDS HarnessCallProperties, SequencesExt, WellFoundedInduction, TLAPS

-----------------------------------------------------------------------------
(* What `tool_events` does to every sequence of actions: it keeps only      *)
(* tools, and what it keeps of a prefix is a prefix of what it keeps. Both  *)
(* are inductions on the length, by the least number at which the claim     *)
(* would fail.                                                              *)

(* Every set of naturals with an element has a least one. *)
LEMMA LeastNatural ==
  ASSUME NEW S \in SUBSET Nat, S # {}
  PROVE  \E s \in S : \A t \in S : s <= t
<1>1. PICK s \in S : \A t \in S : ~ (<<t, s>> \in OpToRel(<, Nat))
  BY NatLessThanWellFounded, WFMin
<1>2. ASSUME NEW t \in S PROVE s <= t
  <2>1. SUFFICES ASSUME t < s PROVE FALSE
    OBVIOUS
  <2>2. <<t, s>> \in OpToRel(<, Nat)
    BY <2>1 DEF OpToRel
  <2>3. QED
    BY <1>1, <2>2
<1>3. QED
  BY <1>2

(* A set of naturals that has the successor of each of its elements below a *)
(* bound, and has 0, has everything up to the bound.                        *)
LEMMA UpTo ==
  ASSUME NEW N \in Nat, NEW S, 0 \in S,
         \A n \in 0 .. N : n # 0 /\ n - 1 \in S => n \in S
  PROVE  \A n \in 0 .. N : n \in S
<1> DEFINE missing == {n \in 0 .. N : n \notin S}
<1>1. SUFFICES ASSUME missing # {} PROVE FALSE
  OBVIOUS
<1>2. PICK n \in missing : \A m \in missing : n <= m
  <2>1. missing \in SUBSET Nat
    OBVIOUS
  <2> HIDE DEF missing
  <2>2. QED
    BY <1>1, <2>1, LeastNatural
<1>3. n # 0 /\ n \in Nat
  OBVIOUS
<1>4. n - 1 \in 0 .. N /\ n - 1 \notin missing
  BY <1>2, <1>3
<1>5. QED
  BY <1>3, <1>4

-----------------------------------------------------------------------------
(* The function tool_events is the last value of, on the first k actions.   *)

Kept(acts, f, n) ==
  IF n = 0 THEN <<>>
  ELSE IF acts[n] = "tool" THEN Append(f[n - 1], acts[n])
  ELSE f[n - 1]

Keeps(acts, f, k) == f = [n \in 0 .. k |-> Kept(acts, f, n)]

LEMMA KeptExists ==
  ASSUME NEW N \in Nat, NEW acts \in Seq(Actions), Len(acts) = N
  PROVE  \A k \in 0 .. N : \E f : Keeps(acts, f, k)
<1> DEFINE S == {k \in 0 .. N : \E f : Keeps(acts, f, k)}
<1>1. 0 \in S
  <2> DEFINE f == [n \in 0 .. 0 |-> <<>>]
  <2>1. f = [n \in 0 .. 0 |-> Kept(acts, f, n)]
    BY DEF Kept
  <2>2. QED
    BY <2>1 DEF Keeps
<1>2. ASSUME NEW k \in 0 .. N, k # 0, k - 1 \in S PROVE k \in S
  <2>1. PICK f : Keeps(acts, f, k - 1)
    BY <1>2
  <2> DEFINE g == [n \in 0 .. k |-> IF n = k THEN Kept(acts, f, k) ELSE f[n]]
  <2>2. \A n \in 0 .. k : g[n] = Kept(acts, g, n)
    <3>1. ASSUME NEW n \in 0 .. k, n # k PROVE g[n] = Kept(acts, g, n)
      <4>1. n \in 0 .. (k - 1) /\ g[n] = f[n]
        BY <3>1
      <4>2. f[n] = Kept(acts, f, n)
        BY <2>1, <4>1 DEF Keeps
      <4>3. n # 0 => n - 1 \in 0 .. k /\ n - 1 # k /\ g[n - 1] = f[n - 1]
        BY <3>1
      <4>4. QED
        BY <4>1, <4>2, <4>3 DEF Kept
    <3>2. g[k] = Kept(acts, g, k)
      <4>1. k - 1 \in 0 .. k /\ k - 1 # k /\ k \in 0 .. k
        BY <1>2
      <4>2. g[k - 1] = f[k - 1] /\ g[k] = Kept(acts, f, k)
        BY <4>1
      <4>3. QED
        BY <4>2, <1>2 DEF Kept
    <3>3. QED
      BY <3>1, <3>2
  <2>3. Keeps(acts, g, k)
    <3>1. g = [n \in 0 .. k |-> g[n]]
      OBVIOUS
    <3>2. QED
      BY <2>2, <3>1 DEF Keeps
  <2>4. QED
    BY <2>3
<1>3. QED
  BY <1>1, <1>2, UpTo

(* tool_events is the last value of one that keeps what it should. *)
LEMMA KeptIs ==
  ASSUME NEW acts \in Seq(Actions)
  PROVE  \E f : Keeps(acts, f, Len(acts)) /\ tool_events(acts) = f[Len(acts)]
<1> DEFINE f == CHOOSE f : f = [n \in 0 .. Len(acts) |->
                                  IF n = 0 THEN <<>>
                                  ELSE IF acts[n] = "tool" THEN Append(f[n - 1], acts[n])
                                  ELSE f[n - 1]]
<1>1. Len(acts) \in Nat /\ Len(acts) \in 0 .. Len(acts)
  OBVIOUS
<1>2. \E g : Keeps(acts, g, Len(acts))
  BY <1>1, KeptExists
<1>3. Keeps(acts, f, Len(acts))
  BY <1>2 DEF Keeps, Kept
<1>4. tool_events(acts) = f[Len(acts)]
  BY DEF tool_events
<1>5. QED
  BY <1>3, <1>4

(* Every value of it is a sequence of tools. *)
LEMMA KeptType ==
  ASSUME NEW acts \in Seq(Actions), NEW f, NEW N \in 0 .. Len(acts), Keeps(acts, f, N)
  PROVE  \A n \in 0 .. N : f[n] \in Seq({"tool"})
<1> DEFINE S == {n \in 0 .. N : f[n] \in Seq({"tool"})}
<1>1. N \in Nat /\ \A n \in 0 .. N : f[n] = Kept(acts, f, n)
  BY DEF Keeps
<1>2. 0 \in S
  <2>1. f[0] = <<>>
    BY <1>1 DEF Kept
  <2>2. 0 \in 0 .. N /\ <<>> \in Seq({"tool"})
    BY <1>1
  <2>3. QED
    BY <2>1, <2>2
<1>3. ASSUME NEW n \in 0 .. N, n # 0, n - 1 \in S PROVE n \in S
  <2>1. f[n] = f[n - 1] \/ f[n] = Append(f[n - 1], "tool")
    BY <1>1, <1>3 DEF Kept
  <2>2. f[n - 1] \in Seq({"tool"})
    BY <1>3
  <2>3. Append(f[n - 1], "tool") \in Seq({"tool"})
    BY <2>2
  <2>4. QED
    BY <2>1, <2>2, <2>3
<1>4. QED
  BY <1>1, <1>2, <1>3, UpTo

(* What it keeps is tools. *)
LEMMA ToolEventsType ==
  ASSUME NEW acts \in Seq(Actions)
  PROVE  tool_events(acts) \in Seq({"tool"}) /\ Len(tool_events(acts)) \in Nat
<1>1. PICK f : Keeps(acts, f, Len(acts)) /\ tool_events(acts) = f[Len(acts)]
  BY KeptIs
<1>2. Len(acts) \in 0 .. Len(acts)
  OBVIOUS
<1>3. QED
  BY <1>1, <1>2, KeptType

LEMMA ToolEventsEmpty == tool_events(<<>>) = <<>>
<1> DEFINE none == <<>>
<1>1. none \in Seq(Actions) /\ Len(none) = 0
  OBVIOUS
<1> HIDE DEF none
<1>2. PICK f : Keeps(none, f, Len(none)) /\ tool_events(none) = f[Len(none)]
  BY <1>1, KeptIs
<1>3. f[0] = <<>>
  BY <1>1, <1>2 DEF Keeps, Kept
<1>4. QED
  BY <1>1, <1>2, <1>3 DEF none

-----------------------------------------------------------------------------

(* Its values grow: each is a prefix of every later one. *)
LEMMA KeptGrows ==
  ASSUME NEW acts \in Seq(Actions), NEW f, NEW N \in 0 .. Len(acts), Keeps(acts, f, N),
         NEW m \in 0 .. N
  PROVE  \A n \in 0 .. N : m <= n => IsPrefix(f[m], f[n])
<1> DEFINE S == {n \in 0 .. N : m <= n => IsPrefix(f[m], f[n])}
<1>1. \A n \in 0 .. N : f[n] = Kept(acts, f, n) /\ f[n] \in Seq({"tool"})
  BY KeptType DEF Keeps
<1>5. N \in Nat
  OBVIOUS
<1>2. IsPrefix(f[m], f[m])
  BY <1>1 DEF IsPrefix
<1>3. 0 \in S
  BY <1>2
<1>4. ASSUME NEW n \in 0 .. N, n # 0, n - 1 \in S PROVE n \in S
  <2>1. CASE n < m
    BY <2>1
  <2>2. CASE n = m
    BY <2>2, <1>2
  <2>3. CASE m < n
    <3>1. m <= n - 1 /\ n - 1 \in 0 .. N
      BY <2>3, <1>4
    <3>2. IsPrefix(f[m], f[n - 1])
      BY <3>1, <1>4
    <3>3. f[n] = f[n - 1] \/ f[n] = Append(f[n - 1], "tool")
      BY <1>1, <1>4 DEF Kept
    <3>4. ASSUME f[n] = Append(f[n - 1], "tool") PROVE IsPrefix(f[m], f[n])
      <4> DEFINE a == f[m]
                 b == f[n - 1]
      <4>1. a \in Seq({"tool"}) /\ b \in Seq({"tool"})
        BY <1>1, <3>1
      <4> HIDE DEF a, b
      <4>2. IsPrefix(a, b) => IsPrefix(a, Append(b, "tool"))
        BY <4>1 DEF IsPrefix
      <4>3. QED
        BY <3>2, <3>4, <4>2 DEF a, b
    <3>5. QED
      BY <3>2, <3>3, <3>4
  <2>4. QED
    BY <2>1, <2>2, <2>3
<1>6. \A n \in 0 .. N : n \in S
  <2> HIDE DEF S
  <2>1. QED
    BY <1>3, <1>4, <1>5, UpTo
<1>7. QED
  BY <1>6

(* On a prefix it keeps the same. *)
LEMMA KeptOfPrefix ==
  ASSUME NEW acts \in Seq(Actions), NEW k \in 0 .. Len(acts),
         NEW f, Keeps(acts, f, Len(acts)),
         NEW g, Keeps(SubSeq(acts, 1, k), g, k)
  PROVE  \A n \in 0 .. k : g[n] = f[n]
<1> DEFINE S == {n \in 0 .. k : g[n] = f[n]}
           front == SubSeq(acts, 1, k)
<1>1. /\ k \in Nat /\ \A n \in 0 .. k : n \in 0 .. Len(acts)
      /\ \A n \in 0 .. k : f[n] = Kept(acts, f, n) /\ g[n] = Kept(front, g, n)
  <2>1. k \in Nat /\ \A n \in 0 .. k : n \in 0 .. Len(acts)
    OBVIOUS
  <2>2. ASSUME NEW n \in 0 .. k PROVE f[n] = Kept(acts, f, n) /\ g[n] = Kept(front, g, n)
    <3> HIDE DEF front
    <3>1. n \in 0 .. Len(acts)
      BY <2>1
    <3>2. Keeps(front, g, k)
      BY DEF front
    <3>3. QED
      BY <3>1, <3>2 DEF Keeps
  <2>3. QED
    BY <2>1, <2>2
<1>2. \A n \in 1 .. k : front[n] = acts[n]
  OBVIOUS
<1>3. 0 \in S
  BY <1>1 DEF Kept
<1>4. ASSUME NEW n \in 0 .. k, n # 0, n - 1 \in S PROVE n \in S
  BY <1>1, <1>2, <1>4 DEF Kept
<1>5. \A n \in 0 .. k : n \in S
  <2> HIDE DEF S
  <2>1. QED
    BY <1>1, <1>3, <1>4, UpTo
<1>6. QED
  BY <1>5

(* The tools of a prefix are a prefix of the tools. *)
THEOREM ToolsOfPrefix ==
  ASSUME NEW acts \in Seq(Actions), NEW k \in 0 .. Len(acts)
  PROVE  IsPrefix(tool_events(SubSeq(acts, 1, k)), tool_events(acts))
<1>1. SubSeq(acts, 1, k) \in Seq(Actions) /\ Len(SubSeq(acts, 1, k)) = k
  OBVIOUS
<1>2. PICK f : Keeps(acts, f, Len(acts)) /\ tool_events(acts) = f[Len(acts)]
  BY KeptIs
<1>3. PICK g : /\ Keeps(SubSeq(acts, 1, k), g, k)
               /\ tool_events(SubSeq(acts, 1, k)) = g[k]
  BY <1>1, KeptIs
<1>4. g[k] = f[k]
  BY <1>2, <1>3, KeptOfPrefix
<1>5. Len(acts) \in 0 .. Len(acts) /\ k <= Len(acts)
  OBVIOUS
<1>6. IsPrefix(f[k], f[Len(acts)])
  BY <1>2, <1>5, KeptGrows
<1>7. QED
  BY <1>2, <1>3, <1>4, <1>6

-----------------------------------------------------------------------------
(* A set of the naturals up to a bound has its greatest element. *)
LEMMA Greatest ==
  ASSUME NEW n \in Nat, NEW S \in SUBSET (1 .. n), S # {}
  PROVE  R!Max(S) \in S
<1> DEFINE above == {u \in Nat : \A s \in S : s <= u}
<1>1. above \in SUBSET Nat /\ n \in above
  OBVIOUS
<1>2. PICK u \in above : \A t \in above : u <= t
  <2> HIDE DEF above
  <2>1. QED
    BY <1>1, LeastNatural
<1>3. u \in S
  <2>1. SUFFICES ASSUME u \notin S PROVE FALSE
    OBVIOUS
  <2>2. PICK s \in S : s \in 1 .. n
    OBVIOUS
  <2>3. s <= u /\ u # s
    BY <1>2, <2>1, <2>2
  <2>4. u - 1 \in Nat /\ \A t \in S : t <= u - 1
    BY <1>2, <2>1, <2>2, <2>3
  <2>5. QED
    BY <1>2, <2>4
<1>4. \E x \in S : \A y \in S : x >= y
  BY <1>2, <1>3
<1>5. QED
  BY <1>4 DEF R!Max

LEMMA LastIsMember ==
  ASSUME NEW S, NEW s \in Seq(S), s # <<>>
  PROVE  R!Last(s) \in S
  BY DEF R!Last

(* A report that can be read is of the result it selects, if it selects     *)
(* one; and if it carries no failure it does, and that result's harness ran. *)
LEMMA ReadReport ==
  ASSUME NEW report \in R!Reports(Replies), R!readable(report)
  PROVE  /\ R!ran(report) \in 0 .. Len(report.results)
         /\ R!failed(report) = R!None =>
              /\ R!ran(report) # 0
              /\ R!result(report).status \in {"ok", "nonzero"}
<1> DEFINE results == report.results
           fell == report.fallback.fell
           matching == R!Matching(report)
<1>1. /\ results \in Seq(R!Results(Replies)) /\ Len(results) \in Nat
      /\ fell \in Seq([id : STRING, reason : DOMAIN R!reason_kind])
      /\ report.fallback.chain \in BOOLEAN
  BY DEF R!Reports, R!Fallbacks
<1>2. ASSUME NEW i \in 1 .. Len(results), R!failure(results[i]) = R!None
      PROVE  results[i].status \in {"ok", "nonzero"}
  <2>1. results[i] \in R!Results(Replies)
    BY <1>1
  <2>2. results[i].status \in R!Statuses /\ results[i].kind \in DOMAIN R!classify \cup {R!None}
    BY <2>1 DEF R!Results
  <2>3. QED
    BY <1>2, <2>2 DEF R!failure, R!classify, R!status_kind, R!None, R!Statuses
<1>3. CASE report.fallback.chain /\ report.fallback.ran = R!None
  <2>1. fell # <<>> => R!reason_kind[R!Last(fell).reason] # R!None
    <3>1. ASSUME fell # <<>> PROVE R!Last(fell).reason \in DOMAIN R!reason_kind
      <4>1. R!Last(fell) \in [id : STRING, reason : DOMAIN R!reason_kind]
        BY <1>1, <3>1, LastIsMember
      <4>2. QED
        BY <4>1
    <3>2. QED
      BY <3>1 DEF R!reason_kind, R!None
  <2>2. R!ran(report) = 0 /\ R!failed(report) # R!None
    BY <1>3, <2>1 DEF R!ran, R!failed, R!select, R!None
  <2>3. QED
    BY <2>2, <1>1
<1>4. CASE results = <<>> /\ ~ (report.fallback.chain /\ report.fallback.ran = R!None)
  <2>1. ~ R!readable(report)
    BY <1>4 DEF R!readable, R!select
  <2>2. QED
    BY <2>1
<1>5. CASE report.fallback.chain /\ results # <<>> /\ report.fallback.ran # R!None
  <2> DEFINE i == IF matching = {} THEN Len(results) ELSE R!Max(matching)
  <2>1. i \in 1 .. Len(results)
    <3>1. matching \in SUBSET (1 .. Len(results))
      BY <1>1 DEF R!Matching
    <3>2. Len(results) \in 1 .. Len(results)
      BY <1>1, <1>5
    <3> HIDE DEF matching, results
    <3>3. matching # {} => R!Max(matching) \in matching
      BY <1>1, <3>1, Greatest
    <3>4. QED
      BY <3>1, <3>2, <3>3
  <2>2. R!ran(report) = i /\ R!failed(report) = R!failure(results[i])
    BY <1>5 DEF R!ran, R!failed, R!select
  <2>3. QED
    BY <1>1, <1>2, <2>1, <2>2 DEF R!result
<1>6. CASE ~ report.fallback.chain /\ results # <<>>
  <2>1. 1 \in 1 .. Len(results)
    BY <1>1, <1>6
  <2>2. R!ran(report) = 1 /\ R!failed(report) = R!failure(results[1])
    BY <1>6 DEF R!ran, R!failed, R!select
  <2>3. QED
    BY <1>1, <1>2, <2>1, <2>2 DEF R!result
<1>7. QED
  BY <1>1, <1>3, <1>4, <1>5, <1>6

(* What a readable report says of itself. *)
LEMMA ReportTypes ==
  ASSUME NEW report \in R!Reports(Replies), R!readable(report)
  PROVE  /\ R!usage(report) \in Nat
         /\ R!actions(report) \in Seq(Actions)
         /\ Len(tool_events(R!actions(report))) \in Nat
<1>1. R!ran(report) \in 0 .. Len(report.results)
  BY ReadReport
<1>2. report.results \in Seq(R!Results(Replies))
  BY DEF R!Reports
<1>3. R!ran(report) # 0 => R!result(report) \in R!Results(Replies)
  BY <1>1, <1>2 DEF R!result
<1>4. R!ran(report) # 0 => /\ R!result(report).usage \in Nat
                           /\ R!result(report).events \in Seq(Actions)
  BY <1>3 DEF R!Results, R!Actions, Actions
<1>5. R!usage(report) \in Nat
  BY <1>4 DEF R!usage
<1>6. R!actions(report) \in Seq(Actions)
  <2>1. <<>> \in Seq(Actions)
    OBVIOUS
  <2>2. QED
    BY <1>4, <2>1 DEF R!actions
<1>7. QED
  BY <1>5, <1>6, ToolEventsType

LEMMA NoReportIsReport == NoReport \in R!Reports(Replies)
<1>1. R!NoFallback \in R!Fallbacks
  <2>1. <<>> \in Seq([id : STRING, reason : DOMAIN R!reason_kind])
    OBVIOUS
  <2>2. QED
    BY <2>1 DEF R!NoFallback, R!Fallbacks, R!None
<1>2. <<>> \in Seq(R!Results(Replies))
  OBVIOUS
<1>3. QED
  BY <1>1, <1>2 DEF NoReport, R!Reports

-----------------------------------------------------------------------------
(* The types need to know where in a call it is: which call it is, what its *)
(* attempt asks for, how its stream ended and that an attempt that is over  *)
(* came to something.                                                       *)

Staged ==
  /\ at # "idle" => call \in Calls[provider]
  /\ at \notin {"idle", "ladder"} =>
       /\ spec.by = provider.by /\ spec.op = call.op
       /\ spec.stream => spec.by = "oneharness" /\ spec.op \in Watchable
  /\ at = "eof" => outcome = "report"
  /\ at \in {"grace1", "grace2"} => outcome \in {"aborted", "malformed"}
  /\ at \in {"waiting", "joining"} => outcome # "none"
  /\ at = "back" => got.is # "pending"

Typed == TypeOK /\ Staged

LEMMA ProviderTypes ==
  ASSUME TypeOK
  PROVE  /\ provider \in Configurations
         /\ provider.by \in Programs /\ provider.stream \in BOOLEAN
         /\ provider.library \in BOOLEAN /\ provider.control \in BOOLEAN
         /\ provider.library \/ provider.control \/ provider.stream => provider.by = "oneharness"
<1>1. provider \in Configurations
  BY CallAssumption DEF TypeOK, CallType
<1>2. QED
  BY <1>1 DEF Configurations

LEMMA FormTypes ==
  ASSUME TypeOK, NEW c \in Calls[provider]
  PROVE  c \in Forms /\ Callable(c)
  BY CallAssumption DEF TypeOK, CallType

(* What holds of every call, made or not. *)
LEMMA CallTypes ==
  ASSUME TypeOK
  PROVE  /\ call.op \in Operations \cup {"none"} /\ call.session \in BOOLEAN
         /\ call.history \in BOOLEAN
         /\ call.history => call.op \in Watchable
<1>1. CASE call \in Calls[provider]
  BY <1>1, FormTypes DEF Forms, Callable, Watchable
<1>2. CASE call = NoCall
  BY <1>2 DEF NoCall
<1>3. QED
  BY <1>1, <1>2 DEF TypeOK, CallType

LEMMA Limits ==
  MAX_CALLS \in Nat /\ SUPERVISOR_REASK_LIMIT \in Nat /\ EVIDENCE_TOOL_RETRY_LIMIT \in Nat
  BY CallAssumption

LEMMA InitTyped == Init => Typed
<1> SUFFICES ASSUME Init PROVE Typed
  OBVIOUS
<1>1. ProcessType
  <2>1. /\ spec = NoSpec /\ child = NoChild /\ got = Pending /\ at = "idle"
        /\ out = <<>> /\ heard = <<>> /\ shown = <<>> /\ outcome = "none" /\ recorded = FALSE
    BY DEF Init
  <2>2. spec \in Specs
    BY <2>1 DEF NoSpec, Specs
  <2>3. got \in Gots
    BY <2>1, NoReportIsReport DEF Gots, Pending, Got, Codes, Other, Words
  <2>4. child \in Children
    BY <2>1 DEF NoChild, Children
  <2>5. out \in Seq(Lines) /\ heard \in Seq(Actions) /\ shown \in Seq(Actions)
    BY <2>1
  <2>6. at \in Stages /\ outcome \in {"none", "aborted", "report", "malformed"}
        /\ recorded \in BOOLEAN
    BY <2>1 DEF Stages
  <2>7. QED
    BY <2>2, <2>3, <2>4, <2>5, <2>6 DEF ProcessType
<1>2. CallType
  <2>1. /\ provider \in Providers /\ calls \in 0 .. MAX_CALLS /\ call = NoCall
        /\ ask \in 0 .. SUPERVISOR_REASK_LIMIT /\ tried \in 0 .. EVIDENCE_TOOL_RETRY_LIMIT
        /\ used \in Nat /\ total \in Nat /\ reask = "none" /\ link \in BOOLEAN
    <3>1. /\ calls = 0 /\ ask = 0 /\ tried = 0 /\ used = 0 /\ total = 0
          /\ call = NoCall /\ reask = "none" /\ link = FALSE /\ provider \in Providers
      BY DEF Init
    <3>2. calls \in 0 .. MAX_CALLS
      BY <3>1, Limits
    <3>3. ask \in 0 .. SUPERVISOR_REASK_LIMIT
      BY <3>1, Limits
    <3>4. tried \in 0 .. EVIDENCE_TOOL_RETRY_LIMIT
      BY <3>1, Limits
    <3>5. QED
      BY <3>1, <3>2, <3>3, <3>4
  <2>2. rung \in Rungs /\ last \in [Parties -> Rungs \cup {"none"}]
    BY DEF Init, Rungs
  <2>3. party \in [Parties -> [outcome : {"not_requested", "unavailable", "open"},
                              socket : BOOLEAN, redirected : BOOLEAN]]
    BY DEF Init, Silent
  <2>4. judge_record \in [posture : BOOLEAN, events : Nat] /\ telemetry \in [usage : Nat, tools : Nat]
    BY DEF Init, NoRecord, NothingRecorded
  <2>5. answer.is \in Answers \cup {"none"} /\ answer.usage \in Nat
    BY DEF Init, NoAnswer
  <2>6. QED
    BY <2>1, <2>2, <2>3, <2>4, <2>5 DEF CallType
<1>3. Staged
  BY DEF Init, Staged
<1>4. QED
  BY <1>1, <1>2, <1>3 DEF Typed, TypeOK

LEMMA CallTypeKept == TypeOK /\ UNCHANGED callVars => CallType'
  BY DEF TypeOK, CallType, callVars, loops, kept

(* What an attempt may come to. *)
LEMMA GotTypes ==
  ASSUME NEW is \in {"pending", "error", "unwritten", "aborted", "output"},
         NEW report \in R!Reports(Replies), NEW code \in Codes, NEW words \in Words
  PROVE  Got(is, report, code, words) \in Gots
  BY DEF Got, Gots

LEMMA FailedTypes ==
  ASSUME NEW words \in Words
  PROVE  Failed(words) \in Gots /\ Failed(words).is = "error"
  BY NoReportIsReport DEF Failed, Got, Gots, Codes, Other

(* Every document is a report of the program and operation it is asked of. *)
LEMMA WritableTypes ==
  ASSUME Typed, at \notin {"idle", "ladder"}
  PROVE  /\ Writable \subseteq R!Reports(Replies)
         /\ Writable \subseteq {NoReport} \cup Documents[<<provider.by, call.op>>]
         /\ <<provider.by, call.op>> \in DOMAIN Documents
<1>1. call.op \in Operations
  BY FormTypes DEF Typed, Staged, Forms
<1>2. provider.by \in Programs
  BY ProviderTypes DEF Typed
<1>3. <<provider.by, call.op>> \in DOMAIN Documents
  BY <1>1, <1>2, ChildAssumption
<1>4. Documents[<<provider.by, call.op>>] \subseteq R!Reports(Replies)
  BY <1>3, DocumentsAssumption
<1>5. spec.by = provider.by /\ spec.op = call.op
  BY DEF Typed, Staged
<1>6. Writable \subseteq {NoReport} \cup Documents[<<provider.by, call.op>>]
  BY <1>5 DEF Writable
<1>7. QED
  BY <1>3, <1>4, <1>6, NoReportIsReport

LEMMA OutputTypes ==
  ASSUME Typed, at \notin {"idle", "ladder"}, NEW g \in Output
  PROVE  g \in Gots /\ g.is = "output"
<1>1. CASE \E d \in Writable, code \in Codes : g = Got("output", d, code, "nothing")
  <2>1. PICK d \in Writable, code \in Codes : g = Got("output", d, code, "nothing")
    BY <1>1
  <2>2. d \in R!Reports(Replies)
    <3>1. Writable \subseteq R!Reports(Replies)
      BY WritableTypes
    <3>2. QED
      BY <3>1
  <2>3. QED
    BY <2>1, <2>2 DEF Got, Gots, Words
<1>2. CASE \E words \in Words : g = Got("output", NoReport, Other, words)
  BY <1>2, NoReportIsReport DEF Got, Gots, Codes, Other
<1>3. QED
  BY <1>1, <1>2 DEF Output, Refusals, Words, Codes, Other

LEMMA StreamedTypes ==
  ASSUME Typed, at = "joining", NEW g \in Streamed
  PROVE  g \in Gots /\ g.is # "pending"
<1>1. outcome \in {"aborted", "report", "malformed"}
  BY DEF Typed, TypeOK, ProcessType, Staged
<1>2. CASE outcome = "aborted"
  BY <1>2, NoReportIsReport DEF Streamed, Got, Gots, Codes, Other, Words
<1>3. CASE outcome = "report"
  BY <1>3, OutputTypes DEF Streamed
<1>4. CASE outcome = "malformed"
  BY <1>4, FailedTypes DEF Streamed, Refusals, Words
<1>5. QED
  BY <1>1, <1>2, <1>3, <1>4

LEMMA NoChildType ==
  /\ NoChild \in Children
  /\ [NoChild EXCEPT !.at = "up", !.open = Pipes] \in Children
  BY DEF NoChild, Children, Alive

LEMMA ChildTypes ==
  ASSUME child \in Children
  PROVE  /\ \A a \in Alive \cup {"none", "gone", "reaped"} : [child EXCEPT !.at = a] \in Children
         /\ \A a \in Alive \cup {"none", "gone", "reaped"} : \A remain \in SUBSET child.open :
              [child EXCEPT !.at = a, !.open = remain] \in Children
         /\ \A remain \in SUBSET child.open : [child EXCEPT !.open = remain] \in Children
         /\ \A b \in BOOLEAN : [child EXCEPT !.read = b] \in Children
         /\ [child EXCEPT !.lines = @ + 1] \in Children
<1>1. \A a \in Alive \cup {"none", "gone", "reaped"} : [child EXCEPT !.at = a] \in Children
  BY DEF Children
<1>2. \A remain \in SUBSET child.open : remain \in SUBSET Pipes
  BY DEF Children
<1>3. ASSUME NEW a \in Alive \cup {"none", "gone", "reaped"}, NEW remain \in SUBSET child.open
      PROVE  [child EXCEPT !.at = a, !.open = remain] \in Children
  BY <1>2 DEF Children
<1>4. ASSUME NEW remain \in SUBSET child.open
      PROVE  [child EXCEPT !.open = remain] \in Children
  BY <1>2 DEF Children
<1>5. \A b \in BOOLEAN : [child EXCEPT !.read = b] \in Children
  BY DEF Children
<1>6. [child EXCEPT !.lines = @ + 1] \in Children
  BY DEF Children
<1>7. QED
  BY <1>1, <1>3, <1>4, <1>5, <1>6

LEMMA FailureTypes ==
  /\ Refused \in Gots /\ Refused.is # "pending" /\ Pending \in Gots
  /\ Got("unwritten", NoReport, Other, "nothing") \in Gots
  /\ Got("unwritten", NoReport, Other, "nothing").is # "pending"
  BY NoReportIsReport DEF Refused, Failed, Pending, Got, Gots, Other, Codes, Words

LEMMA ProcessStepTyped ==
  ASSUME Typed, ProcessStep, UNCHANGED callVars
  PROVE  ProcessType' /\ Staged'
<1> USE DEF Typed, TypeOK
<1>1. provider' = provider /\ call' = call
  BY DEF callVars
<1>2. CASE Create
  <2>1. Staged'
    BY <1>1, <1>2, FailureTypes DEF Create, Staged
  <2>2. ProcessType'
    BY <1>2, FailureTypes, NoChildType DEF Create, ProcessType, Stages
  <2>3. QED
    BY <2>1, <2>2
<1>3. CASE Group
  <2>1. Staged'
    BY <1>1, <1>3, FailureTypes DEF Group, AfterSpawn, Staged
  <2>2. ProcessType'
    BY <1>3, FailureTypes, NoChildType DEF Group, AfterSpawn, ProcessType, Stages
  <2>3. QED
    BY <2>1, <2>2
<1>4. CASE WriteRequest
  <2>1. Staged'
    BY <1>1, <1>4 DEF WriteRequest, Staged, process
  <2>2. ProcessType'
    BY <1>4 DEF WriteRequest, ProcessType, Stages, process
  <2>3. QED
    BY <2>1, <2>2
<1>5. CASE WriteFails
  <2>1. Staged'
    BY <1>1, <1>5, FailureTypes DEF WriteFails, Staged, process
  <2>2. ProcessType'
    BY <1>5, FailureTypes DEF WriteFails, ProcessType, Stages, process
  <2>3. QED
    BY <2>1, <2>2
<1>6. CASE Collect
  <2>1. Staged'
    BY <1>1, <1>6, OutputTypes DEF Collect, Staged
  <2>2. ProcessType'
    BY <1>6, OutputTypes, ChildTypes DEF Collect, ProcessType, Stages
  <2>3. QED
    BY <2>1, <2>2
<1>7. CASE ReadEvent
  <2>1. Staged'
    BY <1>1, <1>7 DEF ReadEvent, Hear, Conclude, Staged, process
  <2>2. ProcessType'
    BY <1>7 DEF ReadEvent, Hear, Conclude, ProcessType, Stages, process
  <2>3. QED
    BY <2>1, <2>2
<1>8. CASE ReadResult
  <2>1. Staged'
    BY <1>1, <1>8 DEF ReadResult, Conclude, Staged, process
  <2>2. ProcessType'
    BY <1>8 DEF ReadResult, Conclude, ProcessType, Stages, process
  <2>3. QED
    BY <2>1, <2>2
<1>9. CASE ReadMalformed
  <2>1. Staged'
    BY <1>1, <1>9 DEF ReadMalformed, Conclude, Staged, process
  <2>2. ProcessType'
    BY <1>9 DEF ReadMalformed, Conclude, ProcessType, Stages, process
  <2>3. QED
    BY <2>1, <2>2
<1>10. CASE ReadToEnd
  <2>1. Staged'
    BY <1>1, <1>10 DEF ReadToEnd, Staged, process
  <2>2. ProcessType'
    BY <1>10 DEF ReadToEnd, ProcessType, Stages, process
  <2>3. QED
    BY <2>1, <2>2
<1>11. CASE Exited
  <2>1. Staged'
    BY <1>1, <1>11 DEF Exited, Staged, process
  <2>2. ProcessType'
    BY <1>11 DEF Exited, ProcessType, Stages, process
  <2>3. QED
    BY <2>1, <2>2
<1>12. CASE request_stop
  <2>1. Staged'
    BY <1>1, <1>12 DEF request_stop, Staged, process
  <2>2. ProcessType'
    BY <1>12 DEF request_stop, ProcessType, Stages, process
  <2>3. QED
    BY <2>1, <2>2
<1>13. CASE Kill
  <2>1. Staged'
    BY <1>1, <1>13 DEF Kill, Staged
  <2>2. ProcessType'
    <3>1. PICK remain \in SUBSET child.open :
            child' = [child EXCEPT !.at = "gone", !.open = remain]
      BY <1>13 DEF Kill
    <3>2. child' \in Children
      BY <3>1, ChildTypes DEF ProcessType
    <3>3. QED
      BY <1>13, <3>2 DEF Kill, ProcessType, Stages
  <2>3. QED
    BY <2>1, <2>2
<1>14. CASE Wait
  <2>1. Staged'
    BY <1>1, <1>14 DEF Wait, Staged
  <2>2. ProcessType'
    BY <1>14, ChildTypes DEF Wait, ProcessType, Stages
  <2>3. QED
    BY <2>1, <2>2
<1>15. CASE JoinStderr
  <2>1. Staged'
    BY <1>1, <1>15, StreamedTypes DEF JoinStderr, Staged, process
  <2>2. ProcessType'
    BY <1>15, StreamedTypes DEF JoinStderr, ProcessType, Stages, process
  <2>3. QED
    BY <2>1, <2>2
<1>16. QED
  BY <1>2, <1>3, <1>4, <1>5, <1>6, <1>7, <1>8, <1>9, <1>10, <1>11, <1>12, <1>13, <1>14, <1>15 DEF ProcessStep

LEMMA ChildStepTyped ==
  ASSUME Typed, ChildStep, UNCHANGED callVars
  PROVE  ProcessType' /\ Staged'
<1> USE DEF Typed, TypeOK
<1>1. provider' = provider /\ call' = call
  BY DEF callVars
<1>2. CASE ChildReads
  BY <1>1, <1>2, ChildTypes DEF ChildReads, Child, ProcessType, Staged
<1>3. CASE ChildSticks
  <2>1. PICK a \in Alive : Child([child EXCEPT !.at = a]) /\ UNCHANGED out
    BY <1>3 DEF ChildSticks, Alive, Blocked
  <2>2. QED
    BY <1>1, <2>1, ChildTypes DEF Child, ProcessType, Staged
<1>4. CASE ChildGoesOn
  BY <1>1, <1>4, ChildTypes DEF ChildGoesOn, Child, ProcessType, Staged, Alive, Blocked
<1>5. CASE ChildWrites
  <2>1. PICK line \in Written[spec.op] : out' = <<line>>
    BY <1>5 DEF ChildWrites
  <2>2. Written[spec.op] \subseteq Lines
    <3>1. spec.op \in Watchable
      BY <1>5 DEF ChildWrites, Staged
    <3>2. QED
      BY <3>1, ChildAssumption
  <2>3. out' \in Seq(Lines)
    BY <2>1, <2>2
  <2>4. QED
    BY <1>1, <1>5, <2>3, ChildTypes DEF ChildWrites, Child, ProcessType, Staged
<1>6. CASE ChildExits
  <2>1. PICK remain \in SUBSET child.open :
          Child([child EXCEPT !.at = "gone", !.open = remain]) /\ UNCHANGED out
    BY <1>6 DEF ChildExits
  <2>2. QED
    BY <1>1, <2>1, ChildTypes DEF Child, ProcessType, Staged
<1>7. CASE ChildCloses \/ HeirLeaves
  <2>1. PICK remain \in SUBSET child.open : Child([child EXCEPT !.open = remain]) /\ UNCHANGED out
    BY <1>7 DEF ChildCloses, HeirLeaves
  <2>2. QED
    BY <1>1, <2>1, ChildTypes DEF Child, ProcessType, Staged
<1>8. QED
  BY <1>2, <1>3, <1>4, <1>5, <1>6, <1>7 DEF ChildStep

-----------------------------------------------------------------------------
(* An attempt at a call: what it asks for is of the call. *)
LEMMA AttemptTyped ==
  ASSUME Typed, call \in Calls[provider], NEW r \in Rungs, Attempt(r),
         call' = call, provider' = provider, shown' = shown
  PROVE  ProcessType' /\ Staged' /\ rung' \in Rungs
<1> USE DEF Typed, TypeOK
<1>1. /\ child' = NoChild /\ recorded' = FALSE /\ out' = <<>> /\ heard' = <<>>
      /\ outcome' = "none" /\ got' = Pending /\ rung' = r /\ at' \in {"running", "attempt"}
  BY DEF Attempt, NothingRun
<1>2. PICK big \in BOOLEAN :
        spec' = [by |-> provider.by, op |-> call.op,
                 stream |-> \/ provider.by = "oneharness" /\ call.history
                            \/ provider.by = "oneharness" /\ call.op = "respond" /\ provider.stream,
                 history |-> call.history,
                 stdin |-> provider.by # "llmlint",
                 session |-> provider.by = "oneharness" /\ r # "plain",
                 control |-> r = "controlled",
                 note |-> supervisor_reask_note,
                 big |-> big]
  BY DEF Attempt
<1>3. supervisor_reask_note \in {"", "REASK", "UNPARSED", "REDIRECT"}
  <2>1. reask \in {"none", "no_instruction", "unparseable"}
    BY DEF CallType, Reask
  <2>2. note[reask] \in {"", "REASK", "UNPARSED"}
    <3>1. /\ note["none"] = "" /\ note["no_instruction"] = "REASK"
          /\ note["unparseable"] = "UNPARSED"
      BY DEF note
    <3>2. QED
      BY <2>1, <3>1
  <2>3. QED
    BY <2>2 DEF supervisor_reask_note
<1>4. spec' \in Specs
  BY <1>2, <1>3, CallTypes, ProviderTypes DEF Specs
<1>5. spec'.by = provider.by /\ spec'.op = call.op
      /\ (spec'.stream => spec'.by = "oneharness" /\ spec'.op \in Watchable)
  BY <1>2, CallTypes, ProviderTypes DEF Watchable
<1>6. ProcessType'
  <2>1. out' \in Seq(Lines) /\ heard' \in Seq(Actions) /\ shown' \in Seq(Actions)
    BY <1>1 DEF ProcessType
  <2>2. child' \in Children /\ got' \in Gots /\ at' \in Stages /\ recorded' \in BOOLEAN
    BY <1>1, NoChildType, FailureTypes DEF Stages
  <2>3. QED
    BY <1>1, <1>4, <2>1, <2>2 DEF ProcessType
<1>7. Staged'
  BY <1>1, <1>5 DEF Staged
<1>8. QED
  BY <1>1, <1>6, <1>7

(* What an attempt came to, read for its call. *)
LEMMA CameIs ==
  ASSUME Typed, at = "back"
  PROVE  /\ Came.is \in {"turn", "aborted", "error"}
         /\ Came.is = "turn" => Reported
         /\ Came.is = "turn" /\ provider.by = "oneharness" => R!failed(got.report) = R!None
         /\ Came.is = "aborted" => /\ provider.by = "oneharness" /\ got.is = "aborted"
                                   /\ call.op = "respond"
         /\ got.is = "aborted" /\ Came.is # "aborted" => Came.is = "error"
         /\ got.is = "aborted" /\ call.op = "respond" /\ provider.by = "oneharness"
              => Came.is = "aborted"
         /\ Came.words \in {"nothing", got.words}
<1> USE DEF Turn, Wrong
<1>1. got.is \in {"error", "unwritten", "aborted", "output"}
  BY DEF Typed, TypeOK, ProcessType, Staged, Gots
<1>2. CASE provider.by = "oneharness"
  <2>1. Came = OfOneharness
    BY <1>2 DEF Came
  <2>2. CASE got.is \in {"error", "unwritten"}
    BY <1>2, <2>1, <2>2 DEF OfOneharness
  <2>3. CASE got.is = "aborted"
    <3>1. ~ Reported
      BY <2>3 DEF Reported
    <3>2. Came = IF call.op = "respond"
                 THEN [is |-> "aborted", report |-> NoReport, words |-> "nothing"]
                 ELSE Wrong("nothing")
      BY <2>1, <2>3, <3>1 DEF OfOneharness
    <3>3. QED
      BY <1>2, <2>3, <3>2
  <2>4. CASE got.is = "output" /\ ~ Reported
    BY <1>2, <2>1, <2>4 DEF OfOneharness
  <2>5. CASE got.is = "output" /\ Reported
    BY <1>2, <2>1, <2>5 DEF OfOneharness
  <2>6. QED
    BY <1>1, <2>2, <2>3, <2>4, <2>5
<1>3. CASE provider.by = "command"
  BY <1>3 DEF Came, OfCommand
<1>4. CASE provider.by = "llmlint"
  BY <1>4 DEF Came, OfLlmlint
<1>5. QED
  BY <1>2, <1>3, <1>4, ProviderTypes DEF Typed, Programs

(* What recording an attempt leaves. *)
Telemetries == [usage : Nat, tools : Nat]
Parts == [outcome : {"not_requested", "unavailable", "open"}, socket : BOOLEAN,
          redirected : BOOLEAN]

LEMMA ReportedTypes ==
  ASSUME TypeOK, Reported
  PROVE  /\ got.report \in R!Reports(Replies) /\ R!readable(got.report)
         /\ R!usage(got.report) \in Nat
         /\ R!actions(got.report) \in Seq(Actions)
         /\ Len(tool_events(R!actions(got.report))) \in Nat
<1>1. got.report \in R!Reports(Replies) /\ R!readable(got.report)
  BY DEF TypeOK, ProcessType, Gots, Reported
<1>2. QED
  BY <1>1, ReportTypes

LEMMA RecordedTyped ==
  ASSUME Typed, at = "back", Recorded
  PROVE  /\ telemetry' \in Telemetries /\ judge_record' \in [posture : BOOLEAN, events : Nat]
         /\ link' \in BOOLEAN
<1> USE DEF Typed, TypeOK, CallType
<1>1. RecordedTelemetry \in Telemetries
  <2>1. CASE Reported
    BY <2>1, ReportedTypes, SMTT(30) DEF RecordedTelemetry, Telemetries
  <2>2. CASE ~ Reported
    BY <2>2 DEF RecordedTelemetry, Telemetries
  <2>3. QED
    BY <2>1, <2>2
<1>2. RecordedEvents \in [posture : BOOLEAN, events : Nat]
  <2>1. CASE Came.is = "turn"
    <3>1. Len(tool_events(R!actions(got.report))) \in Nat
      BY <2>1, CameIs, ReportedTypes
    <3>2. QED
      BY <3>1 DEF RecordedEvents
  <2>2. CASE Came.is # "turn"
    BY <2>2 DEF RecordedEvents
  <2>3. QED
    BY <2>1, <2>2
<1>3. QED
  BY <1>1, <1>2 DEF Recorded, LinkAfter

LEMMA PartyTypes ==
  ASSUME Typed, at = "back"
  PROVE  /\ RecordedParty \in [Parties -> Parts] /\ Downgraded \in [Parties -> Parts]
         /\ AddressTaken(RecordedParty, PartyOf(call.op)) \in [Parties -> Parts]
<1>1. PartyOf(call.op) \in Parties
  BY DEF PartyOf, Parties
<1>2. party \in [Parties -> Parts]
  BY DEF Typed, TypeOK, CallType, Parts
<1>3. Downgraded \in [Parties -> Parts]
  BY <1>1, <1>2 DEF Downgraded, Unavailable, Parts
<1>4. RecordedParty \in [Parties -> Parts]
  <2>1. CASE Reported
    <3>1. R!control_socket(got.report) \in BOOLEAN /\ R!was_redirected(got.report) \in BOOLEAN
      BY <2>1, ReportedTypes DEF Typed, R!Reports, R!control_socket, R!was_redirected
    <3>2. QED
      BY <1>1, <1>2, <3>1 DEF RecordedParty, Parts
  <2>2. CASE ~ Reported
    BY <1>2, <2>2 DEF RecordedParty
  <2>3. QED
    BY <2>1, <2>2
<1>5. AddressTaken(RecordedParty, PartyOf(call.op)) \in [Parties -> Parts]
  BY <1>1, <1>4 DEF AddressTaken, Parts
<1>6. QED
  BY <1>3, <1>4, <1>5

(* A call that is over, and a call between two attempts. *)
LEMMA OverTyped ==
  ASSUME Typed, NEW a, Over(a), shown' \in Seq(Actions)
  PROVE  /\ ProcessType' /\ Staged'
         /\ rung' \in Rungs /\ ask' \in 0 .. SUPERVISOR_REASK_LIMIT
         /\ tried' \in 0 .. EVIDENCE_TOOL_RETRY_LIMIT /\ reask' \in Reask \cup {"none"}
         /\ used' \in Nat /\ total' \in Nat
         /\ answer' = a /\ provider' = provider /\ calls' = calls /\ call' = call
<1> USE DEF Typed, TypeOK
<1>1. spec' \in Specs
  BY DEF Over, NoSpec, Specs
<1>2. child' \in Children
  BY DEF Over, NoChild, Children, ProcessType
<1>3. out' \in Seq(Lines) /\ heard' \in Seq(Actions)
  BY DEF Over
<1>4. at' \in Stages /\ got' \in Gots /\ outcome' = "none" /\ recorded' \in BOOLEAN
  BY FailureTypes DEF Over, Stages, ProcessType
<1>5. ProcessType'
  BY <1>1, <1>2, <1>3, <1>4 DEF ProcessType
<1>6. ask' \in 0 .. SUPERVISOR_REASK_LIMIT
  BY Limits DEF Over
<1>7. tried' \in 0 .. EVIDENCE_TOOL_RETRY_LIMIT
  BY Limits DEF Over
<1>8. rung' \in Rungs /\ used' \in Nat /\ total' \in Nat /\ reask' = "none"
  BY DEF Over, Rungs
<1>9. Staged'
  BY DEF Over, Staged
<1>10. QED
  BY <1>5, <1>6, <1>7, <1>8, <1>9 DEF Over

LEMMA NothingRunTyped ==
  ASSUME Typed, NothingRun, UNCHANGED <<spec, provider>>, shown' \in Seq(Actions),
         at' \in {"idle", "ladder"}, at' # "idle" => call' \in Calls[provider]
  PROVE  ProcessType' /\ Staged'
<1> USE DEF Typed, TypeOK
<1>1. out' \in Seq(Lines) /\ heard' \in Seq(Actions)
  BY DEF NothingRun
<1>2. child' \in Children /\ got' \in Gots /\ outcome' = "none" /\ recorded' \in BOOLEAN
  BY NoChildType, FailureTypes DEF NothingRun
<1>3. ProcessType'
  BY <1>1, <1>2 DEF ProcessType, Stages
<1>4. QED
  BY <1>3 DEF Staged

-----------------------------------------------------------------------------
(* Every step keeps the types. *)

LEMMA BetweenTyped ==
  ASSUME Typed, Begin \/ reset_telemetry \/ TakeRecord
  PROVE  Typed'
<1> USE DEF Typed, TypeOK
<1>1. CASE Begin
  <2>1. PICK c \in Calls[provider] :
          /\ call' = c /\ link' = LinkAtStart(c)
          /\ \/ ~Invalid(c) /\ at' = "ladder" /\ answer' = NoAnswer
             \/ at' = "idle" /\ answer' = Error
    BY <1>1 DEF Begin
  <2>2. shown' \in Seq(Actions)
    BY <1>1 DEF Begin
  <2>3. ProcessType' /\ Staged'
    BY <1>1, <2>1, <2>2, NothingRunTyped DEF Begin
  <2>4. calls' \in 0 .. MAX_CALLS
    BY <1>1, Limits DEF Begin, CallType
  <2>5. link' \in BOOLEAN /\ answer'.is \in Answers \cup {"none"} /\ answer'.usage \in Nat
    <3>1. link' \in BOOLEAN
      BY <2>1 DEF LinkAtStart, CallType
    <3>2. NoAnswer.is = "none" /\ NoAnswer.usage = 0 /\ Error.is = "error" /\ Error.usage = 0
      BY DEF NoAnswer, Error
    <3>3. QED
      BY <2>1, <3>1, <3>2 DEF Answers
  <2>6. telemetry' \in [usage : Nat, tools : Nat]
    BY <1>1 DEF Begin, NothingRecorded
  <2>7. call' \in Calls[provider'] \cup {NoCall}
    BY <1>1, <2>1 DEF Begin
  <2>8. QED
    BY <1>1, <2>3, <2>4, <2>5, <2>6, <2>7 DEF Begin, CallType, loops
<1>2. CASE reset_telemetry
  <2>1. shown' \in Seq(Actions)
    BY <1>2 DEF reset_telemetry
  <2>2. ProcessType' /\ Staged'
    BY <1>2, <2>1, NothingRunTyped DEF reset_telemetry
  <2>3. calls' \in 0 .. MAX_CALLS
    BY <1>2, Limits DEF reset_telemetry
  <2>4. party' \in [Parties -> Parts]
    BY <1>2 DEF reset_telemetry, Silent, Parts
  <2>5. telemetry' \in [usage : Nat, tools : Nat] /\ judge_record' \in [posture : BOOLEAN, events : Nat]
    BY <1>2 DEF reset_telemetry, NothingRecorded, NoRecord
  <2>6. answer'.is \in Answers \cup {"none"} /\ answer'.usage \in Nat
        /\ last' \in [Parties -> Rungs \cup {"none"}]
    BY <1>2 DEF reset_telemetry, NoAnswer
  <2>7. QED
    BY <1>2, <2>2, <2>3, <2>4, <2>5, <2>6 DEF reset_telemetry, CallType, loops, Parts
<1>3. CASE TakeRecord
  <2>1. ProcessType' /\ Staged'
    BY <1>3 DEF TakeRecord, ProcessType, Staged, process
  <2>2. judge_record' \in [posture : BOOLEAN, events : Nat] /\ link' \in BOOLEAN
    <3>1. judge_record \in [posture : BOOLEAN, events : Nat] /\ link \in BOOLEAN
      BY DEF CallType
    <3>2. [judge_record EXCEPT !.events = 0] \in [posture : BOOLEAN, events : Nat]
      BY <3>1
    <3>3. NoRecord \in [posture : BOOLEAN, events : Nat]
      BY DEF NoRecord
    <3>4. QED
      BY <1>3, <3>1, <3>2, <3>3 DEF TakeRecord
  <2>3. QED
    BY <1>3, <2>1, <2>2 DEF TakeRecord, CallType, loops
<1>4. QED
  BY <1>1, <1>2, <1>3

LEMMA LadderTyped ==
  ASSUME Typed, EnterLadder
  PROVE  Typed'
<1> USE DEF Typed, TypeOK
<1>1. FirstRung \in Rungs
  BY CallTypes DEF FirstRung, Rungs
<1>2. call \in Calls[provider] /\ Attempt(FirstRung)
      /\ call' = call /\ provider' = provider /\ shown' = shown
  BY DEF EnterLadder, Staged
<1>3. ProcessType' /\ Staged' /\ rung' \in Rungs
  BY <1>1, <1>2, AttemptTyped
<1>4. party' \in [Parties -> Parts]
  <2>1. party \in [Parties -> Parts]
    BY DEF CallType, Parts
  <2>2. \A p : [party EXCEPT ![p].outcome = "unavailable"] \in [Parties -> Parts]
    BY <2>1 DEF Parts
  <2>3. QED
    BY <2>1, <2>2 DEF EnterLadder, Unavailable
<1>5. QED
  BY <1>3, <1>4 DEF EnterLadder, CallType, loops, Parts

LEMMA LibraryTyped ==
  ASSUME Typed, LibraryEvent \/ LibraryReturns
  PROVE  Typed'
<1> USE DEF Typed, TypeOK
<1>1. CASE LibraryEvent
  <2>1. CallType'
    BY <1>1 DEF LibraryEvent, CallType, loops, kept
  <2>2. PICK line \in Actions \cup {"history"} : Hear(line)
    BY <1>1 DEF LibraryEvent
  <2>3. heard' \in Seq(Actions) /\ shown' \in Seq(Actions)
    BY <2>2 DEF Hear, ProcessType
  <2>4. child' \in Children
    BY <1>1, ChildTypes DEF LibraryEvent, ProcessType
  <2>5. outcome' \in {"none", "aborted", "report", "malformed"}
    BY <1>1 DEF LibraryEvent, ProcessType
  <2>6. QED
    BY <1>1, <2>1, <2>3, <2>4, <2>5 DEF LibraryEvent, ProcessType, Staged, loops, kept
<1>2. CASE LibraryReturns
  <2>1. CallType'
    BY <1>2 DEF LibraryReturns, CallType, loops, kept
  <2>2. got' \in Gots /\ got'.is # "pending"
    <3>1. CASE got' = Got("aborted", NoReport, 0, "nothing")
      BY <3>1, NoReportIsReport DEF Got, Gots, Codes, Other, Words
    <3>2. CASE \E d \in Writable : got' = Got("output", d, 0, "nothing")
      <4>1. PICK d \in Writable : got' = Got("output", d, 0, "nothing")
        BY <3>2
      <4>2. Writable \subseteq R!Reports(Replies)
        BY <1>2, WritableTypes DEF LibraryReturns
      <4>3. d \in R!Reports(Replies)
        BY <4>2
      <4>4. QED
        BY <4>1, <4>3 DEF Got, Gots, Codes, Other, Words
    <3>3. CASE \E words \in Words : got' = Failed(words)
      BY <3>3, FailedTypes
    <3>4. QED
      BY <1>2, <3>1, <3>2, <3>3 DEF LibraryReturns, Words
  <2>3. QED
    BY <1>2, <2>1, <2>2 DEF LibraryReturns, ProcessType, Staged, Stages, process, loops, kept
<1>3. QED
  BY <1>1, <1>2

(* A call that is over has an answer, and one between attempts has counted   *)
(* the attempt.                                                             *)
LEMMA EndedTyped ==
  ASSUME Typed, at = "back", NEW a, Over(a), a.is \in Answers, a.usage \in Nat,
         Recorded, shown' \in Seq(Actions), party' \in [Parties -> Parts],
         last' \in [Parties -> Rungs \cup {"none"}]
  PROVE  Typed'
<1>1. /\ ProcessType' /\ Staged'
      /\ rung' \in Rungs /\ ask' \in 0 .. SUPERVISOR_REASK_LIMIT
      /\ tried' \in 0 .. EVIDENCE_TOOL_RETRY_LIMIT /\ reask' \in Reask \cup {"none"}
      /\ used' \in Nat /\ total' \in Nat
      /\ answer' = a /\ provider' = provider /\ calls' = calls /\ call' = call
  BY OverTyped
<1>2. /\ telemetry' \in Telemetries /\ judge_record' \in [posture : BOOLEAN, events : Nat]
      /\ link' \in BOOLEAN
  BY RecordedTyped
<1>3. CallType'
  BY <1>1, <1>2 DEF CallType, Typed, TypeOK, Telemetries, Parts
<1>4. QED
  BY <1>1, <1>3 DEF Typed, TypeOK

LEMMA AgainTyped ==
  ASSUME Typed, at = "back", NothingRun, at' = "ladder",
         UNCHANGED <<spec, provider, calls, call, rung, answer, shown>>,
         Recorded, party' \in [Parties -> Parts], last' \in [Parties -> Rungs \cup {"none"}],
         ask' \in 0 .. SUPERVISOR_REASK_LIMIT, tried' \in 0 .. EVIDENCE_TOOL_RETRY_LIMIT,
         reask' \in Reask \cup {"none"}, used' \in Nat, total' \in Nat
  PROVE  Typed'
<1>1. ProcessType' /\ Staged'
  BY NothingRunTyped DEF Typed, TypeOK, ProcessType, Staged
<1>2. /\ telemetry' \in Telemetries /\ judge_record' \in [posture : BOOLEAN, events : Nat]
      /\ link' \in BOOLEAN
  BY RecordedTyped
<1>3. CallType'
  BY <1>2 DEF CallType, Typed, TypeOK, Telemetries, Parts
<1>4. QED
  BY <1>1, <1>3 DEF Typed, TypeOK

LEMMA AnsweredTyped ==
  ASSUME Typed, Answered
  PROVE  /\ at = "back" /\ Recorded /\ party' \in [Parties -> Parts]
         /\ last' \in [Parties -> Rungs \cup {"none"}]
         /\ Came.is \in {"turn", "aborted"}
<1>1. at = "back" /\ Recorded /\ Came.is # "error"
  BY DEF Answered
<1>2. party' \in [Parties -> Parts]
  BY <1>1, PartyTypes DEF Answered
<1>3. last' \in [Parties -> Rungs \cup {"none"}]
  BY DEF Answered, Typed, TypeOK, CallType
<1>4. QED
  BY <1>1, <1>2, <1>3, CameIs

(* An answer that is a turn has the usage of its report. *)
LEMMA UsageTyped ==
  ASSUME Typed, at = "back", Came.is = "turn"
  PROVE  Usage \in Nat /\ used + Usage \in Nat /\ total + used + Usage \in Nat
<1>1. Usage \in Nat
  BY CameIs, ReportedTypes DEF Typed, Usage
<1>2. used \in Nat /\ total \in Nat
  BY DEF Typed, TypeOK, CallType
<1>3. QED
  BY <1>1, <1>2

LEMMA FinishedTyped ==
  ASSUME Typed, at = "back", Came.is = "turn", NEW is \in Answers, NEW said, Finished(is, said),
         Recorded, shown' \in Seq(Actions), party' \in [Parties -> Parts],
         last' \in [Parties -> Rungs \cup {"none"}]
  PROVE  Typed'
<1> DEFINE a == [is |-> is, usage |-> total + used + Usage, events |-> <<>>, said |-> said]
<1>1. a.is \in Answers /\ a.usage \in Nat
  BY UsageTyped
<1>2. Over(a)
  BY DEF Finished
<1> HIDE DEF a
<1>3. QED
  BY <1>1, <1>2, EndedTyped

LEMMA FailTyped ==
  ASSUME Typed, Retry \/ Fail
  PROVE  Typed'
<1>1. at = "back" /\ Recorded
  BY DEF Retry, Fail
<1>2. shown' \in Seq(Actions) /\ last' \in [Parties -> Rungs \cup {"none"}]
  BY DEF Retry, Fail, Typed, TypeOK, ProcessType, CallType
<1>3. CASE Retry
  <2>1. NextRung(Came.words) \in Rungs
    BY <1>3 DEF Retry, NextRung, Rungs
  <2>2. ProcessType' /\ Staged' /\ rung' \in Rungs
    BY <1>1, <1>3, <2>1, AttemptTyped DEF Retry, Typed, Staged
  <2>3. party' \in [Parties -> Parts]
    BY <1>3, <1>1, PartyTypes DEF Retry
  <2>4. /\ telemetry' \in Telemetries /\ judge_record' \in [posture : BOOLEAN, events : Nat]
        /\ link' \in BOOLEAN
    BY <1>1, RecordedTyped
  <2>5. CallType'
    BY <1>2, <1>3, <2>2, <2>3, <2>4 DEF Retry, CallType, loops, Typed, TypeOK, Telemetries, Parts
  <2>6. QED
    BY <2>2, <2>5 DEF Typed, TypeOK
<1>4. CASE Fail
  <2>1. PICK a : Over(a) /\ a \in {Error, [Error EXCEPT !.said = "unwritten"]}
    BY <1>4 DEF Fail
  <2>2. a.is \in Answers /\ a.usage \in Nat
    <3>1. Error.is = "error" /\ Error.usage = 0
      BY DEF Error, NoAnswer
    <3>2. /\ [Error EXCEPT !.said = "unwritten"].is = "error"
          /\ [Error EXCEPT !.said = "unwritten"].usage = 0
      BY DEF Error, NoAnswer
    <3>3. a.is = "error" /\ a.usage = 0
      BY <2>1, <3>1, <3>2
    <3>4. QED
      BY <3>3 DEF Answers
  <2>3. party' \in [Parties -> Parts]
    BY <1>4, <1>1, PartyTypes DEF Fail
  <2>4. QED
    BY <1>1, <1>2, <2>1, <2>2, <2>3, EndedTyped
<1>5. QED
  BY <1>3, <1>4

LEMMA ErrorTyped ==
  ASSUME Typed, Answered, Over(Error), shown' = shown
  PROVE  Typed'
<1>1. Error.is \in Answers /\ Error.usage \in Nat
  BY DEF Error, NoAnswer, Answers
<1>2. shown' \in Seq(Actions)
  BY DEF Typed, TypeOK, ProcessType
<1>3. QED
  BY <1>1, <1>2, AnsweredTyped, EndedTyped

LEMMA WorkedTyped ==
  ASSUME Typed, Worked
  PROVE  Typed'
<1>1. /\ at = "back" /\ Recorded /\ party' \in [Parties -> Parts]
      /\ last' \in [Parties -> Rungs \cup {"none"}] /\ Came.is \in {"turn", "aborted"}
  BY AnsweredTyped DEF Worked
<1>2. shown \in Seq(Actions)
  BY DEF Typed, TypeOK, ProcessType
<1>3. CASE Came.is = "aborted"
  <2> DEFINE a == [NoAnswer EXCEPT !.is = "aborted", !.events = tool_events(heard)]
  <2>1. a.is \in Answers /\ a.usage \in Nat
    BY DEF NoAnswer, Answers
  <2>2. Over(a) /\ shown' = shown
    BY <1>3 DEF Worked
  <2> HIDE DEF a
  <2>3. QED
    BY <1>1, <1>2, <2>1, <2>2, EndedTyped
<1>4. CASE Came.is # "aborted"
  <2>1. Came.is = "turn"
    BY <1>1, <1>4
  <2>2. assistant_turn.is \in Answers /\ assistant_turn.usage \in Nat
    BY <1>1, <2>1, UsageTyped DEF assistant_turn, Answers
  <2>3. shown' \in Seq(Actions)
    <3>1. R!actions(got.report) \in Seq(Actions)
      BY <1>1, <2>1, CameIs, ReportedTypes DEF Typed
    <3>2. \A n \in 0 .. Len(R!actions(got.report)) :
            SubSeq(R!actions(got.report), 1, n) \in Seq(Actions)
      BY <3>1
    <3>3. shown' = shown \/ shown' \in Replayed(R!actions(got.report))
      BY <1>4 DEF Worked
    <3>4. ASSUME shown' \in Replayed(R!actions(got.report)) PROVE shown' \in Seq(Actions)
      BY <3>1, <3>2, <3>4 DEF Replayed
    <3>5. QED
      BY <1>2, <3>3, <3>4
  <2>4. Over(assistant_turn)
    BY <1>4 DEF Worked
  <2>5. QED
    BY <1>1, <2>2, <2>3, <2>4, EndedTyped
<1>5. QED
  BY <1>3, <1>4

(* A judge's answer is of a turn: only a worker's call is abandoned. *)
LEMMA JudgedIsTurn ==
  ASSUME Typed, Answered, call.op # "respond"
  PROVE  Came.is = "turn"
  BY AnsweredTyped, CameIs

LEMMA JudgeTyped ==
  ASSUME Typed, Look \/ Supervised \/ Scored
  PROVE  Typed'
<1>1. Answered /\ call.op # "respond" /\ shown' = shown
  BY DEF Look, Supervised, Scored
<1>2. /\ at = "back" /\ Recorded /\ party' \in [Parties -> Parts]
      /\ last' \in [Parties -> Rungs \cup {"none"}] /\ Came.is = "turn"
  BY <1>1, AnsweredTyped, JudgedIsTurn
<1>3. /\ ask \in 0 .. SUPERVISOR_REASK_LIMIT /\ tried \in 0 .. EVIDENCE_TOOL_RETRY_LIMIT
      /\ reask \in Reask \cup {"none"} /\ used \in Nat /\ total \in Nat /\ shown' \in Seq(Actions)
  BY <1>1 DEF Typed, TypeOK, CallType, ProcessType
<1>4. ASSUME NEW is \in Answers, NEW said, Finished(is, said) PROVE Typed'
  BY <1>2, <1>3, <1>4, FinishedTyped
<1>5. CASE Look
  <2>1. CASE tried = EVIDENCE_TOOL_RETRY_LIMIT
    BY <1>1, <1>5, <2>1, ErrorTyped DEF Look
  <2>2. CASE tried # EVIDENCE_TOOL_RETRY_LIMIT
    <3>1. /\ tried' = tried + 1 /\ used' = used + Usage /\ at' = "ladder" /\ NothingRun
          /\ UNCHANGED <<spec, provider, calls, call, rung, ask, reask, total, answer>>
      BY <1>5, <2>2 DEF Look
    <3>2. tried' \in 0 .. EVIDENCE_TOOL_RETRY_LIMIT
      BY <1>3, <2>2, <3>1, Limits
    <3>3. used' \in Nat
      BY <1>2, <3>1, UsageTyped
    <3>4. QED
      BY <1>1, <1>2, <1>3, <3>1, <3>2, <3>3, AgainTyped
  <2>3. QED
    BY <2>1, <2>2
<1>6. CASE Supervised
  <2>1. CASE Over(Error)
    BY <1>1, <2>1, ErrorTyped
  <2>2. CASE /\ ask' = ask + 1 /\ reask' = Decision /\ AsksAgain
             /\ total' = total + used + Usage /\ used' = 0 /\ tried' = 0
             /\ at' = "ladder" /\ NothingRun
             /\ UNCHANGED <<spec, provider, calls, call, rung, answer>>
    <3>1. ask' \in 0 .. SUPERVISOR_REASK_LIMIT
      BY <1>3, <2>2, Limits DEF AsksAgain
    <3>2. tried' \in 0 .. EVIDENCE_TOOL_RETRY_LIMIT
      BY <2>2, Limits
    <3>3. used' \in Nat /\ total' \in Nat
      BY <1>2, <2>2, UsageTyped
    <3>4. reask' \in Reask \cup {"none"}
      BY <2>2 DEF AsksAgain
    <3>5. QED
      BY <1>1, <1>2, <2>2, <3>1, <3>2, <3>3, <3>4, AgainTyped
  <2>3. CASE Finished("decision", Decision)
    BY <1>4, <2>3 DEF Answers
  <2>4. QED
    BY <1>6, <2>1, <2>2, <2>3 DEF Supervised
<1>7. CASE Scored
  <2>1. \/ Over(Error)
        \/ \E is \in Answers : \E said : Finished(is, said)
    BY <1>7 DEF Scored, Answers
  <2>2. QED
    BY <1>1, <1>4, <2>1, ErrorTyped
<1>8. QED
  BY <1>5, <1>6, <1>7

LEMMA NextTyped ==
  ASSUME Typed, [Next]_vars
  PROVE  Typed'
<1>1. CASE ProcessStep /\ UNCHANGED callVars
  BY <1>1, ProcessStepTyped, CallTypeKept DEF Typed, TypeOK
<1>2. CASE ChildStep /\ UNCHANGED callVars
  BY <1>2, ChildStepTyped, CallTypeKept DEF Typed, TypeOK
<1>3. CASE UNCHANGED vars
  BY <1>3 DEF vars, process, loops, kept, Typed, TypeOK, ProcessType, CallType, Staged
<1>4. QED
  BY <1>1, <1>2, <1>3, BetweenTyped, LadderTyped, LibraryTyped, FailTyped, WorkedTyped, JudgeTyped
     DEF Next, ParentStep

LEMMA AlwaysTyped == Spec => []Typed
  BY InitTyped, NextTyped, PTL DEF Spec

(* Type correctness. *)
THEOREM HarnessTypeCorrect == Spec => []TypeOK
<1>1. Typed => TypeOK
  BY DEF Typed
<1>2. QED
  BY <1>1, AlwaysTyped, PTL

-----------------------------------------------------------------------------
(* Where the process of an attempt is, by where the parent is in the         *)
(* attempt: not made yet, made and not on the record, on the record and not  *)
(* waited for, waited for. Only a request that could not be written ends an  *)
(* attempt in between.                                                       *)

Unmade   == child.at = "none" /\ ~ recorded
Followed == child.at # "none" /\ recorded
DealtWith == Unmade \/ (child.at = "reaped" /\ recorded)

ProcessInv ==
  /\ at \in {"ladder", "attempt", "running"} => Unmade
  /\ at = "grouping" => child.at # "none" /\ ~ recorded
  /\ at \in {"writing", "collecting", "reading", "eof", "grace1", "grace2", "waiting"} => Followed
  /\ at = "joining" => child.at = "reaped" /\ recorded
  /\ at = "back" => DealtWith \/ (got.is = "unwritten" /\ Followed)
  /\ at = "idle" => DealtWith \/ (answer.said = "unwritten" /\ Followed)

LEMMA ProcessInvKept ==
  ASSUME Typed, ProcessInv, [Next]_vars
  PROVE  ProcessInv'
<1> USE DEF Unmade, Followed, DealtWith
<1>0. child \in Children /\ at \in Stages
  BY DEF Typed, TypeOK, ProcessType
<1>1. CASE Begin \/ reset_telemetry
  BY <1>1 DEF Begin, reset_telemetry, NothingRun, NoChild, ProcessInv
<1>2. CASE TakeRecord
  BY <1>2 DEF TakeRecord, process, ProcessInv
<1>3. CASE EnterLadder \/ Retry
  <2>1. \E r : Attempt(r)
    BY <1>3 DEF EnterLadder, Retry
  <2>2. at' \in {"running", "attempt"} /\ child'.at = "none" /\ recorded' = FALSE
    BY <2>1 DEF Attempt, NothingRun, NoChild
  <2>3. QED
    BY <2>2 DEF ProcessInv
<1>4. CASE LibraryEvent
  BY <1>0, <1>4 DEF LibraryEvent, Children, ProcessInv
<1>5. CASE LibraryReturns
  BY <1>5 DEF LibraryReturns, process, ProcessInv
<1>6. CASE ProcessStep /\ UNCHANGED callVars
  <2>1. UNCHANGED answer
    BY <1>6 DEF callVars
  <2>2. CASE Create
    BY <2>2 DEF Create, NoChild, ProcessInv
  <2>3. CASE Group
    BY <2>3 DEF Group, AfterSpawn, NoChild, ProcessInv
  <2>4. CASE WriteRequest
    BY <2>4 DEF WriteRequest, process, ProcessInv
  <2>5. CASE WriteFails
    BY <2>5 DEF WriteFails, Got, process, ProcessInv
  <2>6. CASE Collect
    BY <1>0, <2>6 DEF Collect, Children, ProcessInv
  <2>7. CASE ReadEvent
    BY <2>7 DEF ReadEvent, Conclude, ProcessInv
  <2>8. CASE ReadResult \/ ReadMalformed
    BY <2>8 DEF ReadResult, ReadMalformed, Conclude, ProcessInv
  <2>9. CASE ReadToEnd \/ Exited \/ request_stop
    BY <2>9 DEF ReadToEnd, Exited, request_stop, process, ProcessInv
  <2>10. CASE Kill
    BY <1>0, <2>10 DEF Kill, Children, ProcessInv
  <2>11. CASE Wait
    BY <1>0, <2>11 DEF Wait, Children, ProcessInv
  <2>12. CASE JoinStderr
    BY <2>12 DEF JoinStderr, process, ProcessInv
  <2>13. QED
    BY <1>6, <2>2, <2>3, <2>4, <2>5, <2>6, <2>7, <2>8, <2>9, <2>10, <2>11, <2>12 DEF ProcessStep
<1>7. CASE ChildStep /\ UNCHANGED callVars
  <2>1. UNCHANGED answer
    BY <1>7 DEF callVars
  <2>2. CASE HeirLeaves
    BY <1>0, <2>1, <2>2 DEF HeirLeaves, Child, Children, ProcessInv
  <2>3. CASE ~ HeirLeaves
    <3>1. /\ child.at \in Alive /\ at \notin {"idle", "back"}
          /\ UNCHANGED <<at, recorded, got>> /\ child'.at \in Alive \cup {"gone"}
      BY <1>0, <1>7, <2>3 DEF ChildStep, ChildReads, ChildSticks, ChildGoesOn, ChildWrites,
                              ChildCloses, ChildExits, Child, Running, Children, Alive, Blocked
    <3>2. child.at \notin {"none", "reaped"} /\ child'.at \notin {"none", "reaped"}
      BY <3>1 DEF Alive, Blocked
    <3>3. QED
      BY <1>0, <2>1, <3>1, <3>2 DEF Stages, ProcessInv
  <2>4. QED
    BY <2>2, <2>3
<1>8. CASE Fail
  <2>1. at = "back" /\ at' = "idle" /\ child'.at = child.at /\ recorded' = recorded
    BY <1>8 DEF Fail, Over, NoChild
  <2>2. got.is = "unwritten" => answer'.said = "unwritten"
    BY <1>8 DEF Fail, Over, Error, NoAnswer
  <2>3. QED
    BY <2>1, <2>2 DEF ProcessInv
<1>9. CASE Worked \/ Look \/ Supervised \/ Scored
  <2>1. at = "back" /\ got.is # "unwritten"
    <3>1. Answered
      BY <1>9 DEF Worked, Look, Supervised, Scored
    <3>2. at = "back" /\ Came.is \in {"turn", "aborted"}
      BY <3>1, AnsweredTyped
    <3>3. QED
      BY <3>2, CameIs DEF Reported
  <2>2. \/ at' = "ladder" /\ NothingRun
        \/ at' = "idle" /\ child'.at = child.at /\ recorded' = recorded
    BY <1>9 DEF Worked, Look, Supervised, Scored, Finished, Over, NoChild
  <2>3. QED
    BY <2>1, <2>2 DEF NothingRun, NoChild, ProcessInv
<1>10. CASE UNCHANGED vars
  BY <1>10 DEF vars, process, ProcessInv
<1>11. QED
  BY <1>1, <1>2, <1>3, <1>4, <1>5, <1>6, <1>7, <1>8, <1>9, <1>10 DEF Next, ParentStep

(* A call that is over has left no process of its own behind, but the one   *)
(* whose request could not be written; and a process that is there past the *)
(* spawn hook is on the record.                                             *)
THEOREM NoChildIsLeftBehind == Spec => []NoChildLeftBehind
<1>1. Init => ProcessInv
  BY DEF Init, NoChild, ProcessInv, Unmade, DealtWith, Followed
<1>2. Typed /\ ProcessInv /\ [Next]_vars => ProcessInv'
  BY ProcessInvKept
<1>3. Typed /\ ProcessInv => NoChildLeftBehind
  BY DEF ProcessInv, Unmade, Followed, DealtWith, NoChildLeftBehind, Typed, TypeOK, ProcessType,
         Stages
<1>4. QED
  BY <1>1, <1>2, <1>3, AlwaysTyped, PTL DEF Spec

-----------------------------------------------------------------------------
(* What the run of an attempt says of its party's address: a rung below the  *)
(* controlled one is reached, by a call that wanted control, only once its   *)
(* party has been told there is no address.                                  *)

AddressInv ==
  /\ \A p \in Parties :
       /\ party[p].outcome = "open" => last[p] = "controlled"
       /\ last[p] \in {"session", "plain"} => party[p].outcome = "unavailable"
  /\ at \notin {"idle", "ladder"} =>
       /\ rung = "controlled" => Controllable(call)
       /\ rung # "controlled" /\ Controllable(call) =>
            party[PartyOf(call.op)].outcome = "unavailable"

LEMMA PartyIsParty ==
  ASSUME Typed
  PROVE  PartyOf(call.op) \in Parties /\ party \in [Parties -> Parts]
         /\ last \in [Parties -> Rungs \cup {"none"}]
  BY DEF Typed, TypeOK, CallType, PartyOf, Parties, Parts

(* What a report says of control is not how its turn was run. *)
LEMMA RecordedOutcome ==
  ASSUME Typed, at = "back"
  PROVE  /\ RecordedParty \in [Parties -> Parts]
         /\ \A p \in Parties : RecordedParty[p].outcome = party[p].outcome
<1>1. RecordedParty \in [Parties -> Parts]
  BY PartyTypes
<1>2. PartyOf(call.op) \in Parties /\ party \in [Parties -> Parts]
  BY PartyIsParty
<1>3. ASSUME NEW p \in Parties PROVE RecordedParty[p].outcome = party[p].outcome
  BY <1>2 DEF RecordedParty, Parts
<1>4. QED
  BY <1>1, <1>3

LEMMA AddressInvKept ==
  ASSUME Typed, AddressInv, [Next]_vars
  PROVE  AddressInv'
<1>1. CASE Begin
  BY <1>1 DEF Begin, AddressInv
<1>2. CASE reset_telemetry
  BY <1>2 DEF reset_telemetry, Silent, AddressInv
<1>3. CASE TakeRecord
  BY <1>3 DEF TakeRecord, AddressInv
<1>4. CASE EnterLadder
  <2>1. rung' = FirstRung /\ call' = call /\ provider' = provider /\ last' = last
        /\ party' = IF Controllable(call) /\ control_platform_reason
                    THEN Unavailable(PartyOf(call.op)) ELSE party
    BY <1>4 DEF EnterLadder, Attempt
  <2>2. rung' = "controlled" => Addressable(call)
    BY <2>1, CallTypes DEF FirstRung, Typed
  <2>3. rung' # "controlled" => ~ Addressable(call)
    BY <2>1, CallTypes DEF FirstRung, Typed, Addressable, Controllable
  <2>4. QED
    BY <2>1, <2>2, <2>3, PartyIsParty DEF Addressable, Unavailable, Controllable, AddressInv, Parts
<1>5. CASE Retry
  <2>1. /\ at = "back" /\ rung' = NextRung(Came.words) /\ rung' # "none"
        /\ call' = call /\ provider' = provider /\ last' = last /\ party' = Downgraded
    BY <1>5 DEF Retry, Attempt
  <2>2. rung' # "controlled"
    BY <2>1 DEF NextRung
  <2>3. QED
    BY <2>1, <2>2, PartyIsParty DEF Downgraded, Unavailable, Controllable, AddressInv, Parts
<1>6. CASE LibraryEvent \/ LibraryReturns
  BY <1>6 DEF LibraryEvent, LibraryReturns, kept, AddressInv, Controllable
<1>7. CASE (ProcessStep \/ ChildStep) /\ UNCHANGED callVars
  <2>1. UNCHANGED <<provider, call, rung, party, last>>
    BY <1>7 DEF callVars, kept
  <2>2. at \in {"idle", "ladder"} => at' = at
    BY <1>7 DEF ProcessStep, Create, Group, WriteRequest, WriteFails, Collect, ReadEvent,
         ReadResult, ReadMalformed, ReadToEnd, Exited, request_stop, Kill, Wait, JoinStderr,
         ChildStep, ChildReads, ChildSticks, ChildGoesOn, ChildWrites, ChildCloses, ChildExits, HeirLeaves, Child
  <2>3. QED
    BY <2>1, <2>2 DEF AddressInv, Controllable
<1>8. CASE Fail
  BY <1>8, RecordedOutcome DEF Fail, Over, AddressInv
<1>9. CASE Worked \/ Look \/ Supervised \/ Scored
  <2>1. Answered /\ at' \in {"idle", "ladder"}
    BY <1>9 DEF Worked, Look, Supervised, Scored, Finished, Over
  <2>2. at = "back" /\ rung \in Rungs
    BY <2>1 DEF Answered, Typed, TypeOK, CallType
  <2>3. CASE rung = "controlled"
    BY <2>1, <2>2, <2>3, PartyIsParty, RecordedOutcome
       DEF Answered, AddressTaken, AddressInv
  <2>4. CASE rung # "controlled"
    BY <2>1, <2>2, <2>4, PartyIsParty, RecordedOutcome DEF Answered, AddressInv, Rungs
  <2>5. QED
    BY <2>3, <2>4
<1>10. CASE UNCHANGED vars
  BY <1>10 DEF vars, kept, AddressInv, Controllable
<1>11. QED
  BY <1>1, <1>2, <1>3, <1>4, <1>5, <1>6, <1>7, <1>8, <1>9, <1>10 DEF Next, ParentStep

(* An address is only that of the last turn its party answered, and a turn   *)
(* that ran without control took it away.                                    *)
THEOREM OpenAddressIsOfLastTurn == Spec => []OpenAddressIsFresh
<1>1. Init => AddressInv
  BY DEF Init, Silent, AddressInv
<1>2. Typed /\ AddressInv /\ [Next]_vars => AddressInv'
  BY AddressInvKept
<1>3. AddressInv => OpenAddressIsFresh
  BY DEF AddressInv, OpenAddressIsFresh
<1>4. QED
  BY <1>1, <1>2, <1>3, AlwaysTyped, PTL DEF Spec

-----------------------------------------------------------------------------
(* What has been counted of a call so far: on the telemetry what its asks    *)
(* spent, in a decision's record the tools on the telemetry at least, and no *)
(* link that is not of it. Words are only read in a child that wrote no      *)
(* report, and what it wrote is a document of what it was asked.             *)

AccountInv ==
  /\ at = "idle" => total = 0 /\ used = 0
  /\ at # "idle" =>
       /\ call.op = "respond" => total = 0 /\ used = 0
       /\ provider.by = "oneharness" => telemetry.usage = total + used
       /\ call.op = "supervisor" /\ Evaluates(call) /\ AsksEvents =>
            judge_record.events >= telemetry.tools
       /\ provider.by = "llmlint" => ~ link
  /\ at = "back" /\ got.report # NoReport =>
       /\ got.words = "nothing"
       /\ got.report \in Documents[<<provider.by, call.op>>]

(* An attempt that is tried again recorded nothing. *)
LEMMA RetriedUnreported ==
  ASSUME Typed, AccountInv, Retry
  PROVE  /\ ~ Reported /\ provider.by = "oneharness"
         /\ telemetry' = telemetry /\ judge_record' = judge_record
<1>1. at = "back" /\ Came.is = "error" /\ NextRung(Came.words) # "none" /\ Recorded
  BY DEF Retry
<1>2. Came.words # "nothing"
  BY <1>1 DEF NextRung
<1>3. got.words # "nothing"
  BY <1>1, <1>2, CameIs
<1>4. got.report = NoReport
  BY <1>1, <1>3 DEF AccountInv
<1>5. ~ Reported
  BY <1>4 DEF Reported
<1>6. provider.by = "oneharness"
  BY <1>2, <1>5, ProviderTypes DEF Came, OfCommand, OfLlmlint, Wrong, Typed, Programs
<1>7. QED
  BY <1>1, <1>5, <1>6 DEF Recorded, RecordedTelemetry, RecordedEvents

(* What a finished attempt wrote. *)
LEMMA WroteReport ==
  ASSUME Typed, at \notin {"idle", "ladder"}, NEW g \in Output
  PROVE  g.report # NoReport => /\ g.words = "nothing"
                                /\ g.report \in Documents[<<provider.by, call.op>>]
<1>1. CASE \E d \in Writable, code \in Codes : g = Got("output", d, code, "nothing")
  <2>1. PICK d \in Writable : \E code \in Codes : g = Got("output", d, code, "nothing")
    BY <1>1
  <2>2. g.report = d /\ g.words = "nothing"
    BY <2>1 DEF Got
  <2>3. Writable \subseteq {NoReport} \cup Documents[<<provider.by, call.op>>]
    BY WritableTypes
  <2>4. QED
    BY <2>2, <2>3
<1>2. CASE \E words \in Words : g = Got("output", NoReport, Other, words)
  BY <1>2 DEF Got
<1>3. QED
  BY <1>1, <1>2 DEF Output, Refusals, Words, Codes, Other

(* Recording a turn counts its report once. *)
LEMMA RecordedCounts ==
  ASSUME Typed, AccountInv, at = "back", Came.is = "turn", Recorded
  PROVE  /\ provider.by = "oneharness" => telemetry'.usage = total + used + Usage
         /\ call.op = "supervisor" /\ Evaluates(call) /\ AsksEvents
              => judge_record'.events >= telemetry'.tools
<1>1. /\ Reported /\ R!usage(got.report) \in Nat
      /\ Len(tool_events(R!actions(got.report))) \in Nat
  BY CameIs, ReportedTypes DEF Typed
<1>2. /\ telemetry \in Telemetries /\ total \in Nat /\ used \in Nat
      /\ judge_record \in [posture : BOOLEAN, events : Nat]
  BY DEF Typed, TypeOK, CallType, Telemetries
<1>3. ASSUME provider.by = "oneharness" PROVE telemetry'.usage = total + used + Usage
  BY <1>1, <1>2, <1>3 DEF Recorded, RecordedTelemetry, Usage, AccountInv
<1>4. ASSUME call.op = "supervisor", Evaluates(call), AsksEvents
      PROVE  judge_record'.events >= telemetry'.tools
  <2> DEFINE n == Len(tool_events(R!actions(got.report)))
  <2>1. provider.by = "oneharness"
    BY <1>4 DEF Evaluates
  <2>2. judge_record'.events = judge_record.events + n
    BY <1>4 DEF Recorded, RecordedEvents
  <2>3. telemetry'.tools = telemetry.tools + n
    BY <1>1, <2>1 DEF Recorded, RecordedTelemetry
  <2>4. judge_record.events >= telemetry.tools
    BY <1>4 DEF AccountInv
  <2>5. n \in Nat /\ telemetry.tools \in Nat /\ judge_record.events \in Nat
    BY <1>1, <1>2 DEF Telemetries
  <2> HIDE DEF n
  <2>6. QED
    BY <2>2, <2>3, <2>4, <2>5
<1>5. QED
  BY <1>3, <1>4

LEMMA AccountInvKept ==
  ASSUME Typed, AccountInv, [Next]_vars
  PROVE  AccountInv'
<1>1. CASE Begin
  <2>1. PICK c \in Calls[provider] :
          /\ call' = c /\ link' = LinkAtStart(c)
          /\ \/ ~Invalid(c) /\ at' = "ladder"
             \/ at' = "idle"
    BY <1>1 DEF Begin
  <2>2. total' = 0 /\ used' = 0 /\ at = "idle" /\ provider' = provider
    BY <1>1 DEF Begin, loops, AccountInv
  <2>3. telemetry'.usage = 0 /\ telemetry'.tools = 0 /\ judge_record'.events \in Nat
    BY <1>1 DEF Begin, NothingRecorded, Typed, TypeOK, CallType
  <2>4. at' = "ladder" /\ provider.by = "llmlint" => ~ link'
    BY <2>1 DEF LinkAtStart
  <2>5. QED
    BY <2>1, <2>2, <2>3, <2>4 DEF AccountInv
<1>2. CASE reset_telemetry \/ TakeRecord
  BY <1>2 DEF reset_telemetry, TakeRecord, loops, AccountInv
<1>3. CASE EnterLadder
  <2>1. at = "ladder" /\ at' \in {"running", "attempt"}
        /\ UNCHANGED <<provider, call, total, used, judge_record, link, telemetry>>
    BY <1>3 DEF EnterLadder, Attempt, loops
  <2>2. QED
    BY <2>1 DEF AccountInv, Evaluates, AsksEvents
<1>4. CASE LibraryEvent
  BY <1>4 DEF LibraryEvent, loops, kept, AccountInv, Evaluates, AsksEvents
<1>5. CASE LibraryReturns
  <2>1. at = "running" /\ at' = "back"
        /\ UNCHANGED <<provider, call, total, used, judge_record, link, telemetry>>
    BY <1>5 DEF LibraryReturns, loops, kept
  <2>2. got'.report # NoReport => /\ got'.words = "nothing"
                                  /\ got'.report \in Documents[<<provider.by, call.op>>]
    <3>1. CASE \E d \in Writable : got' = Got("output", d, 0, "nothing")
      <4>1. PICK d \in Writable : got' = Got("output", d, 0, "nothing")
        BY <3>1
      <4>2. Writable \subseteq {NoReport} \cup Documents[<<provider.by, call.op>>]
        BY <2>1, WritableTypes
      <4>3. QED
        BY <4>1, <4>2 DEF Got
    <3>2. CASE got' = Got("aborted", NoReport, 0, "nothing") \/ \E words \in Words : got' = Failed(words)
      BY <3>2 DEF Got, Failed
    <3>3. QED
      BY <1>5, <3>1, <3>2 DEF LibraryReturns, Words
  <2>3. QED
    BY <2>1, <2>2 DEF AccountInv, Evaluates, AsksEvents
<1>6. CASE ProcessStep /\ UNCHANGED callVars
  <2>1. UNCHANGED <<provider, call, total, used, judge_record, link, telemetry>>
    BY <1>6 DEF callVars, kept, loops
  <2>2. at \notin {"idle", "ladder", "back"} /\ at' # "idle"
    BY <1>6 DEF ProcessStep, Create, Group, AfterSpawn, WriteRequest, WriteFails, Collect, ReadEvent,
         ReadResult, ReadMalformed, ReadToEnd, Exited, request_stop, Kill, Wait, JoinStderr, Conclude
  <2>3. at' = "back" /\ got'.report # NoReport =>
          got'.words = "nothing" /\ got'.report \in Documents[<<provider.by, call.op>>]
    <3>1. CASE Create \/ Group \/ WriteFails
      BY <3>1 DEF Create, Group, AfterSpawn, WriteFails, Refused, Failed, Got
    <3>2. CASE Collect
      BY <2>2, <3>2, WroteReport DEF Collect
    <3>3. CASE JoinStderr
      <4>1. at = "joining" /\ got' \in Streamed
        BY <3>3 DEF JoinStderr
      <4>2. outcome \in {"aborted", "report", "malformed"}
        BY <4>1 DEF Typed, TypeOK, ProcessType, Staged
      <4>3. CASE outcome = "report"
        BY <2>2, <4>1, <4>3, WroteReport DEF Streamed
      <4>4. CASE outcome \in {"aborted", "malformed"}
        BY <4>1, <4>4 DEF Streamed, Got, Failed
      <4>5. QED
        BY <4>2, <4>3, <4>4
    <3>4. CASE ~ (Create \/ Group \/ WriteFails \/ Collect \/ JoinStderr)
      BY <1>6, <3>4 DEF ProcessStep, WriteRequest, ReadEvent, ReadResult, ReadMalformed, ReadToEnd,
           Exited, request_stop, Kill, Wait, Conclude
    <3>5. QED
      BY <3>1, <3>2, <3>3, <3>4
  <2>4. QED
    BY <2>1, <2>2, <2>3 DEF AccountInv, Evaluates, AsksEvents
<1>7. CASE ChildStep /\ UNCHANGED callVars
  <2>1. UNCHANGED <<provider, call, total, used, judge_record, link, telemetry, at, got>>
    BY <1>7 DEF callVars, kept, loops, ChildStep, ChildReads, ChildSticks, ChildGoesOn, ChildWrites,
                ChildCloses, ChildExits, HeirLeaves, Child
  <2>2. QED
    BY <2>1 DEF AccountInv, Evaluates, AsksEvents
<1>8. CASE Retry
  <2>1. /\ at = "back" /\ at' \in {"running", "attempt"}
        /\ UNCHANGED <<provider, call, total, used>>
    BY <1>8 DEF Retry, Attempt, loops
  <2>2. /\ provider.by = "oneharness" /\ telemetry' = telemetry /\ judge_record' = judge_record
    BY <1>8, RetriedUnreported
  <2>3. QED
    BY <2>1, <2>2 DEF AccountInv, Evaluates, AsksEvents
<1>9. CASE Fail \/ Worked \/ Look \/ Supervised \/ Scored
  <2>1. CASE at' = "idle" /\ total' = 0 /\ used' = 0
    BY <2>1 DEF AccountInv
  <2>2. CASE /\ Answered /\ call.op # "respond" /\ at' = "ladder" /\ provider.by # "llmlint"
             /\ UNCHANGED <<provider, call>>
             /\ \/ used' = used + Usage /\ total' = total
                \/ total' = total + used + Usage /\ used' = 0
    <3>1. at = "back" /\ Recorded /\ Came.is = "turn"
      BY <2>2, AnsweredTyped, JudgedIsTurn
    <3>2. Usage \in Nat /\ used \in Nat /\ total \in Nat
      BY <3>1, UsageTyped DEF Typed, TypeOK, CallType
    <3>3. total' + used' = total + used + Usage
      BY <2>2, <3>2
    <3>4. QED
      BY <2>2, <3>1, <3>3, RecordedCounts DEF AccountInv, Evaluates, AsksEvents
  <2>3. CASE Look /\ at' # "idle"
    <3>1. provider.by = "oneharness"
      BY <2>3 DEF Look, Evidence
    <3>2. QED
      BY <2>2, <2>3, <3>1 DEF Look, Over
  <2>4. CASE Supervised /\ at' # "idle"
    <3>1. AsksAgain
      BY <2>4 DEF Supervised, Over, Finished
    <3>2. provider.by # "llmlint"
      BY <3>1 DEF AsksAgain, Decision, Reask
    <3>3. QED
      BY <2>2, <2>4, <3>2 DEF Supervised, Over, Finished
  <2>5. QED
    BY <1>9, <2>1, <2>3, <2>4 DEF Fail, Worked, Look, Supervised, Scored, Finished, Over
<1>10. CASE UNCHANGED vars
  BY <1>10 DEF vars, loops, kept, AccountInv, Evaluates, AsksEvents
<1>11. QED
  BY <1>1, <1>2, <1>3, <1>4, <1>5, <1>6, <1>7, <1>8, <1>9, <1>10 DEF Next, ParentStep

(* What a turn is read from ran. *)
LEMMA TurnRan ==
  ASSUME Typed, AccountInv, at = "back", Came.is = "turn"
  PROVE  R!result(got.report).status \in {"ok", "nonzero"}
<1>1. Reported /\ got.report \in R!Reports(Replies) /\ R!readable(got.report)
  BY CameIs, ReportedTypes DEF Typed
<1>2. CASE provider.by = "oneharness"
  BY <1>1, <1>2, CameIs, ReadReport
<1>3. CASE provider.by # "oneharness"
  <2> DEFINE asked == <<provider.by, call.op>>
             d == got.report
  <2>1. d \in Documents[asked] /\ asked \in DOMAIN Documents /\ asked[1] # "oneharness"
    BY <1>1, <1>3, WritableTypes DEF AccountInv, Reported
  <2> HIDE DEF asked
  <2>2. Len(d.results) = 1 /\ d.results[1].status = "ok" /\ d.fallback = R!NoFallback
    BY <2>1, DocumentsAssumption
  <2>3. d.results # <<>> /\ ~ d.fallback.chain
    BY <2>2 DEF R!NoFallback
  <2>4. R!ran(d) = 1
    BY <2>3 DEF R!ran, R!select
  <2>5. QED
    BY <2>2, <2>4 DEF R!result
<1>4. QED
  BY <1>2, <1>3

LEMMA AnswersAccount ==
  ASSUME Typed, AccountInv, [Next]_vars
  PROVE  AnswerAccounts
<1> SUFFICES ASSUME at = "back", at' = "idle" PROVE AnswerAccounts
  BY DEF AnswerAccounts
<1>1. /\ Recorded
      /\ \/ Fail \/ Worked \/ Look \/ Supervised \/ Scored
  <2>1. ~ (Begin \/ reset_telemetry \/ TakeRecord \/ EnterLadder \/ LibraryEvent
           \/ LibraryReturns \/ Retry \/ UNCHANGED vars)
    BY DEF Begin, reset_telemetry, TakeRecord, EnterLadder, LibraryEvent, LibraryReturns, Retry,
           Attempt, vars
  <2>2. ~ ProcessStep
    BY DEF ProcessStep, Create, Group, WriteRequest, WriteFails, Collect, ReadEvent, ReadResult,
           ReadMalformed, ReadToEnd, Exited, request_stop, Kill, Wait, JoinStderr
  <2>3. ~ ChildStep
    BY DEF ChildStep, ChildReads, ChildSticks, ChildGoesOn, ChildWrites, ChildCloses, ChildExits, HeirLeaves, Child
  <2>4. QED
    BY <2>1, <2>2, <2>3 DEF Next, ParentStep, Fail, Worked, Look, Supervised, Scored, Answered
<1>2. provider.by = "llmlint" => (link' <=> got.is = "output")
  BY <1>1 DEF Recorded, LinkAfter, AccountInv
<1>3. CASE answer'.is = "error"
  BY <1>2, <1>3 DEF AnswerAccounts
<1>4. ASSUME Came.is = "turn",
             answer'.is = "decision" => call.op = "supervisor",
             provider.by = "oneharness" => answer'.usage = total + used + Usage
      PROVE  AnswerAccounts
  BY <1>1, <1>2, <1>4, RecordedCounts, TurnRan DEF AnswerAccounts
<1>5. CASE Fail
  <2>1. answer'.is = "error"
    BY <1>5 DEF Fail, Over, Error, NoAnswer
  <2>2. QED
    BY <1>3, <2>1
<1>6. CASE Worked
  <2>1. /\ call.op = "respond" /\ total = 0 /\ used = 0 /\ Came.is \in {"turn", "aborted"}
    BY <1>6, AnsweredTyped DEF Worked, AccountInv
  <2>2. CASE Came.is = "turn"
    <3>1. answer' = assistant_turn
      BY <1>6, <2>2 DEF Worked, Over
    <3>2. answer'.is = "turn" /\ answer'.usage = Usage /\ Usage \in Nat
      BY <2>2, <3>1, UsageTyped DEF assistant_turn
    <3>3. QED
      BY <1>4, <2>1, <2>2, <3>2
  <2>3. CASE Came.is = "aborted"
    <3>1. answer'.is = "aborted" /\ answer'.usage = 0
      BY <1>6, <2>3 DEF Worked, Over, NoAnswer
    <3>2. provider.by = "oneharness" /\ ~ Reported
      BY <2>3, CameIs DEF Reported
    <3>3. telemetry'.usage = 0
      BY <1>1, <2>1, <3>2 DEF Recorded, RecordedTelemetry, AccountInv
    <3>4. QED
      BY <1>2, <3>1, <3>2, <3>3 DEF AnswerAccounts
  <2>4. QED
    BY <2>1, <2>2, <2>3
<1>7. CASE Look \/ Supervised \/ Scored
  <2>1. Came.is = "turn"
    BY <1>7, JudgedIsTurn DEF Look, Supervised, Scored
  <2>2. CASE Over(Error)
    <3>1. answer'.is = "error"
      BY <2>2 DEF Over, Error, NoAnswer
    <3>2. QED
      BY <1>3, <3>1
  <2>3. CASE \E said : Finished("decision", said) /\ call.op = "supervisor"
    BY <1>4, <2>1, <2>3 DEF Finished, Over
  <2>4. CASE \E is \in {"reply", "assessment", "verdict"} : \E said : Finished(is, said)
    BY <1>4, <2>1, <2>4 DEF Finished, Over
  <2>5. QED
    BY <1>7, <2>2, <2>3, <2>4 DEF Look, Supervised, Scored
<1>8. QED
  BY <1>1, <1>5, <1>6, <1>7

(* The usage of an answer is what every report behind it spent, a decision's *)
(* record has every tool they used, what it is answered from ran, and a link *)
(* that is left is of this call's lint run.                                  *)
THEOREM AnswersAreAccountedFor == Spec => AnswersAccountForReports
<1>1. Init => AccountInv
  BY DEF Init, AccountInv
<1>2. Typed /\ AccountInv /\ [Next]_vars => AccountInv'
  BY AccountInvKept
<1>3. Typed /\ AccountInv /\ [Next]_vars => [AnswerAccounts]_vars
  BY AnswersAccount
<1>4. QED
  BY <1>1, <1>2, <1>3, AlwaysTyped, PTL DEF Spec, AnswersAccountForReports

-----------------------------------------------------------------------------
(* What the observer of a worker's turn was shown is what was heard of the   *)
(* attempt in flight: an attempt is only given up for another while its      *)
(* child has said nothing. A stream that was stopped is an attempt that was  *)
(* abandoned, and the other way round.                                       *)

ShownInv ==
  /\ child.lines = 0 => heard = <<>> /\ out = <<>>
  /\ at \in {"ladder", "attempt", "grouping", "writing", "collecting", "reading"} =>
       outcome = "none"
  /\ at \in {"attempt", "grouping"} => child.lines = 0
  /\ at = "running" => outcome \in {"none", "aborted"}
  /\ at \in {"reading", "eof"} => spec.stream
  /\ at \notin {"idle", "ladder"} /\ ~ spec.stream => heard = <<>>
  /\ at = "ladder" /\ call.op = "respond" => shown = <<>>
  /\ at \notin {"idle", "ladder"} /\ call.op = "respond" => shown = heard
  /\ at = "back" => /\ outcome = "aborted" <=> got.is = "aborted"
                    /\ got.is = "aborted" => got.words = "nothing"
                    /\ got.words # "nothing" => child.lines = 0

(* Words that may be read in an output were all it was. *)
LEMMA WordsAreAll ==
  ASSUME NEW g \in Output, g.words # "nothing"
  PROVE  ~ (child.lines > 0)
<1>1. PICK words \in Refusals : g = Got("output", NoReport, Other, words)
  BY DEF Output, Got
<1>2. QED
  BY <1>1 DEF Refusals

(* An event is heard, and shown to the observer of a worker's turn. *)
LEMMA HeardIsShown ==
  ASSUME Typed, NEW line, Hear(line), spec.op = "respond", shown = heard
  PROVE  shown' = heard'
  BY DEF Hear, Observed

LEMMA NothingRunShown ==
  ASSUME NothingRun
  PROVE  child'.lines = 0 /\ heard' = <<>> /\ out' = <<>> /\ outcome' = "none"
  BY DEF NothingRun, NoChild

LEMMA ShownInvKept ==
  ASSUME Typed, AccountInv, ShownInv, [Next]_vars
  PROVE  ShownInv'
<1>0. child \in Children /\ child.lines \in Nat /\ at \in Stages
  BY DEF Typed, TypeOK, ProcessType, Children
<1>1. CASE Begin \/ reset_telemetry
  BY <1>1, NothingRunShown DEF Begin, reset_telemetry, ShownInv
<1>2. CASE TakeRecord
  BY <1>2 DEF TakeRecord, process, ShownInv
<1>3. CASE EnterLadder \/ Retry
  <2>1. /\ at' \in {"running", "attempt"} /\ NothingRun /\ call' = call /\ shown' = shown
    BY <1>3 DEF EnterLadder, Retry, Attempt
  <2>2. call.op = "respond" => shown = <<>>
    <3>1. CASE EnterLadder
      BY <3>1 DEF EnterLadder, ShownInv
    <3>2. CASE Retry
      <4>1. at = "back" /\ Came.words # "nothing"
        BY <3>2 DEF Retry, NextRung
      <4>2. got.words # "nothing"
        BY <4>1, CameIs
      <4>3. QED
        BY <4>1, <4>2 DEF ShownInv
    <3>3. QED
      BY <1>3, <3>1, <3>2
  <2>3. QED
    BY <2>1, <2>2, NothingRunShown DEF ShownInv
<1>4. CASE LibraryEvent
  <2>1. /\ at = "running" /\ at' = at /\ spec.stream /\ spec' = spec /\ out' = out /\ call' = call
        /\ child'.lines = child.lines + 1 /\ outcome' \in {"none", "aborted"}
        /\ \E line : Hear(line)
    BY <1>0, <1>4 DEF LibraryEvent, Children
  <2>2. child'.lines # 0
    BY <1>0, <2>1
  <2>3. call.op = "respond" => shown' = heard'
    BY <2>1, HeardIsShown DEF ShownInv, Typed, Staged
  <2>4. QED
    BY <2>1, <2>2, <2>3 DEF ShownInv
<1>5. CASE LibraryReturns
  <2>1. /\ at = "running" /\ at' = "back" /\ outcome \in {"none", "aborted"}
        /\ UNCHANGED <<spec, child, out, heard, outcome, shown, call>>
    BY <1>5 DEF LibraryReturns, process, ShownInv
  <2>2. /\ outcome' = "aborted" <=> got'.is = "aborted"
        /\ got'.is = "aborted" => got'.words = "nothing"
        /\ got'.words # "nothing" => child.lines = 0
    BY <1>5, <2>1 DEF LibraryReturns, Got, Failed
  <2>3. QED
    BY <2>1, <2>2 DEF ShownInv
<1>6. CASE ProcessStep /\ UNCHANGED callVars
  <2>1. UNCHANGED call
    BY <1>6 DEF callVars
  <2>2. CASE Create
    <3>1. child'.lines = 0 \/ child' = child
      BY <2>2 DEF Create, NoChild
    <3>2. /\ at = "attempt" /\ at' \in {"grouping", "back"}
          /\ (at' = "back" => got' = Refused)
          /\ UNCHANGED <<spec, out, heard, outcome, shown>>
      BY <2>2 DEF Create
    <3>3. Refused.is = "error" /\ Refused.words = "nothing"
      BY DEF Refused, Failed, Got
    <3>4. QED
      BY <2>1, <3>1, <3>2, <3>3 DEF ShownInv
  <2>3. CASE Group
    BY <2>1, <2>3 DEF Group, AfterSpawn, NoChild, Refused, Failed, Got, ShownInv
  <2>4. CASE WriteRequest
    BY <2>1, <2>4 DEF WriteRequest, process, ShownInv
  <2>5. CASE WriteFails
    BY <2>1, <2>5 DEF WriteFails, process, Got, ShownInv
  <2>6. CASE Collect
    <3>1. at = "collecting" /\ at' = "back" /\ child'.lines = child.lines
          /\ UNCHANGED <<spec, out, heard, outcome, shown>>
      BY <1>0, <2>6 DEF Collect, Children
    <3>2. got'.is = "output" /\ (got'.words # "nothing" => ~ (child.lines > 0))
      BY <2>6, <3>1, OutputTypes, WordsAreAll DEF Collect
    <3>3. QED
      BY <1>0, <2>1, <3>1, <3>2 DEF ShownInv
  <2>7. CASE ReadEvent
    <3>1. /\ at = "reading" /\ at' \in {"reading", "grace1"} /\ out # <<>> /\ Hear(Head(out))
          /\ UNCHANGED <<spec, child>> /\ (at' = "reading" => outcome' = outcome)
      BY <2>7 DEF ReadEvent, Conclude
    <3>2. call.op = "respond" => shown' = heard'
      BY <3>1, HeardIsShown DEF ShownInv, Typed, Staged
    <3>3. QED
      BY <2>1, <3>1, <3>2 DEF ShownInv
  <2>8. CASE ReadResult
    BY <2>1, <2>8 DEF ReadResult, Conclude, ShownInv
  <2>9. CASE ReadMalformed
    BY <2>1, <2>9 DEF ReadMalformed, Conclude, ShownInv
  <2>10. CASE ReadToEnd \/ Exited \/ request_stop
    BY <2>1, <2>10 DEF ReadToEnd, Exited, request_stop, process, ShownInv
  <2>11. CASE Kill \/ Wait
    <3>1. child'.lines = child.lines
      BY <1>0, <2>11 DEF Kill, Wait, Children
    <3>2. QED
      BY <2>1, <2>11, <3>1 DEF Kill, Wait, ShownInv
  <2>12. CASE JoinStderr
    <3>1. at = "joining" /\ at' = "back" /\ got' \in Streamed
          /\ UNCHANGED <<spec, child, out, heard, outcome, shown>>
      BY <2>12 DEF JoinStderr, process
    <3>2. outcome \in {"aborted", "report", "malformed"}
      BY <3>1 DEF Typed, TypeOK, ProcessType, Staged
    <3>3. CASE outcome = "aborted"
      BY <2>1, <3>1, <3>3 DEF Streamed, Got, ShownInv
    <3>4. CASE outcome = "report"
      <4>1. got'.is = "output" /\ (got'.words # "nothing" => ~ (child.lines > 0))
        BY <3>1, <3>4, OutputTypes, WordsAreAll DEF Streamed
      <4>2. QED
        BY <1>0, <2>1, <3>1, <3>4, <4>1 DEF ShownInv
    <3>5. CASE outcome = "malformed"
      <4>1. got'.is = "error" /\ (got'.words # "nothing" => got'.words \in Refusals)
        BY <3>1, <3>5 DEF Streamed, Failed, Got
      <4>2. got'.words # "nothing" => ~ (child.lines > 0)
        BY <4>1 DEF Refusals
      <4>3. QED
        BY <1>0, <2>1, <3>1, <3>5, <4>1, <4>2 DEF ShownInv
    <3>6. QED
      BY <3>2, <3>3, <3>4, <3>5
  <2>13. QED
    BY <1>6, <2>2, <2>3, <2>4, <2>5, <2>6, <2>7, <2>8, <2>9, <2>10, <2>11, <2>12 DEF ProcessStep
<1>7. CASE ChildStep /\ UNCHANGED callVars
  <2>1. UNCHANGED call
    BY <1>7 DEF callVars
  <2>2. CASE ChildWrites
    <3>1. /\ child'.lines = child.lines + 1 /\ at \in {"writing", "reading", "eof"}
          /\ UNCHANGED <<at, spec, heard, outcome, got, shown>>
      BY <1>0, <2>2 DEF ChildWrites, Child, Children
    <3>2. child'.lines # 0
      BY <1>0, <3>1
    <3>3. QED
      BY <2>1, <3>1, <3>2 DEF ShownInv
  <2>3. CASE ~ ChildWrites
    <3>1. /\ child'.lines = child.lines
          /\ UNCHANGED <<at, spec, heard, outcome, got, shown, out>>
      BY <1>0, <1>7, <2>3 DEF ChildStep, ChildReads, ChildSticks, ChildGoesOn, ChildCloses, ChildExits, HeirLeaves,
                              Child, Children
    <3>2. QED
      BY <2>1, <3>1 DEF ShownInv
  <2>4. QED
    BY <2>2, <2>3
<1>8. CASE Fail \/ Worked \/ Look \/ Supervised \/ Scored
  <2>1. CASE /\ at' = "idle" /\ child' = [NoChild EXCEPT !.at = child.at]
             /\ heard' = <<>> /\ out' = <<>>
    BY <2>1 DEF NoChild, ShownInv
  <2>2. CASE at' = "ladder" /\ NothingRun /\ call' = call /\ call.op # "respond"
    BY <2>2, NothingRunShown DEF ShownInv
  <2>3. QED
    BY <1>8, <2>1, <2>2 DEF Fail, Worked, Look, Supervised, Scored, Finished, Over
<1>9. CASE UNCHANGED vars
  BY <1>9 DEF vars, process, ShownInv
<1>10. QED
  BY <1>1, <1>2, <1>3, <1>4, <1>5, <1>6, <1>7, <1>8, <1>9 DEF Next, ParentStep

(* Where the contract is, and what it has come to. *)
phase == IF at = "idle" THEN "over" ELSE IF outcome = "aborted" THEN "stopped" ELSE "open"
told == [is |-> answer.is, events |-> answer.events]
contract == <<phase, shown, told>>

LEMMA SameTools == \A acts : Turn_!tool_events(acts) = tool_events(acts)
  BY DEF Turn_!tool_events, tool_events

LEMMA SamePrefix == \A s, t : Turn_!IsPrefix(s, t) <=> IsPrefix(s, t)
  BY DEF Turn_!IsPrefix, IsPrefix

(* A step of an attempt that hears nothing and stops nothing.                *)
LEMMA Unheard ==
  ASSUME phase' = phase, shown' = shown, UNCHANGED answer
  PROVE  UNCHANGED contract
  BY DEF contract, told

(* An event that is heard is shown, or not for this observer; and it may be *)
(* the one it stops on.                                                      *)
LEMMA HeardKeepsContract ==
  ASSUME at # "idle", at' # "idle", outcome = "none", UNCHANGED answer,
         NEW line \in Actions \cup {"history"}, Hear(line), 
         outcome' = "none" \/ outcome' = "aborted"
  PROVE  [Turn_!Next]_contract
<1>1. phase = "open" /\ phase' \in {"open", "stopped"}
  BY DEF phase
<1>2. told' = told
  BY DEF told
<1>3. CASE Observed(line) /\ line \in Actions
  <2>1. shown' = Append(shown, line)
    BY <1>3 DEF Hear
  <2>2. Turn_!Show
    BY <1>1, <1>2, <1>3, <2>1 DEF Turn_!Show, Turn_!Actions, Actions, phase, told
  <2>3. QED
    BY <2>2 DEF Turn_!Next
<1>4. CASE ~ (Observed(line) /\ line \in Actions)
  <2>1. shown' = shown
    BY <1>4 DEF Hear
  <2>2. CASE phase' = "open"
    BY <1>1, <1>2, <2>1, <2>2 DEF contract
  <2>3. CASE phase' = "stopped"
    <3>1. Turn_!Stop
      BY <1>1, <1>2, <2>1, <2>3 DEF Turn_!Stop, phase, told
    <3>2. QED
      BY <3>1 DEF Turn_!Next
  <2>4. QED
    BY <1>1, <2>2, <2>3
<1>5. QED
  BY <1>3, <1>4

(* A call that is over without showing more: it was stopped and comes to an  *)
(* error, or it was not and comes to anything but a stop.                    *)
LEMMA OverKeepsContract ==
  ASSUME at = "back", at' = "idle", shown' = shown,
         \/ answer'.is = "error" /\ answer'.events = <<>>
         \/ /\ outcome # "aborted" /\ answer'.is \in {"turn", "decision", "reply", "assessment", "verdict"}
            /\ answer'.is # "turn" => answer'.events = <<>>
  PROVE  [Turn_!Next]_contract
<1>1. phase' = "over" /\ phase \in {"open", "stopped"} /\ (outcome # "aborted" => phase = "open")
  BY DEF phase
<1>2. CASE phase = "open"
  <2>1. Turn_!Finish
    BY <1>1, <1>2 DEF Turn_!Finish, phase, told
  <2>2. QED
    BY <2>1 DEF Turn_!Next
<1>3. CASE phase = "stopped"
  <2>1. told' = Turn_!Failure
    BY <1>1, <1>3 DEF Turn_!Failure, told, phase
  <2>2. Turn_!Abandon
    BY <1>1, <1>3, <2>1 DEF Turn_!Abandon, phase, told
  <2>3. QED
    BY <2>2 DEF Turn_!Next
<1>4. QED
  BY <1>1, <1>2, <1>3

LEMMA WorkedKeepsContract ==
  ASSUME Typed, AccountInv, ShownInv, Worked
  PROVE  [Turn_!Next]_contract
<1>1. /\ at = "back" /\ call.op = "respond" /\ Came.is \in {"turn", "aborted"} /\ at' = "idle"
  BY AnsweredTyped DEF Worked, Over
<1>2. shown = heard
  BY <1>1 DEF ShownInv
<1>3. CASE Came.is = "aborted"
  <2>1. outcome = "aborted"
    BY <1>1, <1>3, CameIs DEF ShownInv
  <2>2. told' = [is |-> "aborted", events |-> tool_events(shown)] /\ shown' = shown
    BY <1>2, <1>3 DEF Worked, Over, NoAnswer, told
  <2>3. phase = "stopped" /\ phase' = "over"
    BY <1>1, <2>1 DEF phase
  <2>4. Turn_!Abandon
    BY <2>2, <2>3, SameTools DEF Turn_!Abandon, phase, told
  <2>5. QED
    BY <2>4 DEF Turn_!Next
<1>4. CASE Came.is = "turn"
  <2> DEFINE acts == R!actions(got.report)
  <2>1. outcome # "aborted" /\ acts \in Seq(Actions)
    BY <1>1, <1>4, CameIs, ReportedTypes DEF ShownInv, Reported, Typed
  <2>2. answer' = assistant_turn
    BY <1>4 DEF Worked, Over
  <2>3. answer'.is = "turn" /\ answer'.events = tool_events(acts)
    BY <2>2 DEF assistant_turn
  <2> HIDE DEF acts
  <2>4. CASE spec.stream
    <3>1. shown' = shown
      BY <1>4, <2>4 DEF Worked
    <3>2. QED
      BY <1>1, <2>1, <2>3, <3>1, OverKeepsContract
  <2>5. CASE ~ spec.stream
    <3>1. shown = <<>>
      BY <1>1, <1>2, <2>5 DEF ShownInv
    <3>2. PICK n \in 0 .. Len(acts) : shown' = SubSeq(acts, 1, n)
      BY <1>4, <2>1, <2>5 DEF Worked, Replayed, acts
    <3>3. IsPrefix(tool_events(shown'), answer'.events)
      BY <2>1, <2>3, <3>2, ToolsOfPrefix
    <3>4. phase = "open" /\ phase' = "over"
      BY <1>1, <2>1 DEF phase
    <3>5. Turn_!Finish
      BY <2>3, <3>1, <3>3, <3>4, SameTools, SamePrefix DEF Turn_!Finish, phase, told
    <3>6. QED
      BY <3>5 DEF Turn_!Next
  <2>6. QED
    BY <2>4, <2>5
<1>5. QED
  BY <1>1, <1>3, <1>4

LEMMA NextKeepsContract ==
  ASSUME Typed, AccountInv, ShownInv, [Next]_vars
  PROVE  [Turn_!Next]_contract
<1>1. CASE Begin
  <2>1. phase = "over" /\ shown' = <<>> /\ outcome' = "none"
    BY <1>1 DEF Begin, NothingRun, phase
  <2>2. \/ phase' = "open" /\ told' = Turn_!Nothing
        \/ phase' = "over" /\ told' = Turn_!Failure
    BY <1>1, <2>1 DEF Begin, phase, told, Turn_!Nothing, Turn_!Failure, NoAnswer, Error
  <2>3. Turn_!Open
    BY <2>1, <2>2 DEF Turn_!Open, phase, told
  <2>4. QED
    BY <2>3 DEF Turn_!Next
<1>2. CASE reset_telemetry
  <2>1. phase = "over" /\ phase' = "over" /\ shown' = <<>> /\ told' = Turn_!Nothing
    BY <1>2 DEF reset_telemetry, phase, told, Turn_!Nothing, NoAnswer
  <2>2. Turn_!Open
    BY <2>1 DEF Turn_!Open, phase, told
  <2>3. QED
    BY <2>2 DEF Turn_!Next
<1>3. CASE TakeRecord
  BY <1>3 DEF TakeRecord, process, phase, contract, told
<1>4. CASE EnterLadder \/ Retry
  <2>1. outcome' = "none" /\ at' # "idle" /\ at # "idle" /\ shown' = shown /\ UNCHANGED answer
    BY <1>4 DEF EnterLadder, Retry, Attempt, NothingRun
  <2>2. outcome # "aborted"
    <3>1. CASE EnterLadder
      BY <3>1 DEF EnterLadder, ShownInv
    <3>2. CASE Retry
      <4>1. at = "back" /\ Came.words # "nothing"
        BY <3>2 DEF Retry, NextRung
      <4>2. got.words # "nothing"
        BY <4>1, CameIs
      <4>3. QED
        BY <4>1, <4>2 DEF ShownInv
    <3>3. QED
      BY <1>4, <3>1, <3>2
  <2>3. QED
    BY <2>1, <2>2, Unheard DEF phase
<1>5. CASE LibraryEvent
  <2>1. PICK line \in Actions \cup {"history"} :
          Hear(line) /\ (outcome' = outcome \/ outcome' = "aborted")
    BY <1>5 DEF LibraryEvent
  <2>2. at # "idle" /\ at' # "idle" /\ outcome = "none" /\ UNCHANGED answer
    BY <1>5 DEF LibraryEvent
  <2>3. QED
    BY <2>1, <2>2, HeardKeepsContract
<1>6. CASE LibraryReturns
  BY <1>6, Unheard DEF LibraryReturns, process, phase
<1>7. CASE ProcessStep /\ UNCHANGED callVars
  <2>1. UNCHANGED answer
    BY <1>7 DEF callVars
  <2>2. CASE ReadEvent
    <3>1. at = "reading" /\ Head(out) \in Actions \cup {"history"} /\ Hear(Head(out))
          /\ at' # "idle" /\ (outcome' = outcome \/ outcome' = "aborted")
      BY <2>2 DEF ReadEvent, Conclude
    <3>2. outcome = "none"
      BY <3>1 DEF ShownInv
    <3>3. QED
      BY <2>1, <3>1, <3>2, HeardKeepsContract
  <2>3. CASE ReadResult \/ ReadMalformed
    <3>1. /\ at \in {"reading", "eof"} /\ at' # "idle" /\ shown' = shown
          /\ outcome' \in {"report", "malformed"}
      BY <2>3 DEF ReadResult, ReadMalformed, Conclude
    <3>2. outcome # "aborted"
      BY <3>1 DEF ShownInv, Typed, Staged
    <3>3. QED
      BY <2>1, <3>1, <3>2, Unheard DEF phase
  <2>4. CASE ~ (ReadEvent \/ ReadResult \/ ReadMalformed)
    <3>1. shown' = shown /\ outcome' = outcome /\ at # "idle" /\ at' # "idle"
      BY <1>7, <2>4 DEF ProcessStep, Create, Group, AfterSpawn, WriteRequest, WriteFails, Collect,
           ReadToEnd, Exited, request_stop, Kill, Wait, JoinStderr, process
    <3>2. QED
      BY <2>1, <3>1, Unheard DEF phase
  <2>5. QED
    BY <2>2, <2>3, <2>4
<1>8. CASE ChildStep /\ UNCHANGED callVars
  <2>1. UNCHANGED answer
    BY <1>8 DEF callVars
  <2>2. UNCHANGED <<at, outcome, shown>>
    BY <1>8 DEF ChildStep, ChildReads, ChildSticks, ChildGoesOn, ChildWrites, ChildCloses,
                ChildExits, HeirLeaves, Child
  <2>3. QED
    BY <2>1, <2>2, Unheard DEF phase
<1>9. CASE Fail
  <2>1. at = "back" /\ at' = "idle" /\ shown' = shown
        /\ answer'.is = "error" /\ answer'.events = <<>>
    BY <1>9 DEF Fail, Over, Error, NoAnswer
  <2>2. QED
    BY <2>1, OverKeepsContract
<1>10. CASE Look \/ Supervised \/ Scored
  <2>1. Answered /\ call.op # "respond" /\ shown' = shown
    BY <1>10 DEF Look, Supervised, Scored
  <2>2. at = "back" /\ Came.is = "turn"
    BY <2>1, AnsweredTyped, JudgedIsTurn
  <2>3. outcome # "aborted"
    BY <2>2, CameIs DEF ShownInv, Reported
  <2>4. CASE at' = "ladder" /\ NothingRun /\ UNCHANGED answer
    BY <2>1, <2>2, <2>3, <2>4, Unheard DEF NothingRun, phase
  <2>5. CASE Over(Error)
    <3>1. at' = "idle" /\ answer'.is = "error" /\ answer'.events = <<>>
      BY <2>5 DEF Over, Error, NoAnswer
    <3>2. QED
      BY <2>1, <2>2, <3>1, OverKeepsContract
  <2>6. CASE \E is \in {"decision", "reply", "assessment", "verdict"} : \E said : Finished(is, said)
    <3>1. at' = "idle" /\ answer'.is \in {"decision", "reply", "assessment", "verdict"}
          /\ answer'.events = <<>>
      BY <2>6 DEF Finished, Over
    <3>2. QED
      BY <2>1, <2>2, <2>3, <3>1, OverKeepsContract
  <2>7. QED
    BY <1>10, <2>4, <2>5, <2>6 DEF Look, Supervised, Scored
<1>11. CASE UNCHANGED vars
  BY <1>11 DEF vars, process, phase, contract, told
<1>12. QED
  BY <1>1, <1>2, <1>3, <1>4, <1>5, <1>6, <1>7, <1>8, <1>9, <1>10, <1>11, WorkedKeepsContract
     DEF Next, ParentStep

(* A call keeps what it promises its observer: it implements TurnContract.   *)
THEOREM CallsKeepTheTurnContract == Spec => KeepsTurnContract
<1>1. Init => Turn_!Init
  BY DEF Init, NoAnswer, Turn_!Init, Turn_!Nothing
<1>2. Init => AccountInv /\ ShownInv
  BY DEF Init, NoChild, AccountInv, ShownInv
<1>3. Typed /\ AccountInv /\ ShownInv /\ [Next]_vars => (AccountInv /\ ShownInv)'
  BY AccountInvKept, ShownInvKept
<1>4. Typed /\ AccountInv /\ ShownInv /\ [Next]_vars => [Turn_!Next]_contract
  BY NextKeepsContract
<1>5. QED
  BY <1>1, <1>2, <1>3, <1>4, AlwaysTyped, PTL
     DEF Spec, KeepsTurnContract, Turn_!Spec, contract, phase, told

===============================================================================
