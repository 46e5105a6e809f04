---------------------------- MODULE CriterionProofs ----------------------------
(***************************************************************************)
(* That what a note binds can be met, for any drafts of notes: what is     *)
(* bound was drafted, trimmed and not refused, and what the module         *)
(* NoteAdmission refuses is refused within any sentence.                   *)
(***************************************************************************)
EXTENDS RunPlanProofs, SequenceTheorems, WellFoundedInduction

-----------------------------------------------------------------------------
(* Texts, and a text within another. *)

IsText(t) == \E S : t \in Seq(S) /\ Nothing \notin S
Clear == {"space", Nothing}

(* t stands in u, d tokens from its start, with nothing or a blank around it. *)
Within(t, u, d) ==
  /\ d \in Nat /\ Len(t) + d <= Len(u)
  /\ \A k \in 1..Len(t) : u[k + d] = t[k]
  /\ At(u, d) \in Clear /\ At(u, d + Len(t) + 1) \in Clear

(* A text by its positions, with nothing before and after them. *)
LEMMA TextFacts ==
  ASSUME NEW t, IsText(t)
  PROVE  /\ Len(t) \in Nat /\ DOMAIN t = 1..Len(t)
         /\ \A i \in DOMAIN t : At(t, i) = t[i] /\ t[i] # Nothing
         /\ \A i \in Int : i \notin 1..Len(t) => At(t, i) = Nothing
<1>1. PICK S : t \in Seq(S) /\ Nothing \notin S
  BY DEF IsText
<1>2. Len(t) \in Nat /\ DOMAIN t = 1..Len(t) /\ \A i \in DOMAIN t : t[i] \in S
  BY <1>1
<1>3. QED
  BY <1>1, <1>2 DEF At

(* Neither punctuation nor the absence of a token is part of a word. *)
LEMMA PunctuationIsNoWord ==
  \A token \in Punctuation \cup {Nothing} : ~Alphanumeric(token)
BY DEF Alphanumeric

(* What stands around a text within another is no part of a word or number. *)
LEMMA ClearIsNoWord ==
  \A token \in Clear : ~Alphanumeric(token) /\ token # "underscore" /\ token # "."
BY DEF Alphanumeric, Punctuation, Clear, Nothing

(* A text within another is found there token by token, and so are its words. *)
LEMMA WithinFacts ==
  ASSUME NEW t, NEW u, NEW d, IsText(t), IsText(u), Within(t, u, d)
  PROVE  /\ \A i \in DOMAIN t : i \in Int /\ i + d \in DOMAIN u /\ u[i + d] = t[i]
         /\ \A i \in 0..(Len(t) + 1) : Alphanumeric(At(u, i + d)) <=> Alphanumeric(At(t, i))
<1>1. /\ Len(t) \in Nat /\ DOMAIN t = 1..Len(t)
      /\ Len(u) \in Nat /\ DOMAIN u = 1..Len(u) /\ d \in Nat
  BY TextFacts DEF Within
<1>2. \A i \in DOMAIN t : i \in Int /\ i + d \in DOMAIN u /\ u[i + d] = t[i]
  BY <1>1 DEF Within
<1>3. ASSUME NEW i \in 0..(Len(t) + 1)
      PROVE  Alphanumeric(At(u, i + d)) <=> Alphanumeric(At(t, i))
  <2>1. CASE i \in DOMAIN t
    BY <1>2, <2>1, TextFacts
  <2>2. CASE i \notin DOMAIN t
    <3>1. i = 0 \/ i = Len(t) + 1
      BY <1>1, <2>2
    <3>2. At(u, i + d) \in Clear
      <4>1. d + Len(t) + 1 = Len(t) + 1 + d /\ 0 + d = d
        BY <1>1
      <4>2. QED
        BY <3>1, <4>1 DEF Within
    <3>3. At(t, i) = Nothing
      BY <1>1, <2>2, TextFacts
    <3>4. QED
      BY <3>2, <3>3, ClearIsNoWord, PunctuationIsNoWord
  <2>3. QED
    BY <2>1, <2>2
<1>4. QED
  BY <1>2, <1>3

(* Positions in a text and in the one it stands in. *)
LEMMA WithinNumbers ==
  ASSUME NEW t, NEW u, NEW d, IsText(t), IsText(u), Within(t, u, d)
  PROVE  /\ Len(t) \in Nat /\ Len(u) \in Nat /\ d \in Nat /\ Len(t) + d <= Len(u)
         /\ \A i \in DOMAIN t : i \in Int /\ 1 <= i /\ i <= Len(t)
         /\ \A i \in Int : 1 <= i /\ i <= Len(t) => i \in DOMAIN t
         /\ \A i \in Int : 1 <= i /\ i <= Len(u) => i \in DOMAIN u
BY TextFacts DEF Within

(* A phrase of tokens in the part is one in the whole. *)
LEMMA WithinMatches ==
  ASSUME NEW t, NEW u, NEW d, IsText(t), IsText(u), Within(t, u, d),
         NEW p, DOMAIN p \subseteq Int, NEW i \in Int, MatchesAt(t, i, p)
  PROVE  MatchesAt(u, i + d, p)
<1>1. ASSUME NEW k \in DOMAIN p
      PROVE  i + d + k - 1 \in DOMAIN u /\ u[i + d + k - 1] = p[k]
  <2>1. i + k - 1 \in DOMAIN t /\ t[i + k - 1] = p[k]
    BY DEF MatchesAt
  <2>2. i + k - 1 + d \in DOMAIN u /\ u[i + k - 1 + d] = p[k]
    BY <2>1, WithinFacts
  <2>3. i + k - 1 + d = i + d + k - 1
    BY DEF Within
  <2>4. QED
    BY <2>2, <2>3
<1>2. QED
  BY <1>1 DEF MatchesAt

(* The words of the part are those of the whole that begin in it. *)
LEMMA WithinWords ==
  ASSUME NEW t, NEW u, NEW d, IsText(t), IsText(u), Within(t, u, d)
  PROVE  \A i \in DOMAIN t :
           /\ i + d \in words_of(u) <=> i \in words_of(t)
           /\ \A word : IsWord(t, i, word) => IsWord(u, i + d, word)
<1>1. ASSUME NEW i \in DOMAIN t
      PROVE  /\ i + d \in words_of(u) <=> i \in words_of(t)
             /\ \A word : IsWord(t, i, word) => IsWord(u, i + d, word)
  <2>1. /\ i \in Int /\ i - 1 \in 0..(Len(t) + 1) /\ i + 1 \in 0..(Len(t) + 1)
        /\ i - 1 + d = (i + d) - 1 /\ i + 1 + d = i + d + 1
    BY TextFacts DEF Within
  <2>2. /\ i + d \in DOMAIN u /\ u[i + d] = t[i]
        /\ Alphanumeric(At(u, (i + d) - 1)) <=> Alphanumeric(At(t, i - 1))
        /\ Alphanumeric(At(u, i + d + 1)) <=> Alphanumeric(At(t, i + 1))
    BY <2>1, WithinFacts
  <2>3. i + d \in words_of(u) <=> i \in words_of(t)
    BY <2>2 DEF words_of
  <2>4. ASSUME NEW word, IsWord(t, i, word)
        PROVE  IsWord(u, i + d, word)
    <3>1. t[i] = word /\ ~Alphanumeric(At(t, i + 1))
      BY <2>4 DEF IsWord
    <3>2. u[i + d] = word /\ ~Alphanumeric(At(u, i + d + 1))
      BY <2>2, <3>1
    <3>3. QED
      BY <3>2 DEF IsWord
  <2>5. QED
    BY <2>3, <2>4
<1>2. QED
  BY <1>1

(* Words between two places are counted alike in the part and in the whole. *)
LEMMA WithinFrom ==
  ASSUME NEW t, NEW u, NEW d, IsText(t), IsText(u), Within(t, u, d),
         NEW first \in DOMAIN t, NEW i \in DOMAIN t
  PROVE  Cardinality(From(words_of(u), first + d, i + d))
           = Cardinality(From(words_of(t), first, i))
<1> DEFINE A == From(words_of(t), first, i)
           B == From(words_of(u), first + d, i + d)
           f == [j \in A |-> j + d]
<1>1. /\ Len(t) \in Nat /\ DOMAIN t = 1..Len(t)
      /\ Len(u) \in Nat /\ DOMAIN u = 1..Len(u) /\ d \in Nat
  BY TextFacts DEF Within
<1>2. A \subseteq 1..Len(t) /\ B \subseteq 1..Len(u)
  BY <1>1 DEF From, words_of
<1>3. \A j \in A : j + d \in B
  BY <1>1, <1>2, WithinWords DEF From
<1>4. \A m \in B : m - d \in A /\ m - d + d = m
  <2>1. ASSUME NEW m \in B
        PROVE  m - d \in A /\ m - d + d = m
    <3>1. m \in Int /\ m - d \in DOMAIN t /\ m - d + d = m
      BY <1>1, <1>2, <2>1 DEF From
    <3>2. m - d \in words_of(t)
      BY <2>1, <3>1, WithinWords DEF From
    <3>3. first <= m - d /\ m - d < i
      BY <1>1, <2>1, <3>1 DEF From
    <3>4. QED
      BY <3>1, <3>2, <3>3 DEF From
  <2>2. QED
    BY <2>1
<1> HIDE DEF A, B
<1>5. f \in Bijection(A, B)
  <2>1. f \in [A -> B]
    BY <1>3
  <2>2. \A x, y \in A : f[x] = f[y] => x = y
    BY <1>1, <1>2
  <2>3. \A m \in B : \E j \in A : f[j] = m
    BY <1>4
  <2>4. QED
    BY <2>1, <2>2, <2>3 DEF Bijection, Injection, Surjection, IsInjective
<1>6. IsFiniteSet(A)
  <2>1. IsFiniteSet(1..Len(t))
    BY <1>1, FS_Interval
  <2>2. QED
    BY <1>2, <2>1, FS_Subset
<1>7. Cardinality(A) = Cardinality(B)
  <2>1. ExistsBijection(A, B)
    BY <1>5 DEF ExistsBijection
  <2>2. QED
    BY <1>6, <2>1, FS_Bijection
<1>8. QED
  BY <1>7 DEF A, B

(* A phrase of words in the part is one in the whole (sequence_at). *)
LEMMA WithinSequence ==
  ASSUME NEW t, NEW u, NEW d, IsText(t), IsText(u), Within(t, u, d),
         NEW p, sequence_at(t, p)
  PROVE  sequence_at(u, p)
<1>1. PICK first \in words_of(t) : \A k \in DOMAIN p :
        \E i \in words_of(t) : /\ IsWord(t, i, p[k])
                               /\ first <= i /\ Cardinality(From(words_of(t), first, i)) = k - 1
  BY DEF sequence_at
<1>2. words_of(t) \subseteq DOMAIN t /\ DOMAIN t \subseteq Int /\ d \in Int
  BY TextFacts DEF words_of, Within
<1>3. first + d \in words_of(u)
  BY <1>2, WithinWords
<1>4. ASSUME NEW k \in DOMAIN p
      PROVE  \E i \in words_of(u) :
               /\ IsWord(u, i, p[k]) /\ first + d <= i
               /\ Cardinality(From(words_of(u), first + d, i)) = k - 1
  <2>1. PICK i \in words_of(t) :
          /\ IsWord(t, i, p[k])
          /\ first <= i /\ Cardinality(From(words_of(t), first, i)) = k - 1
    BY <1>1
  <2>2. i + d \in words_of(u) /\ IsWord(u, i + d, p[k])
    BY <1>2, <2>1, WithinWords
  <2>3. first + d <= i + d
    BY <1>2, <2>1
  <2>4. Cardinality(From(words_of(u), first + d, i + d)) = k - 1
    BY <1>2, <2>1, WithinFrom
  <2>5. QED
    BY <2>2, <2>3, <2>4
<1>5. QED
  BY <1>3, <1>4 DEF sequence_at

(* A boundary in the part is one in the whole (is_boundary). *)
LEMMA WithinBoundary ==
  ASSUME NEW t, NEW u, NEW d, IsText(t), IsText(u), Within(t, u, d),
         NEW i \in DOMAIN t, is_boundary(t, i)
  PROVE  is_boundary(u, i + d)
<1>1. /\ Len(t) \in Nat /\ Len(u) \in Nat /\ d \in Nat /\ Len(t) + d <= Len(u)
      /\ \A k \in DOMAIN t : k \in Int /\ 1 <= k /\ k <= Len(t)
      /\ \A k \in Int : 1 <= k /\ k <= Len(t) => k \in DOMAIN t
      /\ \A k \in Int : 1 <= k /\ k <= Len(u) => k \in DOMAIN u
  BY WithinNumbers
<1>2. CASE i = 1
  <2>1. (i + d) - 1 = d /\ (d # 0 => d \in DOMAIN u)
    BY <1>1, <1>2
  <2>2. d \in DOMAIN u => u[d] \in Clear
    BY TextFacts DEF Within
  <2>3. QED
    <3>1. d = 0 => i + d = 1
      BY <1>1, <1>2
    <3>2. d # 0 => ~(Alphanumeric(u[(i + d) - 1]) \/ u[(i + d) - 1] = "underscore")
      BY <2>1, <2>2, ClearIsNoWord
    <3>3. QED
      BY <3>1, <3>2 DEF is_boundary
<1>3. CASE i # 1
  <2>1. i - 1 \in DOMAIN t /\ i - 1 + d = (i + d) - 1
    BY <1>1, <1>3
  <2>2. u[(i + d) - 1] = t[i - 1]
    BY <2>1, WithinFacts
  <2>3. QED
    BY <1>3, <2>2 DEF is_boundary
<1>4. QED
  BY <1>2, <1>3

(* A part of a sequence, position by position. *)
LEMMA SubSeqAt ==
  ASSUME NEW S, NEW t \in Seq(S), NEW a \in Nat, NEW n \in Nat, a >= 1, a <= n, n <= Len(t)
  PROVE  /\ SubSeq(t, a, n) \in Seq(S) /\ Len(SubSeq(t, a, n)) = (n - a) + 1
         /\ \A k \in 1..((n - a) + 1) : SubSeq(t, a, n)[k] = t[(a + k) - 1]
OBVIOUS

(* The boundary inside of a span, read in the text. *)
LEMMA SpanBoundary ==
  ASSUME NEW t, IsText(t), NEW i \in DOMAIN t, NEW j \in DOMAIN t, i < j
  PROVE  is_boundary(SubSeq(t, i + 1, j), j - i)
           <=> j = i + 1 \/ ~(Alphanumeric(t[j - 1]) \/ t[j - 1] = "underscore")
<1>1. PICK S : t \in Seq(S)
  BY DEF IsText
<1>2. i \in Int /\ j \in Int /\ 1 <= i /\ j <= Len(t) /\ Len(t) \in Nat
  BY <1>1
<1>3. CASE j = i + 1
  <2>1. j - i = 1
    BY <1>2, <1>3
  <2>2. QED
    BY <1>3, <2>1 DEF is_boundary
<1>4. CASE j # i + 1
  <2> DEFINE k == (j - i) - 1
  <2>1. k \in Int /\ 1 <= k /\ k <= (j - (i + 1)) + 1 /\ ((i + 1) + k) - 1 = j - 1 /\ j - i # 1
    BY <1>2, <1>4
  <2>2. k \in 1..((j - (i + 1)) + 1)
    BY <2>1, <1>2
  <2>3. i + 1 \in Nat /\ i + 1 >= 1 /\ i + 1 <= j /\ j \in Nat
    BY <1>2
  <2> HIDE DEF k
  <2>4. SubSeq(t, i + 1, j)[k] = t[((i + 1) + k) - 1]
    <3> DEFINE first == i + 1
    <3>1. first \in Nat /\ first >= 1 /\ first <= j /\ j \in Nat /\ j <= Len(t)
      BY <1>1, <1>2, <2>3
    <3> HIDE DEF first
    <3>2. \A l \in 1..((j - first) + 1) : SubSeq(t, first, j)[l] = t[(first + l) - 1]
      BY <1>1, <3>1, SubSeqAt
    <3>3. QED
      BY <2>2, <3>2 DEF first
  <2>5. QED
    BY <1>4, <2>1, <2>4 DEF is_boundary, k
<1>5. QED
  BY <1>3, <1>4

(* A command in a code span of the part is in one of the whole. *)
LEMMA WithinSpan ==
  ASSUME NEW t, NEW u, NEW d, IsText(t), IsText(u), Within(t, u, d),
         NEW binaries, code_span_invocation(t, binaries)
  PROVE  code_span_invocation(u, binaries)
<1>1. PICK i, j \in DOMAIN t :
        /\ i < j /\ t[i] = "tick" /\ \A k \in (i + 1)..j : t[k] # "tick"
        /\ t[j] \in binaries /\ At(t, j + 1) = "space"
        /\ is_boundary(SubSeq(t, i + 1, j), j - i)
  BY DEF code_span_invocation
<1>2. /\ Len(t) \in Nat /\ Len(u) \in Nat /\ d \in Nat /\ Len(t) + d <= Len(u)
      /\ \A k \in DOMAIN t : k \in Int /\ 1 <= k /\ k <= Len(t)
      /\ \A k \in Int : 1 <= k /\ k <= Len(t) => k \in DOMAIN t
      /\ \A k \in Int : 1 <= k /\ k <= Len(u) => k \in DOMAIN u
  BY WithinNumbers
<1>c. /\ i \in DOMAIN t /\ j \in DOMAIN t /\ i < j /\ t[i] = "tick" /\ t[j] \in binaries
      /\ At(t, j + 1) = "space"
  BY <1>1
<1>a. /\ i \in Int /\ j \in Int /\ d \in Int /\ 1 <= i /\ i < j /\ j <= Len(t)
  <2>1. i \in Int /\ 1 <= i
    BY <1>2, <1>c
  <2>2. j \in Int /\ j <= Len(t)
    BY <1>2, <1>c
  <2>3. d \in Int
    BY <1>2
  <2>4. QED
    BY <1>c, <2>1, <2>2, <2>3
<1>b. i + d < j + d /\ (j + d) - (i + d) = j - i
  BY <1>a
<1>3. /\ i + d \in DOMAIN u /\ u[i + d] = "tick"
      /\ j + d \in DOMAIN u /\ u[j + d] \in binaries
  <2>1. i + d \in DOMAIN u /\ u[i + d] = t[i]
    BY <1>c, WithinFacts
  <2>2. j + d \in DOMAIN u /\ u[j + d] = t[j]
    BY <1>c, WithinFacts
  <2>3. QED
    BY <1>c, <2>1, <2>2
<1>4. ASSUME NEW k \in (i + d + 1)..(j + d)
      PROVE  u[k] # "tick"
  <2>1. k - d \in (i + 1)..j /\ k - d \in DOMAIN t /\ k - d + d = k
    BY <1>2, <1>a
  <2>2. u[k] = t[k - d]
    BY <2>1, WithinFacts
  <2>3. QED
    BY <1>1, <2>1, <2>2
<1>5. At(u, j + d + 1) = "space"
  <2>1. j + 1 \in DOMAIN t
    <3>1. j + 1 \in Int /\ (j + 1 \notin DOMAIN t => At(t, j + 1) = Nothing)
      BY <1>a, TextFacts
    <3>2. QED
      BY <1>c, <3>1 DEF Nothing
  <2>2. u[j + 1 + d] = t[j + 1] /\ j + 1 + d \in DOMAIN u /\ j + 1 + d = j + d + 1
    BY <1>2, <2>1, WithinFacts
  <2>3. t[j + 1] = "space"
    BY <1>c, <2>1, TextFacts
  <2>4. QED
    BY <2>2, <2>3, TextFacts
<1>6. is_boundary(SubSeq(u, i + d + 1, j + d), (j + d) - (i + d))
  <2>1. j = i + 1 \/ ~(Alphanumeric(t[j - 1]) \/ t[j - 1] = "underscore")
    BY <1>1, SpanBoundary
  <2>2. CASE j = i + 1
    <3>1. j + d = i + d + 1
      BY <1>2, <2>2
    <3>2. QED
      BY <1>3, <1>b, <3>1, SpanBoundary
  <2>3. CASE j # i + 1
    <3>1. j - 1 \in DOMAIN t /\ j - 1 + d = (j + d) - 1
      BY <1>2, <1>a, <2>3
    <3>2. u[(j + d) - 1] = t[j - 1]
      BY <3>1, WithinFacts
    <3>3. QED
      BY <1>3, <1>b, <2>1, <2>3, <3>2, SpanBoundary
  <2>4. QED
    BY <2>2, <2>3
<1>7. QED
  BY <1>3, <1>b, <1>4, <1>5, <1>6 DEF code_span_invocation

(* What a release is compared to: nothing but blanks in between. *)
LEMMA BlanksBetween ==
  ASSUME NEW t, IsText(t), NEW a \in Int, NEW n \in Int, 1 <= a, n <= Len(t)
  PROVE  Blanks(SubSeq(t, a, n - 1)) <=> \A k \in a..(n - 1) : t[k] = "space"
<1>1. PICK S : t \in Seq(S)
  BY DEF IsText
<1> DEFINE s == SubSeq(t, a, n - 1)
<1>2. CASE a > n - 1
  <2>1. s = << >>
    BY <1>1, <1>2
  <2>2. DOMAIN s = {} /\ a..(n - 1) = {}
    BY <1>2, <2>1
  <2>3. QED
    BY <2>2 DEF Blanks
<1>3. CASE a <= n - 1
  <2>1. /\ DOMAIN s = 1..(n - a)
        /\ \A k \in 1..(n - a) : s[k] = t[(a + k) - 1]
    <3>1. a \in Nat /\ a >= 1 /\ n - 1 \in Nat /\ n - 1 <= Len(t) /\ ((n - 1) - a) + 1 = n - a
      BY <1>1, <1>3
    <3>2. s \in Seq(S) /\ Len(s) = n - a
      BY <1>1, <1>3, <3>1, SubSeqAt
    <3>3. QED
      BY <1>1, <1>3, <3>1, <3>2, SubSeqAt
  <2>2. \A k \in a..(n - 1) : (k - a) + 1 \in 1..(n - a) /\ (a + ((k - a) + 1)) - 1 = k
    OBVIOUS
  <2>3. \A k \in 1..(n - a) : (a + k) - 1 \in a..(n - 1)
    OBVIOUS
  <2> HIDE DEF s
  <2>4. QED
    BY <2>1, <2>2, <2>3 DEF Blanks, s
<1>4. a > n - 1 \/ a <= n - 1
  OBVIOUS
<1>5. QED
  BY <1>2, <1>3, <1>4, Zenon

(* Where a dotted number stands, and the places around it. *)
LEMMA WithinAt ==
  ASSUME NEW t, NEW u, NEW d, IsText(t), IsText(u), Within(t, u, d), NEW i \in Int,
         0 <= i, i <= Len(t) + 1
  PROVE  /\ At(t, i) # Nothing => At(u, i + d) = At(t, i)
         /\ At(t, i) = Nothing => At(u, i + d) \in Clear
<1>1. /\ Len(t) \in Nat /\ d \in Nat
      /\ \A k \in Int : 1 <= k /\ k <= Len(t) => k \in DOMAIN t
  BY WithinNumbers
<1>2. CASE i \in DOMAIN t
  BY <1>2, WithinFacts, TextFacts
<1>3. CASE i \notin DOMAIN t
  <2>1. i = 0 \/ i = Len(t) + 1
    BY <1>1, <1>3
  <2>2. At(t, i) = Nothing
    BY <1>3 DEF At
  <2>3. d + Len(t) + 1 = Len(t) + 1 + d /\ 0 + d = d
    BY <1>1
  <2>4. At(u, i + d) \in Clear
    BY <2>1, <2>3 DEF Within
  <2>5. QED
    BY <2>2, <2>4
<1>4. QED
  BY <1>2, <1>3

(* A dotted number takes up as many positions as it is long. *)
LEMMA DottedSpans ==
  ASSUME NEW t, NEW i \in Int, NEW n \in {2, 3}, dotted(t, i, n)
  PROVE  /\ i \in DOMAIN t /\ t[i] = "9" /\ i + 1 \in DOMAIN t /\ t[i + 1] = "."
         /\ i + 2 \in DOMAIN t /\ t[i + 2] = "9"
         /\ n = 3 => /\ i + 3 \in DOMAIN t /\ t[i + 3] = "."
                     /\ i + 4 \in DOMAIN t /\ t[i + 4] = "9"
<1>1. CASE n = 2
  <2>1. MatchesAt(t, i, <<"9", ".", "9">>)
    BY <1>1 DEF dotted
  <2>2. /\ (i + 1) - 1 = i /\ (i + 2) - 1 = i + 1 /\ (i + 3) - 1 = i + 2
        /\ {1, 2, 3} \subseteq DOMAIN <<"9", ".", "9">>
    OBVIOUS
  <2>3. QED
    BY <1>1, <2>1, <2>2 DEF MatchesAt
<1>2. CASE n = 3
  <2>1. MatchesAt(t, i, <<"9", ".", "9", ".", "9">>)
    BY <1>2 DEF dotted
  <2>2. /\ (i + 1) - 1 = i /\ (i + 2) - 1 = i + 1 /\ (i + 3) - 1 = i + 2
        /\ (i + 4) - 1 = i + 3 /\ (i + 5) - 1 = i + 4
        /\ {1, 2, 3, 4, 5} \subseteq DOMAIN <<"9", ".", "9", ".", "9">>
    OBVIOUS
  <2>3. QED
    BY <1>2, <2>1, <2>2 DEF MatchesAt
<1>3. QED
  BY <1>1, <1>2

(* A dotted number in the part is one in the whole (dotted). *)
LEMMA WithinDotted ==
  ASSUME NEW t, NEW u, NEW d, IsText(t), IsText(u), Within(t, u, d),
         NEW i \in Int, NEW n \in {2, 3}, dotted(t, i, n)
  PROVE  dotted(u, i + d, n)
<1>1. DOMAIN <<"9", ".", "9">> \subseteq Int /\ DOMAIN <<"9", ".", "9", ".", "9">> \subseteq Int
  OBVIOUS
<1>2. QED
  BY <1>1, WithinMatches DEF dotted

(* A release named in the part is named in the whole (version_literal). *)
LEMMA WithinVersion ==
  ASSUME NEW t, NEW u, NEW d, IsText(t), IsText(u), Within(t, u, d), version_literal(t)
  PROVE  version_literal(u)
<1>1. /\ Len(t) \in Nat /\ Len(u) \in Nat /\ d \in Nat /\ Len(t) + d <= Len(u)
      /\ \A k \in DOMAIN t : k \in Int /\ 1 <= k /\ k <= Len(t)
      /\ \A k \in Int : 1 <= k /\ k <= Len(t) => k \in DOMAIN t
      /\ \A k \in Int : 1 <= k /\ k <= Len(u) => k \in DOMAIN u
  BY WithinNumbers
<1>2. Len(t) \in Int /\ d \in Int
  BY <1>1
<1>3. PICK i \in DOMAIN t : bare(t, i) \/ marked(t, i) \/ compared(t, i)
  BY DEF version_literal
<1>4. /\ i \in Int /\ i + 1 + d = i + d + 1 /\ i + 2 + d = i + d + 2 /\ i + 4 + d = i + d + 4
      /\ 1 <= i /\ i <= Len(t)
  BY <1>1
<1>5. i + d \in DOMAIN u /\ u[i + d] = t[i]
  BY WithinFacts
<1>6. CASE bare(t, i)
  <2>1. is_boundary(u, i + d)
    BY <1>6, WithinBoundary DEF bare
  <2>2. CASE t[i] = "v"
    <3>1. dotted(t, i + 1, 3) /\ i + 1 \in Int /\ 3 \in {2, 3}
      BY <1>4, <1>6, <2>2 DEF bare
    <3>2. dotted(u, i + 1 + d, 3)
      BY <3>1, WithinDotted
    <3>3. dotted(u, i + d + 1, 3)
      BY <1>4, <3>2
    <3>4. QED
      BY <1>5, <2>1, <2>2, <3>3 DEF bare, version_literal
  <2>3. CASE t[i] # "v"
    <3>1. dotted(u, i + d, 3)
      BY <1>4, <1>6, <2>3, WithinDotted DEF bare
    <3>2. QED
      BY <1>5, <2>1, <2>3, <3>1 DEF bare, version_literal
  <2>4. QED
    BY <2>2, <2>3
<1>7. CASE marked(t, i)
  <2>1. is_boundary(u, i + d)
    BY <1>7, WithinBoundary DEF marked
  <2>2. dotted(t, i + 1, 2) /\ At(t, i + 4) # "." /\ t[i] = "v"
    BY <1>7 DEF marked
  <2>3. dotted(u, i + 1 + d, 2)
    BY <1>4, <2>2, WithinDotted
  <2>4. i + 1 + 2 \in DOMAIN t
    <3>1. i + 1 \in Int /\ 2 \in {2, 3}
      BY <1>4
    <3>2. QED
      BY <2>2, <3>1, DottedSpans
  <2>5. i + 4 \in Int /\ 0 <= i + 4 /\ i + 4 <= Len(t) + 1
    <3>1. i + 1 + 2 <= Len(t)
      BY <1>1, <2>4
    <3>2. QED
      BY <1>2, <1>4, <3>1, SMTT(60)
  <2>6. At(u, i + 4 + d) = At(t, i + 4) \/ At(u, i + 4 + d) \in Clear
    BY <2>5, WithinAt
  <2>7. At(u, i + d + 4) # "."
    BY <1>4, <2>2, <2>6, ClearIsNoWord
  <2>8. dotted(u, i + d + 1, 2)
    BY <1>4, <2>3
  <2>9. QED
    BY <1>5, <2>1, <2>2, <2>7, <2>8 DEF marked, version_literal
<1>8. CASE compared(t, i)
  <2> DEFINE a == operand(t, i)
  <2>1. PICK n \in a..Len(t) : Blanks(SubSeq(t, a, n - 1)) /\ dotted(t, n, 2)
    BY <1>8 DEF compared
  <2>2. a \in Int /\ 1 <= a /\ i < a
    BY <1>4 DEF operand
  <2>3. n \in Int /\ a <= n /\ n <= Len(t)
    BY <1>1, <2>1, <2>2
  <2>4. a + d = operand(u, i + d)
    <3>1. i + 1 \in Int /\ 1 <= i + 1 /\ 0 <= i + 1 /\ i + 1 <= Len(t) /\ i + 1 <= Len(t) + 1
      <4>1. i \in Int /\ 1 <= i
        BY <1>4
      <4>2. i < Len(t)
        BY <1>2, <4>1, <2>2, <2>3
      <4>3. QED
        BY <1>2, <4>1, <4>2
    <3>2. i + 1 \in DOMAIN t
      BY <1>1, <3>1
    <3>3. At(t, i + 1) # Nothing
      BY <3>2, TextFacts
    <3>4. At(u, i + 1 + d) = At(t, i + 1)
      BY <3>1, <3>3, WithinAt
    <3>5. At(u, i + d + 1) = At(t, i + 1)
      BY <1>4, <3>4
    <3>6. QED
      BY <1>4, <3>5 DEF operand
  <2> HIDE DEF a
  <2>5. \A k \in a..(n - 1) : t[k] = "space"
    BY <2>1, <2>2, <2>3, BlanksBetween
  <2>6. ASSUME NEW k \in (a + d)..((n + d) - 1)
        PROVE  u[k] = "space"
    <3>1. k \in Int /\ a <= k - d /\ k - d <= n - 1 /\ (k - d) + d = k /\ k - d \in Int
      BY <1>1, <2>2, <2>3, <2>6
    <3>2. k - d \in a..(n - 1)
      BY <2>2, <2>3, <3>1
    <3>3. 1 <= k - d /\ k - d <= Len(t)
      BY <1>1, <2>2, <2>3, <3>1
    <3>4. k - d \in DOMAIN t
      BY <1>1, <3>1, <3>3
    <3>5. u[(k - d) + d] = t[k - d]
      BY <3>4, WithinFacts
    <3>6. QED
      BY <2>5, <3>1, <3>2, <3>5
  <2>7. a + d \in Int /\ n + d \in Int /\ 1 <= a + d /\ n + d <= Len(u) /\ a + d <= n + d
    BY <1>1, <2>2, <2>3
  <2>8. Blanks(SubSeq(u, a + d, (n + d) - 1))
    BY <2>6, <2>7, BlanksBetween
  <2>9. dotted(u, n + d, 2)
    BY <2>1, <2>3, WithinDotted
  <2>10. n + d \in (a + d)..Len(u)
    BY <1>1, <2>7
  <2>11. u[i + d] \in Comparators
    BY <1>5, <1>8 DEF compared
  <2>12. compared(u, i + d)
    BY <2>4, <2>8, <2>9, <2>10, <2>11 DEF compared
  <2>13. QED
    BY <1>5, <2>12 DEF version_literal
<1>9. QED
  BY <1>3, <1>6, <1>7, <1>8

(* A phrase that is found ends within the text. *)
LEMMA MatchSpans ==
  ASSUME NEW t, NEW u, NEW d, IsText(t), IsText(u), Within(t, u, d)
  PROVE  /\ \A i \in DOMAIN t : i \in Int /\ i + d \in DOMAIN u
         /\ \A i \in DOMAIN t : u[i + d] = t[i]
BY TextFacts, WithinFacts

(* A phrase about what comes after the run begins with one of these words. *)
LEMMA DispatchPhrase ==
  ASSUME NEW p \in OUT_OF_DISPATCH
  PROVE  /\ DOMAIN p \subseteq Int /\ 1 \in DOMAIN p
         /\ p[1] \in {"branch", "is", "pr", "pull", "lands", "deploy"}
<1> DEFINE Good(q) == /\ DOMAIN q \subseteq Int /\ 1 \in DOMAIN q
                      /\ q[1] \in {"branch", "is", "pr", "pull", "lands", "deploy"}
<1>1. Good(<<"branch", "space", "publishes">>) /\ Good(<<"is", "space", "published">>)
  OBVIOUS
<1>2. Good(<<"pr", "space", "is", "space", "merged">>)
  OBVIOUS
<1>3. Good(<<"pull", "space", "request", "space", "is", "space", "merged">>)
  OBVIOUS
<1>4. Good(<<"lands", "space", "on", "space", "master">>) /\ Good(<<"lands", "space", "on", "space", "main">>)
  OBVIOUS
<1>5. Good(<<"deploy">>)
  OBVIOUS
<1> HIDE DEF Good
<1>6. Good(p)
  BY <1>1, <1>2, <1>3, <1>4, <1>5, Zenon DEF OUT_OF_DISPATCH
<1>7. QED
  BY <1>6 DEF Good

(* A criterion that is refused is refused in a sentence too. *)
LEMMA RefusedWithin ==
  ASSUME NEW t, NEW u, NEW d, IsText(t), IsText(u), Within(t, u, d),
         t # << >>, refusal(t) # "none"
  PROVE  refusal(u) # "none"
<1>1. \/ out_of_dispatch(t) \/ deferral(t) \/ phrase(t) \/ version_literal(t)
      \/ code_span_invocation(t, {"just"}) \/ (\E i \in DOMAIN t : t[i] = "&&")
      \/ code_span_invocation(t, SHELL_BINARIES)
  BY DEF refusal
<1>2. SUFFICES ASSUME refusal(u) = "none"
               PROVE  FALSE
  OBVIOUS
<1>3. /\ ~out_of_dispatch(u) /\ ~deferral(u) /\ ~phrase(u) /\ ~version_literal(u)
      /\ ~code_span_invocation(u, {"just"}) /\ ~(\E i \in DOMAIN u : u[i] = "&&")
      /\ ~code_span_invocation(u, SHELL_BINARIES)
  BY <1>2 DEF refusal
<1>4. CASE out_of_dispatch(t)
  <2>1. PICK p \in OUT_OF_DISPATCH, i \in DOMAIN t : MatchesAt(t, i, p)
    BY <1>4 DEF out_of_dispatch
  <2>2. DOMAIN p \subseteq Int /\ 1 \in DOMAIN p
    BY <2>1, DispatchPhrase
  <2>3. i \in Int /\ i + d \in DOMAIN u
    BY MatchSpans
  <2>4. MatchesAt(u, i + d, p)
    BY <2>1, <2>2, <2>3, WithinMatches
  <2>5. QED
    BY <1>3, <2>1, <2>3, <2>4 DEF out_of_dispatch
<1>5. CASE deferral(t)
  BY <1>3, <1>5, WithinSequence DEF deferral
<1>6. CASE phrase(t)
  BY <1>3, <1>6, WithinSequence DEF phrase
<1>7. CASE version_literal(t)
  BY <1>3, <1>7, WithinVersion
<1>8. CASE code_span_invocation(t, {"just"})
  BY <1>3, <1>8, WithinSpan
<1>9. CASE \E i \in DOMAIN t : t[i] = "&&"
  BY <1>3, <1>9, MatchSpans
<1>10. CASE code_span_invocation(t, SHELL_BINARIES)
  BY <1>3, <1>10, WithinSpan
<1>11. QED
  BY <1>1, <1>4, <1>5, <1>6, <1>7, <1>8, <1>9, <1>10

-----------------------------------------------------------------------------
(* Every demand is refused by itself. *)

(* A number of two or three parts, found at its own start. *)
LEMMA DottedHere ==
  ASSUME NEW t, NEW i \in Int,
         i \in DOMAIN t, t[i] = "9", i + 1 \in DOMAIN t, t[i + 1] = ".",
         i + 2 \in DOMAIN t, t[i + 2] = "9"
  PROVE  /\ dotted(t, i, 2)
         /\ i + 3 \in DOMAIN t /\ t[i + 3] = "." /\ i + 4 \in DOMAIN t /\ t[i + 4] = "9"
              => dotted(t, i, 3)
<1>1. /\ (i + 1) - 1 = i /\ (i + 2) - 1 = i + 1 /\ (i + 3) - 1 = i + 2
      /\ (i + 4) - 1 = i + 3 /\ (i + 5) - 1 = i + 4
  OBVIOUS
<1>2. MatchesAt(t, i, <<"9", ".", "9">>)
  <2> DEFINE p == <<"9", ".", "9">>
  <2>1. DOMAIN p = {1, 2, 3} /\ p[1] = "9" /\ p[2] = "." /\ p[3] = "9"
    OBVIOUS
  <2> HIDE DEF p
  <2>2. MatchesAt(t, i, p)
    BY <1>1, <2>1 DEF MatchesAt
  <2>3. QED
    BY <2>2 DEF p
<1>3. ASSUME i + 3 \in DOMAIN t, t[i + 3] = ".", i + 4 \in DOMAIN t, t[i + 4] = "9"
      PROVE  MatchesAt(t, i, <<"9", ".", "9", ".", "9">>)
  <2> DEFINE p == <<"9", ".", "9", ".", "9">>
  <2>1. /\ DOMAIN p = {1, 2, 3, 4, 5} /\ p[1] = "9" /\ p[2] = "." /\ p[3] = "9" /\ p[4] = "."
        /\ p[5] = "9"
    OBVIOUS
  <2> HIDE DEF p
  <2>2. MatchesAt(t, i, p)
    BY <1>1, <1>3, <2>1 DEF MatchesAt
  <2>3. QED
    BY <2>2 DEF p
<1>4. QED
  BY <1>2, <1>3 DEF dotted

(* A release by its number is one that version_literal sees. *)
LEMMA ReleaseIsVersion ==
  /\ version_literal(<<"v", "9", ".", "9">>)
  /\ version_literal(<<"9", ".", "9", ".", "9">>)
  /\ version_literal(<<"v", "9", ".", "9", ".", "9">>)
<1>1. version_literal(<<"v", "9", ".", "9">>)
  <2> DEFINE t == <<"v", "9", ".", "9">>
  <2>1. /\ DOMAIN t = {1, 2, 3, 4}
        /\ t[1] = "v" /\ t[2] = "9" /\ t[3] = "." /\ t[4] = "9"
    OBVIOUS
  <2> HIDE DEF t
  <2>2. dotted(t, 1 + 1, 2)
    BY <2>1, DottedHere
  <2>3. At(t, 1 + 4) # "."
    BY <2>1 DEF At, Nothing
  <2>4. marked(t, 1)
    BY <2>1, <2>2, <2>3 DEF marked, is_boundary
  <2>5. version_literal(t)
    BY <2>1, <2>4 DEF version_literal
  <2>6. QED
    BY <2>5 DEF t
<1>2. version_literal(<<"9", ".", "9", ".", "9">>)
  <2> DEFINE t == <<"9", ".", "9", ".", "9">>
  <2>1. /\ DOMAIN t = {1, 2, 3, 4, 5}
        /\ t[1] = "9" /\ t[2] = "." /\ t[3] = "9" /\ t[4] = "." /\ t[5] = "9"
    OBVIOUS
  <2> HIDE DEF t
  <2>2. dotted(t, 1, 3)
    BY <2>1, DottedHere
  <2>3. bare(t, 1)
    BY <2>1, <2>2 DEF bare, is_boundary
  <2>4. version_literal(t)
    BY <2>1, <2>3 DEF version_literal
  <2>5. QED
    BY <2>4 DEF t
<1>3. version_literal(<<"v", "9", ".", "9", ".", "9">>)
  <2> DEFINE t == <<"v", "9", ".", "9", ".", "9">>
  <2>1. /\ DOMAIN t = {1, 2, 3, 4, 5, 6}
        /\ t[1] = "v" /\ t[2] = "9" /\ t[3] = "." /\ t[4] = "9" /\ t[5] = "." /\ t[6] = "9"
    OBVIOUS
  <2> HIDE DEF t
  <2>2. dotted(t, 1 + 1, 3)
    BY <2>1, DottedHere
  <2>3. bare(t, 1)
    BY <2>1, <2>2 DEF bare, is_boundary
  <2>4. version_literal(t)
    BY <2>1, <2>3 DEF version_literal
  <2>5. QED
    BY <2>4 DEF t
<1>4. QED
  BY <1>1, <1>2, <1>3

(* A comparator, perhaps "=", perhaps blanks, and two numbers. *)
LEMMA ComparisonParts ==
  ASSUME NEW c \in Comparators, NEW s \in Seq({"=", "space"}),
         NEW t, t = Comparison(c, s)
  PROVE  /\ IsText(t) /\ Len(s) \in Nat /\ DOMAIN s = 1..Len(s)
         /\ Len(t) = Len(s) + 4 /\ DOMAIN t = 1..(Len(s) + 4)
         /\ t[1] = c /\ \A k \in DOMAIN s : t[k + 1] = s[k]
         /\ t[Len(s) + 2] = "9" /\ t[Len(s) + 3] = "." /\ t[Len(s) + 4] = "9"
<1> DEFINE S == Comparators \cup {"space", "9", "."}
           x == <<c>> \o s
           y == <<"9", ".", "9">>
           n == Len(s) + 2
<1>1. /\ Nothing \notin S /\ c \in S /\ <<c>> \in Seq(S) /\ s \in Seq(S) /\ y \in Seq(S)
  <2>1. Nothing \notin S /\ c \in S /\ {"=", "space"} \subseteq S /\ "9" \in S /\ "." \in S
    BY DEF Comparators, Nothing
  <2> HIDE DEF S
  <2>2. <<c>> \in Seq(S)
    BY <2>1
  <2>3. s \in Seq(S)
    BY <2>1
  <2>4. y \in Seq(S)
    BY <2>1
  <2>5. QED
    BY <2>1, <2>2, <2>3, <2>4
<1>2. /\ Len(<<c>>) = 1 /\ <<c>>[1] = c
      /\ Len(y) = 3 /\ y[1] = "9" /\ y[2] = "." /\ y[3] = "9"
      /\ Len(s) \in Nat /\ DOMAIN s = 1..Len(s)
  <2>1. Len(<<c>>) = 1 /\ <<c>>[1] = c
    OBVIOUS
  <2>2. Len(y) = 3 /\ y[1] = "9" /\ y[2] = "." /\ y[3] = "9"
    OBVIOUS
  <2>3. Len(s) \in Nat /\ DOMAIN s = 1..Len(s)
    OBVIOUS
  <2>4. QED
    BY <2>1, <2>2, <2>3
<1> HIDE DEF S, y
<1>3. /\ x \in Seq(S) /\ Len(x) = 1 + Len(s)
      /\ \A i \in 1..(1 + Len(s)) : x[i] = IF i <= 1 THEN <<c>>[i] ELSE s[i - 1]
  BY <1>1, <1>2, ConcatProperties
<1> HIDE DEF x
<1>4. /\ t \in Seq(S) /\ Len(t) = (1 + Len(s)) + 3
      /\ \A i \in 1..((1 + Len(s)) + 3) : t[i] = IF i <= 1 + Len(s) THEN x[i] ELSE y[i - (1 + Len(s))]
  <2>1. /\ x \o y \in Seq(S) /\ Len(x \o y) = Len(x) + Len(y)
        /\ \A i \in 1..(Len(x) + Len(y)) :
             (x \o y)[i] = IF i <= Len(x) THEN x[i] ELSE y[i - Len(x)]
    BY <1>1, <1>3, ConcatProperties
  <2>2. t = x \o y
    BY Zenon DEF x, y, Comparison
  <2>3. QED
    BY <1>2, <1>3, <2>1, <2>2
<1>5. DOMAIN t = 1..((1 + Len(s)) + 3)
  BY <1>4
<1>6. t[1] = c /\ \A k \in DOMAIN s : t[k + 1] = s[k]
  <2>1. 1 \in 1..((1 + Len(s)) + 3) /\ 1 \in 1..(1 + Len(s)) /\ 1 <= 1 + Len(s)
    BY <1>2
  <2>2. ASSUME NEW k \in DOMAIN s
        PROVE  t[k + 1] = s[k]
    <3>1. /\ k + 1 \in 1..((1 + Len(s)) + 3) /\ k + 1 \in 1..(1 + Len(s)) /\ k + 1 <= 1 + Len(s)
          /\ ~(k + 1 <= 1) /\ (k + 1) - 1 = k
      BY <1>2
    <3>2. QED
      BY <1>3, <1>4, <3>1
  <2>3. QED
    BY <1>2, <1>3, <1>4, <2>1, <2>2
<1>7. n \in Int /\ n \in DOMAIN t /\ n + 1 \in DOMAIN t /\ n + 2 \in DOMAIN t
  BY <1>2, <1>5
<1>8. t[n] = "9" /\ t[n + 1] = "." /\ t[n + 2] = "9"
  <2>1. /\ n - (1 + Len(s)) = 1 /\ (n + 1) - (1 + Len(s)) = 2 /\ (n + 2) - (1 + Len(s)) = 3
        /\ ~(n <= 1 + Len(s)) /\ ~(n + 1 <= 1 + Len(s)) /\ ~(n + 2 <= 1 + Len(s))
    BY <1>2
  <2> HIDE DEF n
  <2>2. QED
    BY <1>2, <1>4, <1>5, <1>7, <2>1
<1>9. n + 1 = Len(s) + 3 /\ n + 2 = Len(s) + 4 /\ (1 + Len(s)) + 3 = Len(s) + 4
  BY <1>2
<1>10. IsText(t)
  BY <1>1, <1>4 DEF IsText
<1>11. QED
  BY <1>2, <1>4, <1>5, <1>6, <1>8, <1>9, <1>10

(* A comparison, position by position. *)
LEMMA ComparisonHere ==
  ASSUME NEW c \in Comparators, NEW s \in Seq({"=", "space"}),
         \A k \in DOMAIN s : k = 1 \/ s[k] = "space",
         NEW t, t = Comparison(c, s)
  PROVE  version_literal(t)
<1> DEFINE n == Len(s) + 2
<1>1. /\ IsText(t) /\ Len(s) \in Nat /\ DOMAIN s = 1..Len(s)
      /\ Len(t) = Len(s) + 4 /\ DOMAIN t = 1..(Len(s) + 4)
      /\ t[1] = c /\ \A k \in DOMAIN s : t[k + 1] = s[k]
      /\ t[Len(s) + 2] = "9" /\ t[Len(s) + 3] = "." /\ t[Len(s) + 4] = "9"
  BY ComparisonParts
<1>2. Len(s) \in Nat /\ DOMAIN s = 1..Len(s) /\ Len(t) = Len(s) + 4
  BY <1>1
<1>5. DOMAIN t = 1..(Len(s) + 4)
  BY <1>1
<1>6. t[1] = c /\ \A k \in DOMAIN s : t[k + 1] = s[k]
  BY <1>1
<1>7. n \in Int /\ n \in DOMAIN t /\ n + 1 \in DOMAIN t /\ n + 2 \in DOMAIN t
  BY <1>2, <1>5
<1>8. t[n] = "9" /\ t[n + 1] = "." /\ t[n + 2] = "9"
  <2>1. n + 1 = Len(s) + 3 /\ n + 2 = Len(s) + 4
    BY <1>2
  <2>2. QED
    BY <1>1, <2>1
<1> HIDE DEF n
<1>9. dotted(t, n, 2)
  BY <1>7, <1>8, DottedHere
<1>10. /\ operand(t, 1) \in Int /\ 1 <= operand(t, 1) /\ operand(t, 1) <= n
       /\ \A k \in operand(t, 1)..(n - 1) : t[k] = "space"
  <2>1. CASE Len(s) = 0
    <3>1. n = 2 /\ At(t, 2) = "9"
      BY <1>7, <1>8, <2>1 DEF n, At
    <3>2. operand(t, 1) = 2
      BY <3>1 DEF operand
    <3>3. QED
      BY <3>1, <3>2
  <2>2. CASE Len(s) # 0
    <3>1. 1 \in DOMAIN s /\ 2 \in DOMAIN t /\ t[1 + 1] = s[1]
      BY <1>2, <1>5, <1>6, <2>2
    <3>2. At(t, 2) = s[1]
      BY <3>1 DEF At
    <3>3. operand(t, 1) = IF s[1] = "=" THEN 3 ELSE 2
      BY <3>2 DEF operand
    <3>4. n \in Int /\ 3 <= n
      BY <1>2, <2>2 DEF n
    <3>5. ASSUME NEW k \in operand(t, 1)..(n - 1)
          PROVE  t[k] = "space"
      <4>1. k \in Int /\ 2 <= k /\ k <= n - 1 /\ (s[1] = "=" => 3 <= k)
        BY <3>3, <3>4, <3>5
      <4>2. k - 1 \in DOMAIN s /\ (k - 1) + 1 = k
        BY <1>2, <4>1 DEF n
      <4>3. t[k] = s[k - 1]
        BY <1>6, <4>2
      <4>4. CASE k = 2
        BY <3>1, <4>1, <4>2, <4>3, <4>4
      <4>5. CASE k # 2
        BY <4>1, <4>2, <4>3, <4>5
      <4>6. QED
        BY <4>4, <4>5
    <3>6. QED
      BY <3>3, <3>4, <3>5
  <2>3. QED
    BY <2>1, <2>2
<1>11. 1 <= n /\ n <= Len(t) /\ 1 \in DOMAIN t
  BY <1>2, <1>5 DEF n
<1>12. Blanks(SubSeq(t, operand(t, 1), n - 1))
  BY <1>1, <1>7, <1>10, <1>11, BlanksBetween
<1>13. n \in operand(t, 1)..Len(t)
  BY <1>2, <1>7, <1>10, <1>11
<1>14. QED
  BY <1>6, <1>9, <1>11, <1>12, <1>13 DEF compared, version_literal

(* A comparison with a release is one that version_literal sees. *)
LEMMA ComparisonIsVersion ==
  ASSUME NEW c \in Comparators, NEW s \in {<< >>, <<"=">>, <<"space">>, <<"=", "space">>}
  PROVE  version_literal(Comparison(c, s))
<1> DEFINE Gap(g) == g \in Seq({"=", "space"}) /\ \A k \in DOMAIN g : k = 1 \/ g[k] = "space"
<1>1. Gap(<< >>) /\ Gap(<<"=">>) /\ Gap(<<"space">>) /\ Gap(<<"=", "space">>)
  OBVIOUS
<1> HIDE DEF Gap
<1>2. Gap(s)
  BY <1>1
<1>3. QED
  BY <1>2, ComparisonHere DEF Gap

(* A phrase of words found in itself. *)
LEMMA OneWordHere ==
  ASSUME NEW t, DOMAIN t = {1}, NEW w, t[1] = w, Alphanumeric(w)
  PROVE  sequence_at(t, <<w>>)
<1>1. At(t, 1 - 1) = Nothing /\ At(t, 1 + 1) = Nothing
  BY DEF At
<1>2. 1 \in words_of(t) /\ IsWord(t, 1, w)
  BY <1>1 DEF words_of, IsWord, Alphanumeric
<1>3. From(words_of(t), 1, 1) = {}
  BY DEF From, words_of
<1>4. Cardinality(From(words_of(t), 1, 1)) = 1 - 1
  BY <1>3, FS_EmptySet
<1>5. DOMAIN <<w>> = {1} /\ <<w>>[1] = w
  OBVIOUS
<1>6. QED
  BY <1>2, <1>4, <1>5 DEF sequence_at

(* Two or three words, with one token between each two, and their places. *)
LEMMA WordsApart ==
  ASSUME NEW t, NEW n \in {3, 5}, DOMAIN t = 1..n,
         \A i \in 1..n : Alphanumeric(t[i]) <=> i \in {1, 3, 5}
  PROVE  /\ words_of(t) = {i \in {1, 3, 5} : i <= n}
         /\ \A i \in words_of(t) : IsWord(t, i, t[i])
         /\ Cardinality(From(words_of(t), 1, 1)) = 0
         /\ Cardinality(From(words_of(t), 1, 3)) = 1
         /\ n = 5 => Cardinality(From(words_of(t), 1, 5)) = 2
<1>1. ASSUME NEW i \in Int
      PROVE  Alphanumeric(At(t, i)) <=> i \in 1..n /\ i \in {1, 3, 5}
  BY DEF At, Alphanumeric
<1>2. words_of(t) = {i \in {1, 3, 5} : i <= n}
  <2>1. ASSUME NEW i \in words_of(t)
        PROVE  i \in {1, 3, 5} /\ i <= n
    BY <2>1 DEF words_of
  <2>2. ASSUME NEW i \in {1, 3, 5}, i <= n
        PROVE  i \in words_of(t)
    <3>1. i \in Int /\ i - 1 \in Int /\ i \in 1..n /\ i - 1 \notin {1, 3, 5}
      BY <2>2
    <3>2. Alphanumeric(t[i]) /\ ~Alphanumeric(At(t, i - 1))
      BY <1>1, <2>2, <3>1
    <3>3. QED
      BY <3>1, <3>2 DEF words_of
  <2>3. QED
    BY <2>1, <2>2
<1>3. \A i \in words_of(t) : IsWord(t, i, t[i])
  <2>1. ASSUME NEW i \in words_of(t)
        PROVE  ~Alphanumeric(At(t, i + 1))
    <3>1. i + 1 \in Int /\ i + 1 \notin {1, 3, 5}
      BY <1>2, <2>1
    <3>2. QED
      BY <1>1, <3>1
  <2>2. QED
    BY <2>1 DEF IsWord
<1>4. From(words_of(t), 1, 1) = {} /\ From(words_of(t), 1, 3) = {1}
  BY <1>2 DEF From
<1>5. n = 5 => From(words_of(t), 1, 5) = {1, 3}
  BY <1>2 DEF From
<1>6. Cardinality({1}) = 1 /\ Cardinality({1, 3}) = 2
  <2>1. IsFiniteSet({1}) /\ Cardinality({1}) = 1
    BY FS_Singleton
  <2>2. {1} \cup {3} = {1, 3} /\ 3 \notin {1}
    OBVIOUS
  <2>3. Cardinality({1} \cup {3}) = Cardinality({1}) + 1
    BY <2>1, <2>2, FS_AddElement
  <2>4. 1 + 1 = 2
    OBVIOUS
  <2>5. QED
    BY <2>1, <2>2, <2>3, <2>4, Zenon
<1>7. QED
  BY <1>2, <1>3, <1>4, <1>5, <1>6, FS_EmptySet

(* A criterion that asks for a wording is refused (deferral, phrase). *)
LEMMA WordingIsRefused ==
  /\ deferral(<<"as", "space", "above">>)
  /\ deferral(<<"the", "space", "wording", "space", "above">>)
  /\ phrase(<<"verbatim">>)
<1>1. deferral(<<"as", "space", "above">>)
  <2> DEFINE t == <<"as", "space", "above">>
             p == <<"as">> \o <<"above">>
  <2>1. DOMAIN t = 1..3 /\ t[1] = "as" /\ t[2] = "space" /\ t[3] = "above"
    OBVIOUS
  <2>2. DOMAIN p = {1, 2} /\ p[1] = "as" /\ p[2] = "above"
    <3> DEFINE a == <<"as">>
               b == <<"above">>
               S == {"as", "above"}
    <3>1. /\ a \in Seq(S) /\ Len(a) = 1 /\ a[1] = "as"
          /\ b \in Seq(S) /\ Len(b) = 1 /\ b[1] = "above"
      OBVIOUS
    <3> HIDE DEF a, b
    <3>2. /\ a \o b \in Seq(S) /\ Len(a \o b) = 2
          /\ \A i \in 1..2 : (a \o b)[i] = IF i <= 1 THEN a[i] ELSE b[i - 1]
      <4>1. /\ a \o b \in Seq(S) /\ Len(a \o b) = Len(a) + Len(b)
            /\ \A i \in 1..(Len(a) + Len(b)) : (a \o b)[i] = IF i <= Len(a) THEN a[i] ELSE b[i - Len(a)]
        BY <3>1, ConcatProperties
      <4>2. QED
        BY <3>1, <4>1
    <3>3. DOMAIN (a \o b) = {1, 2}
      BY <3>2
    <3>4. QED
      BY <3>1, <3>2, <3>3 DEF a, b
  <2> HIDE DEF t, p
  <2>4. \A i \in 1..3 : Alphanumeric(t[i]) <=> i \in {1, 3, 5}
    BY <2>1 DEF Alphanumeric, Punctuation, Comparators, Nothing
  <2>5. /\ words_of(t) = {i \in {1, 3, 5} : i <= 3}
        /\ \A i \in words_of(t) : IsWord(t, i, t[i])
        /\ Cardinality(From(words_of(t), 1, 1)) = 0
        /\ Cardinality(From(words_of(t), 1, 3)) = 1
    BY <2>1, <2>4, WordsApart
  <2>6. sequence_at(t, p)
    <3>1. 1 \in words_of(t) /\ 3 \in words_of(t) /\ 1 - 1 = 0 /\ 2 - 1 = 1 /\ 1 <= 3
      BY <2>5
    <3>2. IsWord(t, 1, p[1]) /\ IsWord(t, 3, p[2])
      BY <2>1, <2>2, <2>5, <3>1
    <3>3. \A k \in DOMAIN p : \E i \in words_of(t) :
            /\ IsWord(t, i, p[k]) /\ 1 <= i /\ Cardinality(From(words_of(t), 1, i)) = k - 1
      BY <2>2, <2>5, <3>1, <3>2
    <3>4. QED
      BY <3>1, <3>3 DEF sequence_at
  <2>7. QED
    BY <2>6 DEF t, p, deferral, DEFERRAL_LEAD, DEFERRAL_TAIL
<1>2. deferral(<<"the", "space", "wording", "space", "above">>)
  <2> DEFINE t == <<"the", "space", "wording", "space", "above">>
             p == <<"the", "wording", "above">>
  <2>1. /\ DOMAIN t = 1..5 /\ t[1] = "the" /\ t[2] = "space" /\ t[3] = "wording"
        /\ t[4] = "space" /\ t[5] = "above"
    OBVIOUS
  <2>2. DOMAIN p = {1, 2, 3} /\ p[1] = "the" /\ p[2] = "wording" /\ p[3] = "above"
    OBVIOUS
  <2> HIDE DEF t, p
  <2>4. \A i \in 1..5 : Alphanumeric(t[i]) <=> i \in {1, 3, 5}
    BY <2>1 DEF Alphanumeric, Punctuation, Comparators, Nothing
  <2>5. /\ words_of(t) = {i \in {1, 3, 5} : i <= 5}
        /\ \A i \in words_of(t) : IsWord(t, i, t[i])
        /\ Cardinality(From(words_of(t), 1, 1)) = 0
        /\ Cardinality(From(words_of(t), 1, 3)) = 1
        /\ Cardinality(From(words_of(t), 1, 5)) = 2
    BY <2>1, <2>4, WordsApart
  <2>6. sequence_at(t, p)
    <3>1. /\ 1 \in words_of(t) /\ 3 \in words_of(t) /\ 5 \in words_of(t)
          /\ 1 - 1 = 0 /\ 2 - 1 = 1 /\ 3 - 1 = 2 /\ 1 <= 3 /\ 1 <= 5
      BY <2>5
    <3>2. IsWord(t, 1, p[1]) /\ IsWord(t, 3, p[2]) /\ IsWord(t, 5, p[3])
      BY <2>1, <2>2, <2>5, <3>1
    <3>3. \A k \in DOMAIN p : \E i \in words_of(t) :
            /\ IsWord(t, i, p[k]) /\ 1 <= i /\ Cardinality(From(words_of(t), 1, i)) = k - 1
      BY <2>2, <2>5, <3>1, <3>2
    <3>4. QED
      BY <3>1, <3>3 DEF sequence_at
  <2>7. QED
    BY <2>6 DEF t, p, deferral
<1>3. phrase(<<"verbatim">>)
  <2> DEFINE t == <<"verbatim">>
  <2>1. DOMAIN t = {1} /\ t[1] = "verbatim"
    OBVIOUS
  <2> HIDE DEF t
  <2>2. sequence_at(t, <<"verbatim">>)
    BY <2>1, OneWordHere DEF Alphanumeric, Punctuation, Comparators, Nothing
  <2>3. QED
    BY <2>2 DEF t, phrase, PHRASE
<1>4. QED
  BY <1>1, <1>2, <1>3

(* A criterion that names a command in a code span is refused. *)
LEMMA CommandIsRefused ==
  ASSUME NEW c, NEW binaries, c \in binaries, c # "tick"
  PROVE  code_span_invocation(<<"tick", c, "space", "work", "tick">>, binaries)
<1> DEFINE t == <<"tick", c, "space", "work", "tick">>
<1>1. DOMAIN t = 1..5 /\ t[1] = "tick" /\ t[2] = c /\ t[3] = "space"
  OBVIOUS
<1> HIDE DEF t
<1>2. 1 < 2 /\ (1 + 1)..2 = {2} /\ 2 + 1 = 3 /\ 2 - 1 = 1
  OBVIOUS
<1>3. is_boundary(SubSeq(t, 1 + 1, 2), 2 - 1)
  BY DEF is_boundary
<1>4. At(t, 2 + 1) = "space"
  BY <1>1 DEF At
<1>5. \E i, j \in DOMAIN t :
        /\ i < j /\ t[i] = "tick" /\ \A k \in (i + 1)..j : t[k] # "tick"
        /\ t[j] \in binaries /\ At(t, j + 1) = "space"
        /\ is_boundary(SubSeq(t, i + 1, j), j - i)
  <2>1. 1 \in DOMAIN t /\ 2 \in DOMAIN t
    BY <1>1
  <2>2. \A k \in (1 + 1)..2 : t[k] # "tick"
    BY <1>1, <1>2
  <2>3. QED
    BY <1>1, <1>2, <1>3, <1>4, <2>1, <2>2
<1>6. QED
  BY <1>5 DEF code_span_invocation, t

(* A criterion that asks for what comes after the run is refused. *)
LEMMA AfterTheRunIsRefused ==
  ASSUME NEW p \in {<<"is", "space", "published">>, <<"deploy">>}
  PROVE  out_of_dispatch(p)
<1>1. p \in OUT_OF_DISPATCH
  BY DEF OUT_OF_DISPATCH
<1>2. DOMAIN p \subseteq Int /\ 1 \in DOMAIN p
  BY <1>1, DispatchPhrase
<1>3. MatchesAt(p, 1, p)
  <2>1. \A k \in DOMAIN p : (1 + k) - 1 = k
    BY <1>2
  <2>2. QED
    BY <1>2, <2>1 DEF MatchesAt
<1>4. QED
  BY <1>1, <1>2, <1>3 DEF out_of_dispatch

-----------------------------------------------------------------------------
(* What is asked for stands in the text, so the text is refused. *)

Demands == Release \cup Command \cup Wording \cup AfterTheRun

(* A text that breaks any of the rules is refused, by one or another. *)
LEMMA RulesRefuse ==
  ASSUME NEW t,
         \/ out_of_dispatch(t) \/ deferral(t) \/ phrase(t) \/ version_literal(t)
         \/ code_span_invocation(t, {"just"}) \/ (\E i \in DOMAIN t : t[i] = "&&")
         \/ code_span_invocation(t, SHELL_BINARIES)
  PROVE  refusal(t) # "none"
BY DEF refusal

(* Each demand that the documentation rules out is refused by the rule for it. *)
LEMMA DemandIsRefused ==
  ASSUME NEW demand \in Demands
  PROVE  demand # << >> /\ refusal(demand) # "none"
<1> DEFINE Bad(t) == t # << >> /\ refusal(t) # "none"
<1>1. SUFFICES Bad(demand)
  OBVIOUS
<1>2. ASSUME NEW t, version_literal(t) \/ deferral(t) \/ phrase(t) \/ out_of_dispatch(t)
      PROVE  Bad(t)
  <2>1. refusal(t) # "none"
    BY <1>2, RulesRefuse
  <2>2. t # << >>
    <3>1. DOMAIN << >> = {}
      OBVIOUS
    <3>2. QED
      BY <1>2, <3>1 DEF version_literal, deferral, phrase, out_of_dispatch, sequence_at, words_of
  <2>3. QED
    BY <2>1, <2>2
<1> HIDE DEF Bad
<1>3. CASE demand \in Release
  <2>1. CASE demand \in {<<"v", "9", ".", "9">>, <<"9", ".", "9", ".", "9">>,
                         <<"v", "9", ".", "9", ".", "9">>}
    BY <1>2, <2>1, ReleaseIsVersion, Zenon
  <2>2. CASE demand \in UNION {{Comparison(c, s) : c \in Comparators} : s \in Gaps}
    <3>1. PICK s \in Gaps : demand \in {Comparison(c, s) : c \in Comparators}
      BY <2>2, Zenon
    <3>2. PICK c \in Comparators : demand = Comparison(c, s)
      BY <3>1, Zenon
    <3>3. version_literal(Comparison(c, s))
      BY ComparisonIsVersion DEF Gaps
    <3>4. QED
      BY <1>2, <3>2, <3>3, Zenon
  <2>3. QED
    BY <1>3, <2>1, <2>2, Zenon DEF Release
<1>4. CASE demand \in Command
  <2>1. CASE demand \in {<<"tick", c, "space", "work", "tick">> : c \in {"git", "just"}}
    <3>1. PICK c \in {"git", "just"} : demand = <<"tick", c, "space", "work", "tick">>
      BY <2>1, Zenon
    <3>2. c # "tick" /\ (c \in {"just"} \/ c \in SHELL_BINARIES)
      BY DEF SHELL_BINARIES
    <3>3. \/ code_span_invocation(<<"tick", c, "space", "work", "tick">>, {"just"})
          \/ code_span_invocation(<<"tick", c, "space", "work", "tick">>, SHELL_BINARIES)
      BY <3>2, CommandIsRefused
    <3>4. <<"tick", c, "space", "work", "tick">> # << >>
      OBVIOUS
    <3>5. Bad(<<"tick", c, "space", "work", "tick">>)
      BY <3>3, <3>4, RulesRefuse DEF Bad
    <3>6. QED
      BY <3>1, <3>5, Zenon
  <2>2. CASE demand = <<"&&">>
    <3>1. <<"&&">> # << >> /\ \E i \in DOMAIN <<"&&">> : <<"&&">>[i] = "&&"
      OBVIOUS
    <3>2. QED
      BY <2>2, <3>1, RulesRefuse DEF Bad
  <2>3. QED
    BY <1>4, <2>1, <2>2, Zenon DEF Command
<1>5. CASE demand \in Wording
  BY <1>2, <1>5, WordingIsRefused, Zenon DEF Wording
<1>6. CASE demand \in AfterTheRun
  BY <1>2, <1>6, AfterTheRunIsRefused, Zenon DEF AfterTheRun
<1>7. QED
  BY <1>3, <1>4, <1>5, <1>6 DEF Demands

(* What stands alone: a text with no blank at either end. *)
Standing(t) == IsText(t) /\ Len(t) >= 1 /\ t[1] # "space" /\ t[Len(t)] # "space"

(* A text with no blank at either end stands on its own. *)
LEMMA TextOfWords ==
  ASSUME NEW S, NEW t \in Seq(S), Nothing \notin S, Len(t) >= 1,
         t[1] # "space", t[Len(t)] # "space"
  PROVE  Standing(t)
BY DEF Standing, IsText

(* So does each of the demands. *)
LEMMA DemandStands ==
  ASSUME NEW demand \in Demands
  PROVE  Standing(demand)
<1> DEFINE Tokens == {"v", "9", ".", "tick", "git", "just", "space", "work", "&&", "as", "above",
                      "the", "wording", "verbatim", "is", "published", "deploy"}
           Shape(t) == t \in Seq(Tokens) /\ Len(t) >= 1 /\ t[1] # "space" /\ t[Len(t)] # "space"
<1>1. \A t : Shape(t) => Standing(t)
  BY TextOfWords DEF Nothing
<1>2. /\ Shape(<<"v", "9", ".", "9">>) /\ Shape(<<"9", ".", "9", ".", "9">>)
      /\ Shape(<<"v", "9", ".", "9", ".", "9">>)
  OBVIOUS
<1>3. /\ Shape(<<"tick", "git", "space", "work", "tick">>)
      /\ Shape(<<"tick", "just", "space", "work", "tick">>) /\ Shape(<<"&&">>)
  OBVIOUS
<1>4. /\ Shape(<<"as", "space", "above">>) /\ Shape(<<"verbatim">>)
      /\ Shape(<<"the", "space", "wording", "space", "above">>)
  OBVIOUS
<1>5. Shape(<<"is", "space", "published">>) /\ Shape(<<"deploy">>)
  OBVIOUS
<1> HIDE DEF Shape
<1>6. CASE demand \in UNION {{Comparison(c, s) : c \in Comparators} : s \in Gaps}
  <2>1. PICK s \in Gaps : demand \in {Comparison(c, s) : c \in Comparators}
    BY <1>6, Zenon
  <2>2. PICK c \in Comparators : demand = Comparison(c, s)
    BY <2>1, Zenon
  <2>3. s \in Seq({"=", "space"})
    <3>1. /\ << >> \in Seq({"=", "space"}) /\ <<"=">> \in Seq({"=", "space"})
          /\ <<"space">> \in Seq({"=", "space"}) /\ <<"=", "space">> \in Seq({"=", "space"})
      OBVIOUS
    <3>2. QED
      BY <3>1, Zenon DEF Gaps
  <2>4. /\ IsText(demand) /\ Len(s) \in Nat /\ Len(demand) = Len(s) + 4
        /\ demand[1] = c /\ demand[Len(s) + 4] = "9"
    BY <2>2, <2>3, ComparisonParts
  <2>5. c # "space"
    BY DEF Comparators
  <2>6. QED
    BY <2>4, <2>5 DEF Standing
<1>7. CASE demand \in {<<"v", "9", ".", "9">>, <<"9", ".", "9", ".", "9">>,
                       <<"v", "9", ".", "9", ".", "9">>}
  BY <1>1, <1>2, <1>7, Zenon
<1>8. CASE demand \in Command
  <2>1. CASE demand = <<"&&">>
    BY <1>1, <1>3, <2>1, Zenon
  <2>2. CASE demand \in {<<"tick", c, "space", "work", "tick">> : c \in {"git", "just"}}
    <3>1. PICK c \in {"git", "just"} : demand = <<"tick", c, "space", "work", "tick">>
      BY <2>2, Zenon
    <3>2. QED
      BY <1>1, <1>3, <3>1, Zenon
  <2>3. QED
    BY <1>8, <2>1, <2>2, Zenon DEF Command
<1>9. CASE demand \in Wording \cup AfterTheRun
  BY <1>1, <1>4, <1>5, <1>9, Zenon DEF Wording, AfterTheRun
<1>10. CASE demand \in Release
  BY <1>6, <1>7, <1>10, Zenon DEF Release
<1>11. QED
  BY <1>8, <1>9, <1>10 DEF Demands

(* What a text asks for stands within it. *)
LEMMA AskedIsWithin ==
  ASSUME NEW text, IsText(text), NEW demand, Standing(demand), AsksFor(text, demand)
  PROVE  \E d \in Nat : Within(demand, text, d)
<1>1. PICK i \in DOMAIN text : /\ MatchesAt(text, i, demand)
                               /\ At(text, i - 1) \in Clear
                               /\ At(text, i + Len(demand)) \in Clear
  BY DEF AsksFor, Clear
<1>2. /\ Len(text) \in Nat /\ DOMAIN text = 1..Len(text)
      /\ Len(demand) \in Nat /\ DOMAIN demand = 1..Len(demand) /\ Len(demand) >= 1
  BY TextFacts DEF Standing
<1>3. i \in Int /\ 1 <= i
  BY <1>2
<1>4. \A k \in 1..Len(demand) : (i + k) - 1 \in DOMAIN text /\ text[(i + k) - 1] = demand[k]
  <2>1. \A k \in 1..Len(demand) : i + k - 1 = (i + k) - 1
    BY <1>2, <1>3
  <2>2. QED
    BY <1>1, <1>2, <2>1 DEF MatchesAt
<1> DEFINE d == i - 1
<1>5. d \in Nat /\ (d + Len(demand)) + 1 = i + Len(demand) /\ d + Len(demand) + 1 = i + Len(demand)
  BY <1>2, <1>3
<1>6. Len(demand) + d <= Len(text)
  <2>1. (i + Len(demand)) - 1 \in DOMAIN text
    BY <1>2, <1>4
  <2>2. (i + Len(demand)) - 1 <= Len(text)
    BY <1>2, <2>1
  <2>3. QED
    BY <1>2, <1>3, <2>2
<1>7. \A k \in 1..Len(demand) : text[k + d] = demand[k]
  <2>1. \A k \in 1..Len(demand) : k + d = (i + k) - 1
    BY <1>2, <1>3
  <2>2. QED
    BY <1>4, <2>1
<1>8. Within(demand, text, d)
  BY <1>1, <1>5, <1>6, <1>7 DEF Within
<1>9. QED
  BY <1>5, <1>8

-----------------------------------------------------------------------------
(* A text without the blanks around it. *)

(* A set of positions that has an element has a first and a last one. *)
LEMMA Extremes ==
  ASSUME NEW n \in Nat, NEW S \in SUBSET (1..n), S # {}
  PROVE  /\ Min(S) \in S /\ \A x \in S : Min(S) <= x
         /\ Max(S) \in S /\ \A x \in S : x <= Max(S)
<1>1. \E s \in S : \A t \in S : s <= t
  <2>1. S \in SUBSET Nat
    OBVIOUS
  <2>2. QED
    BY <2>1, Least
<1>2. \E s \in S : \A t \in S : s >= t
  <2> DEFINE T == {n - s : s \in S}
  <2>1. T \in SUBSET Nat /\ T # {}
    <3>1. \A s \in S : n - s \in Nat
      OBVIOUS
    <3>2. PICK s \in S : TRUE
      OBVIOUS
    <3>3. n - s \in T
      BY <3>2
    <3>4. T \subseteq Nat
      BY <3>1
    <3>5. QED
      BY <3>3, <3>4
  <2>2. PICK m \in T : \A t \in T : m <= t
    BY <2>1, Least
  <2>3. PICK s \in S : m = n - s
    OBVIOUS
  <2>4. ASSUME NEW t \in S
        PROVE  s >= t
    <3>1. n - s <= n - t
      BY <2>2, <2>3
    <3>2. s \in Int /\ t \in Int
      OBVIOUS
    <3>3. QED
      BY <3>1, <3>2
  <2>5. QED
    BY <2>4
<1>3. Min(S) \in S /\ \A x \in S : Min(S) <= x
  BY <1>1 DEF Min
<1>4. Max(S) \in S /\ \A x \in S : Max(S) >= x
  BY <1>2 DEF Max
<1>5. \A x \in S : x \in Int
  OBVIOUS
<1>6. QED
  BY <1>3, <1>4, <1>5

(* What is left of a text that is not blank begins and ends with its ink. *)
LEMMA Trimmed ==
  ASSUME NEW raw, IsText(raw), ~Blanks(raw)
  PROVE  \E lo, hi \in DOMAIN raw :
           /\ lo <= hi /\ raw[lo] # "space" /\ raw[hi] # "space"
           /\ \A i \in DOMAIN raw : raw[i] # "space" => lo <= i /\ i <= hi
           /\ IsText(trim(raw)) /\ Len(trim(raw)) = (hi - lo) + 1
           /\ \A k \in 1..((hi - lo) + 1) : trim(raw)[k] = raw[(lo + k) - 1]
<1>1. PICK S : raw \in Seq(S) /\ Nothing \notin S
  BY DEF IsText
<1>2. Len(raw) \in Nat /\ DOMAIN raw = 1..Len(raw)
  BY <1>1
<1>3. Inked(raw) \in SUBSET (1..Len(raw)) /\ Inked(raw) # {}
  BY <1>2 DEF Inked, Blanks
<1> DEFINE lo == Min(Inked(raw))
           hi == Max(Inked(raw))
<1>4. /\ lo \in Inked(raw) /\ \A x \in Inked(raw) : lo <= x
      /\ hi \in Inked(raw) /\ \A x \in Inked(raw) : x <= hi
  BY <1>2, <1>3, Extremes
<1> HIDE DEF lo, hi
<1>5. lo \in DOMAIN raw /\ hi \in DOMAIN raw /\ lo <= hi /\ raw[lo] # "space" /\ raw[hi] # "space"
  BY <1>4 DEF Inked
<1>6. \A i \in DOMAIN raw : raw[i] # "space" => lo <= i /\ i <= hi
  BY <1>4 DEF Inked
<1>7. trim(raw) = SubSeq(raw, lo, hi)
  BY <1>3 DEF trim, lo, hi
<1>8. lo \in Nat /\ hi \in Nat /\ lo >= 1 /\ hi <= Len(raw)
  BY <1>2, <1>5
<1>9. /\ SubSeq(raw, lo, hi) \in Seq(S) /\ Len(SubSeq(raw, lo, hi)) = (hi - lo) + 1
      /\ \A k \in 1..((hi - lo) + 1) : SubSeq(raw, lo, hi)[k] = raw[(lo + k) - 1]
  BY <1>1, <1>5, <1>8, SubSeqAt
<1>10. IsText(trim(raw))
  BY <1>1, <1>7, <1>9 DEF IsText
<1>11. QED
  BY <1>5, <1>6, <1>7, <1>9, <1>10, SMTT(60)

(* A blank criterion is refused. *)
LEMMA BlankIsRefused == \A raw : Blanks(raw) => refusal(trim(raw)) # "none"
<1>1. \A raw : Blanks(raw) => trim(raw) = << >>
  BY DEF Blanks, trim, Inked
<1>2. refusal(<< >>) # "none"
  BY DEF refusal
<1>3. QED
  BY <1>1, <1>2

(* What stands within a text stands within it without the blanks around. *)
LEMMA WithinTrimmed ==
  ASSUME NEW raw, IsText(raw), ~Blanks(raw), NEW t, Standing(t), NEW d, Within(t, raw, d)
  PROVE  IsText(trim(raw)) /\ \E e \in Nat : Within(t, trim(raw), e)
<1>1. PICK lo, hi \in DOMAIN raw :
        /\ lo <= hi
        /\ \A i \in DOMAIN raw : raw[i] # "space" => lo <= i /\ i <= hi
        /\ IsText(trim(raw)) /\ Len(trim(raw)) = (hi - lo) + 1
        /\ \A k \in 1..((hi - lo) + 1) : trim(raw)[k] = raw[(lo + k) - 1]
  BY Trimmed
<1> DEFINE u == trim(raw)
           e == (d + 1) - lo
<1>2. /\ Len(raw) \in Nat /\ DOMAIN raw = 1..Len(raw)
      /\ Len(t) \in Nat /\ DOMAIN t = 1..Len(t) /\ Len(t) >= 1
      /\ d \in Nat /\ Len(t) + d <= Len(raw)
  BY TextFacts DEF Standing, Within
<1>3. lo \in Int /\ hi \in Int /\ 1 <= lo /\ hi <= Len(raw) /\ lo <= hi
  BY <1>1, <1>2
<1>4. IsText(u) /\ Len(u) = (hi - lo) + 1
  BY <1>1
<1> HIDE DEF u
<1>5. \A k \in Int : 1 <= k /\ k <= (hi - lo) + 1 => u[k] = raw[(lo + k) - 1] /\ At(u, k) = u[k]
  <2>1. ASSUME NEW k \in Int, 1 <= k, k <= (hi - lo) + 1
        PROVE  u[k] = raw[(lo + k) - 1] /\ At(u, k) = u[k]
    <3>1. k \in 1..((hi - lo) + 1)
      BY <1>3, <2>1
    <3>2. u[k] = raw[(lo + k) - 1]
      BY <1>1, <3>1 DEF u
    <3>3. k \in DOMAIN u
      BY <1>4, <3>1, TextFacts
    <3>4. QED
      BY <3>2, <3>3 DEF At
  <2>2. QED
    BY <2>1
<1>6. lo <= d + 1 /\ Len(t) + d <= hi
  <2>1. 1 \in 1..Len(t) /\ Len(t) \in 1..Len(t) /\ 1 + d = d + 1
    BY <1>2
  <2>2. raw[d + 1] # "space" /\ raw[Len(t) + d] # "space"
    BY <2>1 DEF Within, Standing
  <2>3. d + 1 \in DOMAIN raw /\ Len(t) + d \in DOMAIN raw
    BY <1>2
  <2>4. QED
    BY <1>1, <2>2, <2>3
<1>7. e \in Nat /\ Len(t) + e <= Len(u)
  BY <1>2, <1>3, <1>4, <1>6
<1>8. ASSUME NEW k \in 1..Len(t)
      PROVE  u[k + e] = t[k]
  <2>1. k + e \in Int /\ 1 <= k + e /\ k + e <= (hi - lo) + 1 /\ (lo + (k + e)) - 1 = k + d
    BY <1>2, <1>3, <1>6, SMTT(30)
  <2>2. raw[k + d] = t[k]
    BY DEF Within
  <2>3. QED
    BY <1>5, <2>1, <2>2
<1>9. At(u, e) \in Clear
  <2>1. CASE e = 0
    <3>1. 0 \notin DOMAIN u
      BY <1>4, TextFacts
    <3>2. QED
      BY <2>1, <3>1 DEF At, Clear
  <2>2. CASE e # 0
    <3>1. e \in Int /\ 1 <= e /\ e <= (hi - lo) + 1 /\ (lo + e) - 1 = d
      BY <1>2, <1>3, <1>6, <2>2
    <3>2. At(u, e) = raw[d]
      BY <1>5, <3>1
    <3>3. d \in DOMAIN raw
      BY <1>2, <1>3, <3>1
    <3>4. QED
      BY <3>2, <3>3 DEF Within, At
  <2>3. QED
    BY <2>1, <2>2
<1>10. At(u, e + Len(t) + 1) \in Clear
  <2> DEFINE k == e + Len(t) + 1
  <2>1. k \in Int /\ 1 <= k /\ (lo + k) - 1 = d + Len(t) + 1
    BY <1>2, <1>3, <1>7
  <2> HIDE DEF k
  <2>2. CASE k <= (hi - lo) + 1
    <3>1. At(u, k) = raw[d + Len(t) + 1]
      BY <1>5, <2>1, <2>2
    <3>2. d + Len(t) + 1 \in DOMAIN raw
      BY <1>2, <1>3, <2>1, <2>2
    <3>3. QED
      BY <3>1, <3>2 DEF Within, At, k
  <2>3. CASE ~(k <= (hi - lo) + 1)
    <3>1. k \notin DOMAIN u
      BY <1>4, <2>1, <2>3, TextFacts
    <3>2. QED
      BY <3>1 DEF At, Clear, k
  <2>4. QED
    BY <2>2, <2>3
<1> HIDE DEF e
<1>11. Within(t, u, e)
  BY <1>7, <1>8, <1>9, <1>10 DEF Within
<1>12. QED
  BY <1>4, <1>7, <1>11 DEF u

(* A criterion that the documentation rules out is refused, blanks around it or not. *)
LEMMA UnusableIsRefused ==
  ASSUME NEW raw, IsText(raw), Unusable(raw)
  PROVE  refusal(trim(raw)) # "none"
<1>1. CASE Blanks(raw)
  BY <1>1, BlankIsRefused
<1>2. CASE ~Blanks(raw)
  <2>1. PICK demand \in Demands : AsksFor(raw, demand)
    BY <1>2 DEF Unusable, Demands
  <2>2. Standing(demand) /\ demand # << >> /\ refusal(demand) # "none"
    BY DemandStands, DemandIsRefused
  <2>3. PICK d \in Nat : Within(demand, raw, d)
    BY <2>1, <2>2, AskedIsWithin
  <2>4. PICK e \in Nat : Within(demand, trim(raw), e)
    BY <1>2, <2>2, <2>3, WithinTrimmed
  <2>5. IsText(trim(raw)) /\ IsText(demand)
    BY <1>2, <2>2, <2>3, WithinTrimmed DEF Standing
  <2>6. QED
    BY <2>2, <2>4, <2>5, RefusedWithin
<1>3. QED
  BY <1>1, <1>2

-----------------------------------------------------------------------------
(* What may be said is not refused. *)

PlainTokens == {"work", "9", "space", "."}

(* The first word of a refused phrase is none of a plain text. *)
LEMMA PhraseStarts ==
  ASSUME NEW p, p \in PHRASE \cup {<<"the", "wording", "above">>}
                   \cup UNION {{lead \o tail : lead \in DEFERRAL_LEAD} : tail \in DEFERRAL_TAIL}
  PROVE  1 \in DOMAIN p /\ p[1] \notin PlainTokens
<1> DEFINE Odd(q) == 1 \in DOMAIN q /\ q[1] \notin PlainTokens
<1>1. /\ Odd(<<"verbatim">>) /\ Odd(<<"word", "for", "word">>) /\ Odd(<<"the", "exact", "phrase">>)
      /\ Odd(<<"the", "exact", "wording">>) /\ Odd(<<"the", "exact", "words">>)
      /\ Odd(<<"the", "wording", "above">>)
  BY DEF PlainTokens
<1>2. ASSUME NEW lead \in DEFERRAL_LEAD, NEW tail \in DEFERRAL_TAIL
      PROVE  Odd(lead \o tail)
  <2> DEFINE S == {"of", "the", "shape", "as", "exactly", "in", "form", "matching", "wording", "per",
                   "described", "specified", "stated", "set", "out", "given", "above", "below"}
             Lead(q) == q \in Seq(S) /\ Len(q) >= 1 /\ q[1] \notin PlainTokens
  <2>1. /\ Lead(<<"of", "the", "shape">>) /\ Lead(<<"as">>) /\ Lead(<<"exactly", "as">>)
        /\ Lead(<<"in", "the", "form">>) /\ Lead(<<"matching", "the", "wording">>)
        /\ Lead(<<"per", "the">>)
    BY DEF PlainTokens
  <2>2. /\ <<"described">> \in Seq(S) /\ <<"specified">> \in Seq(S) /\ <<"stated">> \in Seq(S)
        /\ <<"set", "out">> \in Seq(S) /\ <<"given">> \in Seq(S) /\ <<"above">> \in Seq(S)
        /\ <<"below">> \in Seq(S)
    OBVIOUS
  <2> HIDE DEF Lead, S
  <2>3. Lead(lead)
    BY <2>1, Zenon DEF DEFERRAL_LEAD
  <2>4. tail \in Seq(S)
    BY <2>2, Zenon DEF DEFERRAL_TAIL
  <2>5. lead \in Seq(S) /\ Len(lead) >= 1 /\ lead[1] \notin PlainTokens
    BY <2>3 DEF Lead
  <2>6. Len(lead) \in Nat /\ Len(tail) \in Nat
    BY <2>4, <2>5
  <2>7. /\ lead \o tail \in Seq(S) /\ Len(lead \o tail) = Len(lead) + Len(tail)
        /\ \A i \in 1..(Len(lead) + Len(tail)) :
             (lead \o tail)[i] = IF i <= Len(lead) THEN lead[i] ELSE tail[i - Len(lead)]
    BY <2>4, <2>5, ConcatProperties
  <2>8. 1 \in 1..(Len(lead) + Len(tail)) /\ 1 <= Len(lead)
    BY <2>5, <2>6
  <2>9. (lead \o tail)[1] = lead[1] /\ 1 \in DOMAIN (lead \o tail)
    BY <2>7, <2>8
  <2>10. QED
    BY <2>5, <2>9
<1> HIDE DEF Odd
<1>3. CASE p \in PHRASE \cup {<<"the", "wording", "above">>}
  <2>1. Odd(p)
    BY <1>1, <1>3, Zenon DEF PHRASE
  <2>2. QED
    BY <2>1 DEF Odd
<1>4. CASE p \in UNION {{lead \o tail : lead \in DEFERRAL_LEAD} : tail \in DEFERRAL_TAIL}
  <2>1. PICK tail \in DEFERRAL_TAIL : p \in {lead \o tail : lead \in DEFERRAL_LEAD}
    BY <1>4, Zenon
  <2>2. PICK lead \in DEFERRAL_LEAD : p = lead \o tail
    BY <2>1, Zenon
  <2>3. Odd(p)
    BY <1>2, <2>2, Zenon
  <2>4. QED
    BY <2>3 DEF Odd
<1>5. QED
  BY <1>3, <1>4

(* A plain text has none of the refused phrases. *)
LEMMA PlainHasNoPhrase ==
  ASSUME NEW t, \A i \in DOMAIN t : t[i] \in PlainTokens
  PROVE  ~deferral(t) /\ ~phrase(t)
<1> DEFINE All == PHRASE \cup {<<"the", "wording", "above">>}
                  \cup UNION {{lead \o tail : lead \in DEFERRAL_LEAD} : tail \in DEFERRAL_TAIL}
<1>1. ASSUME NEW p, 1 \in DOMAIN p, p[1] \notin PlainTokens
      PROVE  ~sequence_at(t, p)
  BY <1>1 DEF sequence_at, words_of, IsWord
<1>2. \A p \in All : ~sequence_at(t, p)
  BY <1>1, PhraseStarts
<1>3. ~phrase(t)
  BY <1>2, Zenon DEF phrase
<1>4. ~deferral(t)
  <2>1. ASSUME NEW lead \in DEFERRAL_LEAD, NEW tail \in DEFERRAL_TAIL
        PROVE  lead \o tail \in All
    <3>1. lead \o tail \in {l \o tail : l \in DEFERRAL_LEAD}
      BY Zenon
    <3>2. {l \o tail : l \in DEFERRAL_LEAD}
            \in {{l \o x : l \in DEFERRAL_LEAD} : x \in DEFERRAL_TAIL}
      BY Zenon
    <3>3. QED
      BY <3>1, <3>2, Zenon
  <2>2. <<"the", "wording", "above">> \in All
    BY Zenon
  <2> HIDE DEF All
  <2>3. QED
    BY <1>2, <2>1, <2>2, Zenon DEF deferral
<1>5. QED
  BY <1>3, <1>4

(* A plain criterion is not refused. *)
LEMMA UsableIsNotRefused ==
  ASSUME NEW raw, IsText(raw), Usable(raw)
  PROVE  trim(raw) # << >> /\ refusal(trim(raw)) = "none"
<1>1. PICK lo, hi \in DOMAIN raw :
        /\ lo <= hi
        /\ IsText(trim(raw)) /\ Len(trim(raw)) = (hi - lo) + 1
        /\ \A k \in 1..((hi - lo) + 1) : trim(raw)[k] = raw[(lo + k) - 1]
  BY Trimmed DEF Usable
<1> DEFINE t == trim(raw)
<1>2. Len(raw) \in Nat /\ DOMAIN raw = 1..Len(raw)
  BY TextFacts
<1>3. lo \in Int /\ hi \in Int /\ 1 <= lo /\ hi <= Len(raw) /\ lo <= hi
  BY <1>1, <1>2
<1>4. IsText(t) /\ Len(t) = (hi - lo) + 1 /\ DOMAIN t = 1..((hi - lo) + 1)
  BY <1>1, TextFacts
<1>5. \A k \in DOMAIN t : k \in Int /\ (lo + k) - 1 \in DOMAIN raw /\ t[k] = raw[(lo + k) - 1]
  <2>1. ASSUME NEW k \in 1..((hi - lo) + 1)
        PROVE  k \in Int /\ (lo + k) - 1 \in DOMAIN raw
    <3>1. k \in Int /\ (lo + k) - 1 \in Int /\ 1 <= (lo + k) - 1 /\ (lo + k) - 1 <= Len(raw)
      BY <1>2, <1>3
    <3>2. QED
      BY <1>2, <3>1
  <2>2. QED
    BY <1>1, <1>4, <2>1
<1> HIDE DEF t
<1>6. t # << >>
  <2>1. 1 \in DOMAIN t
    BY <1>3, <1>4
  <2>2. DOMAIN << >> = {}
    OBVIOUS
  <2>3. QED
    BY <2>1, <2>2
<1>7. \A k \in DOMAIN t : t[k] \in PlainTokens
  BY <1>5 DEF Usable, PlainTokens
<1>8. ~out_of_dispatch(t)
  <2>1. SUFFICES ASSUME NEW p \in OUT_OF_DISPATCH, NEW i \in DOMAIN t, MatchesAt(t, i, p)
                 PROVE  FALSE
    BY DEF out_of_dispatch
  <2>2. 1 \in DOMAIN p /\ p[1] \in {"branch", "is", "pr", "pull", "lands", "deploy"}
    BY DispatchPhrase
  <2>3. i + 1 - 1 = i
    BY <1>5
  <2>4. t[i] = p[1]
    BY <2>1, <2>2, <2>3 DEF MatchesAt
  <2>5. QED
    BY <1>7, <2>2, <2>4 DEF PlainTokens
<1>9. ~deferral(t) /\ ~phrase(t)
  BY <1>7, PlainHasNoPhrase
<1>10. ~version_literal(t)
  <2>1. \A i \in DOMAIN t : t[i] # "v" /\ t[i] \notin Comparators
    BY <1>7 DEF PlainTokens, Comparators
  <2>2. ASSUME NEW i \in DOMAIN t, dotted(t, i, 3)
        PROVE  FALSE
    <3>1. /\ i + 1 \in DOMAIN t /\ t[i + 1] = "." /\ i + 3 \in DOMAIN t /\ t[i + 3] = "."
          /\ i \in Int
      <4>1. i \in Int /\ 3 \in {2, 3}
        BY <1>5
      <4>2. QED
        BY <2>2, <4>1, DottedSpans
    <3> DEFINE a == (lo + (i + 1)) - 1
               b == (lo + (i + 3)) - 1
               points == {k \in DOMAIN raw : raw[k] = "."}
    <3>2. a \in points /\ b \in points /\ a # b
      <4>1. a \in DOMAIN raw /\ raw[a] = "." /\ b \in DOMAIN raw /\ raw[b] = "."
        BY <1>5, <3>1
      <4>2. a # b
        BY <1>3, <3>1
      <4>3. QED
        BY <4>1, <4>2
    <3> HIDE DEF a, b
    <3>3. IsFiniteSet(points)
      <4>1. IsFiniteSet(1..Len(raw))
        BY <1>2, FS_Interval
      <4>2. QED
        BY <1>2, <4>1, FS_Subset
    <3>4. Cardinality(points) <= 1
      BY DEF Usable
    <3> HIDE DEF points
    <3>5. Cardinality({a, b}) = 2
      <4>1. IsFiniteSet({a}) /\ Cardinality({a}) = 1
        BY FS_Singleton
      <4>2. Cardinality({a} \cup {b}) = Cardinality({a}) + 1
        BY <3>2, <4>1, FS_AddElement
      <4>3. {a} \cup {b} = {a, b}
        OBVIOUS
      <4>4. Cardinality({a, b}) = Cardinality({a} \cup {b})
        BY <4>3, Zenon
      <4>5. QED
        BY <4>1, <4>2, <4>4
    <3>6. Cardinality({a, b}) <= Cardinality(points)
      BY <3>2, <3>3, FS_Subset
    <3>7. Cardinality(points) \in Nat
      BY <3>3, FS_CardinalityType
    <3>8. QED
      BY <3>4, <3>5, <3>6, <3>7
  <2>3. QED
    BY <2>1, <2>2 DEF version_literal, bare, marked, compared
<1>11. \A binaries : ~code_span_invocation(t, binaries)
  BY <1>7 DEF code_span_invocation, PlainTokens
<1>12. ~\E i \in DOMAIN t : t[i] = "&&"
  BY <1>7 DEF PlainTokens
<1>13. refusal(t) = "none"
  BY <1>6, <1>8, <1>9, <1>10, <1>11, <1>12 DEF refusal
<1>14. QED
  BY <1>6, <1>13 DEF t

-----------------------------------------------------------------------------
(* A criterion within a sentence. *)

(* A sentence around a text, position by position. *)
LEMMA SentenceParts ==
  ASSUME NEW raw, IsText(raw), NEW u, u = InASentence(raw)
  PROVE  /\ IsText(u) /\ Len(u) = Len(raw) + 4
         /\ u[1] = "work" /\ u[2] = "space" /\ u[Len(raw) + 3] = "space" /\ u[Len(raw) + 4] = "work"
         /\ \A k \in DOMAIN raw : u[k + 2] = raw[k]
<1>1. PICK R : raw \in Seq(R) /\ Nothing \notin R
  BY DEF IsText
<1> DEFINE S == R \cup {"work", "space"}
           a == <<"work", "space">>
           b == <<"space", "work">>
           x == a \o raw
<1>2. /\ a \in Seq(S) /\ Len(a) = 2 /\ a[1] = "work" /\ a[2] = "space"
      /\ b \in Seq(S) /\ Len(b) = 2 /\ b[1] = "space" /\ b[2] = "work"
  OBVIOUS
<1>3. Nothing \notin S
  BY <1>1 DEF Nothing
<1>4. raw \in Seq(S)
  BY <1>1
<1>5. Len(raw) \in Nat /\ DOMAIN raw = 1..Len(raw)
  BY <1>1
<1> HIDE DEF a, b, S
<1>6. /\ x \in Seq(S) /\ Len(x) = 2 + Len(raw)
      /\ \A i \in 1..(2 + Len(raw)) : x[i] = IF i <= 2 THEN a[i] ELSE raw[i - 2]
  <2>1. /\ a \o raw \in Seq(S) /\ Len(a \o raw) = Len(a) + Len(raw)
        /\ \A i \in 1..(Len(a) + Len(raw)) :
             (a \o raw)[i] = IF i <= Len(a) THEN a[i] ELSE raw[i - Len(a)]
    BY <1>2, <1>4, ConcatProperties
  <2>2. QED
    BY <1>2, <1>5, <2>1
<1>7. u = x \o b
  BY Zenon DEF a, b, x, InASentence
<1> HIDE DEF x
<1>8. /\ x \o b \in Seq(S) /\ Len(x \o b) = Len(x) + Len(b)
      /\ \A i \in 1..(Len(x) + Len(b)) : (x \o b)[i] = IF i <= Len(x) THEN x[i] ELSE b[i - Len(x)]
  BY <1>2, <1>6, ConcatProperties
<1>9. /\ u \in Seq(S) /\ Len(u) = Len(raw) + 4
      /\ \A i \in 1..(Len(raw) + 4) : u[i] = IF i <= 2 + Len(raw) THEN x[i] ELSE b[i - (2 + Len(raw))]
  <2>1. Len(x) + Len(b) = Len(raw) + 4
    BY <1>2, <1>5, <1>6
  <2>2. QED
    BY <1>6, <1>7, <1>8, <2>1
<1>10. u[1] = "work" /\ u[2] = "space"
  <2>1. /\ 1 \in 1..(Len(raw) + 4) /\ 2 \in 1..(Len(raw) + 4)
        /\ 1 \in 1..(2 + Len(raw)) /\ 2 \in 1..(2 + Len(raw))
        /\ 1 <= 2 + Len(raw) /\ 2 <= 2 + Len(raw)
    BY <1>5
  <2>2. QED
    BY <1>2, <1>6, <1>9, <2>1
<1>11. u[Len(raw) + 3] = "space" /\ u[Len(raw) + 4] = "work"
  <2>1. /\ Len(raw) + 3 \in 1..(Len(raw) + 4) /\ Len(raw) + 4 \in 1..(Len(raw) + 4)
        /\ ~(Len(raw) + 3 <= 2 + Len(raw)) /\ ~(Len(raw) + 4 <= 2 + Len(raw))
        /\ (Len(raw) + 3) - (2 + Len(raw)) = 1 /\ (Len(raw) + 4) - (2 + Len(raw)) = 2
    BY <1>5
  <2>2. QED
    BY <1>2, <1>9, <2>1
<1>12. ASSUME NEW k \in DOMAIN raw
       PROVE  u[k + 2] = raw[k]
  <2>1. /\ k + 2 \in 1..(Len(raw) + 4) /\ k + 2 \in 1..(2 + Len(raw)) /\ k + 2 <= 2 + Len(raw)
        /\ ~(k + 2 <= 2) /\ (k + 2) - 2 = k
    BY <1>5
  <2>2. QED
    BY <1>6, <1>9, <2>1
<1>13. IsText(u)
  BY <1>3, <1>9 DEF IsText
<1>14. QED
  BY <1>9, <1>10, <1>11, <1>12, <1>13

(* A sentence has no blanks around it to lose. *)
LEMMA SentenceIsTrimmed ==
  ASSUME NEW raw, IsText(raw), NEW u, u = InASentence(raw)
  PROVE  /\ IsText(trim(u)) /\ Len(trim(u)) = Len(u)
         /\ \A k \in DOMAIN u : trim(u)[k] = u[k]
<1>1. /\ IsText(u) /\ Len(u) = Len(raw) + 4
      /\ u[1] = "work" /\ u[Len(raw) + 4] = "work"
  BY SentenceParts
<1>2. /\ Len(raw) \in Nat /\ Len(u) \in Nat /\ DOMAIN u = 1..Len(u)
  BY <1>1, TextFacts
<1>3. 1 \in DOMAIN u /\ Len(u) \in DOMAIN u /\ u[1] # "space" /\ u[Len(u)] # "space"
  BY <1>1, <1>2
<1>4. ~Blanks(u)
  BY <1>3 DEF Blanks
<1>5. PICK lo, hi \in DOMAIN u :
        /\ \A i \in DOMAIN u : u[i] # "space" => lo <= i /\ i <= hi
        /\ IsText(trim(u)) /\ Len(trim(u)) = (hi - lo) + 1
        /\ \A k \in 1..((hi - lo) + 1) : trim(u)[k] = u[(lo + k) - 1]
  BY <1>1, <1>4, Trimmed
<1>6. lo <= 1 /\ Len(u) <= hi
  BY <1>3, <1>5
<1>7. lo \in 1..Len(u) /\ hi \in 1..Len(u)
  BY <1>2, <1>5
<1>8. lo = 1 /\ hi = Len(u)
  BY <1>2, <1>6, <1>7
<1>9. (hi - lo) + 1 = Len(u) /\ \A k \in DOMAIN u : (lo + k) - 1 = k
  BY <1>2, <1>8
<1>10. QED
  BY <1>2, <1>5, <1>9

(* A criterion that is refused is refused within a sentence. *)
LEMMA RefusedInASentence ==
  ASSUME NEW raw, IsText(raw), ~Blanks(raw), refusal(trim(raw)) # "none"
  PROVE  refusal(trim(InASentence(raw))) # "none"
<1> DEFINE u == InASentence(raw)
           v == trim(u)
           t == trim(raw)
<1>1. PICK lo, hi \in DOMAIN raw :
        /\ lo <= hi
        /\ \A i \in DOMAIN raw : raw[i] # "space" => lo <= i /\ i <= hi
        /\ IsText(t) /\ Len(t) = (hi - lo) + 1
        /\ \A k \in 1..((hi - lo) + 1) : t[k] = raw[(lo + k) - 1]
  BY Trimmed
<1>2. /\ IsText(u) /\ Len(u) = Len(raw) + 4
      /\ u[2] = "space" /\ u[Len(raw) + 3] = "space" /\ \A k \in DOMAIN raw : u[k + 2] = raw[k]
  BY SentenceParts
<1>3. IsText(v) /\ Len(v) = Len(u) /\ \A k \in DOMAIN u : v[k] = u[k]
  BY SentenceIsTrimmed
<1> HIDE DEF u, v, t
<1>4. /\ Len(raw) \in Nat /\ DOMAIN raw = 1..Len(raw) /\ Len(u) \in Nat /\ DOMAIN u = 1..Len(u)
      /\ DOMAIN v = 1..Len(v)
  BY <1>2, <1>3, TextFacts
<1>5. lo \in Int /\ hi \in Int /\ 1 <= lo /\ hi <= Len(raw) /\ lo <= hi
  BY <1>1, <1>4
<1>6. \A k \in Int : 1 <= k /\ k <= Len(raw) => v[k + 2] = raw[k]
  <2>1. ASSUME NEW k \in Int, 1 <= k, k <= Len(raw)
        PROVE  v[k + 2] = raw[k]
    <3>1. k \in DOMAIN raw /\ k + 2 \in DOMAIN u
      BY <1>2, <1>4, <2>1
    <3>2. QED
      BY <1>2, <1>3, <3>1
  <2>2. QED
    BY <2>1
<1>7. v[2] = "space" /\ v[Len(raw) + 3] = "space"
  <2>1. 2 \in DOMAIN u /\ Len(raw) + 3 \in DOMAIN u
    BY <1>2, <1>4
  <2>2. QED
    BY <1>2, <1>3, <2>1
<1> DEFINE d == lo + 1
<1>8. d \in Nat /\ Len(t) + d <= Len(v)
  BY <1>1, <1>2, <1>3, <1>4, <1>5
<1>9. ASSUME NEW k \in 1..Len(t)
      PROVE  v[k + d] = t[k]
  <2>1. /\ k \in Int /\ (lo + k) - 1 \in Int /\ 1 <= (lo + k) - 1 /\ (lo + k) - 1 <= Len(raw)
        /\ ((lo + k) - 1) + 2 = k + d
    BY <1>1, <1>4, <1>5
  <2>2. v[k + d] = raw[(lo + k) - 1]
    BY <1>6, <2>1
  <2>3. t[k] = raw[(lo + k) - 1]
    BY <1>1
  <2>4. QED
    BY <2>2, <2>3
<1>10. At(v, d) \in Clear
  <2>1. d \in DOMAIN v
    BY <1>2, <1>3, <1>4, <1>5
  <2>2. v[d] = "space"
    <3>1. CASE lo = 1
      BY <1>7, <3>1
    <3>2. CASE lo # 1
      <4>1. lo - 1 \in Int /\ 1 <= lo - 1 /\ lo - 1 <= Len(raw) /\ (lo - 1) + 2 = d
        BY <1>4, <1>5, <3>2
      <4>2. lo - 1 \in DOMAIN raw /\ ~(lo <= lo - 1)
        BY <1>4, <1>5, <4>1
      <4>3. raw[lo - 1] = "space"
        BY <1>1, <4>2
      <4>4. QED
        BY <1>6, <4>1, <4>3
    <3>3. QED
      BY <3>1, <3>2
  <2>3. At(v, d) = v[d]
    BY <2>1 DEF At
  <2>4. QED
    BY <2>2, <2>3 DEF Clear
<1>11. At(v, d + Len(t) + 1) \in Clear
  <2>1. d + Len(t) + 1 = hi + 3
    BY <1>1, <1>5
  <2>2. hi + 3 \in DOMAIN v
    BY <1>2, <1>3, <1>4, <1>5
  <2>3. v[hi + 3] = "space"
    <3>1. CASE hi = Len(raw)
      BY <1>7, <3>1
    <3>2. CASE hi # Len(raw)
      <4>1. hi + 1 \in Int /\ 1 <= hi + 1 /\ hi + 1 <= Len(raw) /\ (hi + 1) + 2 = hi + 3
        BY <1>4, <1>5, <3>2
      <4>2. hi + 1 \in DOMAIN raw /\ ~(hi + 1 <= hi)
        BY <1>4, <1>5, <4>1
      <4>3. raw[hi + 1] = "space"
        BY <1>1, <4>2
      <4>4. QED
        BY <1>6, <4>1, <4>3
    <3>3. QED
      BY <3>1, <3>2
  <2>4. QED
    BY <2>1, <2>2, <2>3 DEF At, Clear
<1> HIDE DEF d
<1>12. Within(t, v, d)
  BY <1>8, <1>9, <1>10, <1>11 DEF Within
<1>13. t # << >>
  <2>1. Len(t) >= 1
    BY <1>1, <1>5
  <2>2. Len(<< >>) = 0
    OBVIOUS
  <2>3. QED
    BY <2>1, <2>2
<1>14. refusal(t) # "none"
  BY DEF t
<1>15. refusal(v) # "none"
  BY <1>1, <1>3, <1>12, <1>13, <1>14, RefusedWithin
<1>16. QED
  BY <1>15 DEF v, u

-----------------------------------------------------------------------------
(* What is bound was drafted, trimmed and not refused. *)

NoteDraft == [text : Text, criterion : Optional(Text)]
CanBind == {trim(c) : c \in {c \in Text : refusal(trim(c)) = "none"}}
NotesInv ==
  /\ bound \subseteq CanBind
  /\ \A i \in DOMAIN note : note[i].criterion # None => note[i].criterion[1] \in CanBind
  /\ phase = "given" => note = IF given[1].draft # None /\ CanBeNote(given[1].draft[1])
                               THEN <<Note(given[1].draft[1])>> ELSE None

(* A text of a draft is one. *)
LEMMA TextIsText == \A t \in Text : IsText(t)
BY DEF Text, IsText

(* The draft of an invocation is a draft. *)
LEMMA DraftType ==
  ASSUME NEW i \in Invocations, i.draft # None
  PROVE  /\ i.draft[1] \in NoteDraft
         /\ i.draft[1].criterion # None => /\ DOMAIN i.draft[1].criterion = {1}
                                           /\ i.draft[1].criterion[1] \in Text
<1>1. i.draft \in Optional(NoteDraft)
  BY RunPlanAssumption DEF NoteDraft
<1>2. i.draft[1] \in NoteDraft
  BY <1>1, GivenType
<1>3. i.draft[1].criterion \in Optional(Text)
  BY <1>2 DEF NoteDraft
<1>4. ASSUME i.draft[1].criterion # None
      PROVE  DOMAIN i.draft[1].criterion = {1} /\ i.draft[1].criterion[1] \in Text
  <2>1. /\ Len(i.draft[1].criterion) = 1 /\ i.draft[1].criterion \in Seq(Text)
        /\ i.draft[1].criterion[1] \in Text
    BY <1>3, <1>4, GivenType
  <2>2. QED
    BY <2>1
<1>5. QED
  BY <1>2, <1>4

(* What a draft that can be a note binds. *)
LEMMA DraftBinds ==
  ASSUME NEW i \in Invocations, i.draft # None, CanBeNote(i.draft[1]),
         Note(i.draft[1]).criterion # None
  PROVE  Note(i.draft[1]).criterion[1] \in CanBind
<1> DEFINE draft == i.draft[1]
<1>1. Note(draft).criterion = [k \in DOMAIN draft.criterion |-> trim(draft.criterion[k])]
  BY DEF Note
<1>2. draft.criterion # None
  <2>1. ASSUME draft.criterion = None
        PROVE  FALSE
    <3>1. DOMAIN draft.criterion = {}
      BY <2>1 DEF None
    <3>2. Note(draft).criterion = << >>
      BY <1>1, <3>1
    <3>3. QED
      BY <3>2 DEF None
  <2>2. QED
    BY <2>1
<1>3. DOMAIN draft.criterion = {1} /\ draft.criterion[1] \in Text
  BY <1>2, DraftType
<1>4. Note(draft).criterion[1] = trim(draft.criterion[1]) /\ refusal(trim(draft.criterion[1])) = "none"
  BY <1>1, <1>3 DEF CanBeNote
<1>5. QED
  BY <1>3, <1>4 DEF CanBind

(* A delivery binds what can be bound. *)
LEMMA DeliversBinds ==
  ASSUME NotesInv, Delivers
  PROVE  bound' \subseteq CanBind
BY DEF Delivers, NotesInv

(* A step of a run that is under way binds something only by a delivery. *)
LEMMA RunStepBinds ==
  ASSUME RunStep
  PROVE  UNCHANGED note /\ (UNCHANGED bound \/ Delivers)
<1>1. CASE StopsAtOpening
  BY <1>1 DEF StopsAtOpening
<1>2. CASE WorkerReplies
  BY <1>2 DEF WorkerReplies
<1>3. CASE WorkerFails
  BY <1>3 DEF WorkerFails
<1>4. CASE Supervises
  BY <1>4 DEF Supervises
<1>5. CASE SupervisorFails
  BY <1>5 DEF SupervisorFails
<1>6. CASE Rejudge
  BY <1>6 DEF Rejudge, loop
<1>7. CASE ScoreEval
  BY <1>7 DEF ScoreEval, loop
<1>8. CASE Assess
  BY <1>8 DEF Assess, loop
<1>9. CASE ScoreFails
  BY <1>9 DEF ScoreFails, loop
<1>10. CASE Report
  BY <1>10 DEF Report, loop
<1>11. QED
  BY <1>1, <1>2, <1>3, <1>4, <1>5, <1>6, <1>7, <1>8, <1>9, <1>10 DEF RunStep

(* Nothing is bound to begin with. *)
LEMMA NotesInvInit == Init => NotesInv
<1>1. DOMAIN None = {}
  BY DEF None
<1>2. QED
  BY <1>1 DEF Init, NotesInv

(* Only what was drafted, trimmed and not refused is ever bound. *)
LEMMA NotesInvStep == PlanInv /\ NotesInv /\ [Next]_vars => NotesInv'
<1> SUFFICES ASSUME PlanInv, NotesInv, [Next]_vars
             PROVE  NotesInv'
  OBVIOUS
<1>1. CASE DraftNote
  <2>1. phase = "drafting" /\ UNCHANGED <<given, bound>>
    BY <1>1 DEF DraftNote, loop
  <2>2. PICK i \in Invocations : given = <<i>>
    BY <2>1 DEF PlanInv
  <2>3. given[1] = i /\ given'[1] = i
    BY <2>1, <2>2
  <2>4. note' = IF i.draft # None /\ CanBeNote(i.draft[1]) THEN <<Note(i.draft[1])>> ELSE None
    BY <1>1, <2>3 DEF DraftNote
  <2>5. \A k \in DOMAIN note' : note'[k].criterion # None => note'[k].criterion[1] \in CanBind
    <3>1. CASE i.draft # None /\ CanBeNote(i.draft[1])
      <4>1. note' = <<Note(i.draft[1])>>
        BY <2>4, <3>1
      <4>2. \A k \in DOMAIN note' : note'[k] = Note(i.draft[1])
        BY <4>1
      <4>3. QED
        BY <3>1, <4>2, DraftBinds
    <3>2. CASE ~(i.draft # None /\ CanBeNote(i.draft[1]))
      <4>1. note' = None /\ DOMAIN None = {}
        BY <2>4, <3>2 DEF None
      <4>2. QED
        BY <4>1
    <3>3. QED
      BY <3>1, <3>2
  <2>6. QED
    BY <2>1, <2>3, <2>4, <2>5 DEF NotesInv
<1>2. CASE ReadPlan \/ Build
  <2>1. UNCHANGED <<note, bound>> /\ phase' # "given"
    BY <1>2 DEF ReadPlan, Build, loop
  <2>2. QED
    BY <2>1 DEF NotesInv
<1>3. CASE RunStep
  <2>1. UNCHANGED note /\ phase' # "given"
    BY <1>3, RunStepBinds, RunStepStays DEF Running
  <2>2. bound' \subseteq CanBind
    BY <1>3, RunStepBinds, DeliversBinds DEF NotesInv
  <2>3. QED
    BY <2>1, <2>2 DEF NotesInv
<1>4. CASE UNCHANGED vars
  BY <1>4 DEF vars, loop, NotesInv
<1>5. QED
  BY <1>1, <1>2, <1>3, <1>4, NextIsKnown

(* What can be bound is usable. *)
LEMMA BoundIsUsable ==
  ASSUME NEW c \in CanBind
  PROVE  ~Unusable(c)
<1>1. PICK raw \in Text : c = trim(raw) /\ refusal(c) = "none"
  BY DEF CanBind
<1>2. ~Blanks(raw)
  BY <1>1, BlankIsRefused
<1>3. IsText(raw)
  BY <1>1, TextIsText
<1>4. PICK lo, hi \in DOMAIN raw :
        /\ lo <= hi /\ raw[lo] # "space"
        /\ IsText(c) /\ Len(c) = (hi - lo) + 1
        /\ \A k \in 1..((hi - lo) + 1) : c[k] = raw[(lo + k) - 1]
  BY <1>1, <1>2, <1>3, Trimmed
<1>5. ~Blanks(c)
  <2>1. lo \in Int /\ hi \in Int /\ lo <= hi
    BY <1>3, <1>4, TextFacts
  <2>2. 1 \in 1..((hi - lo) + 1) /\ (lo + 1) - 1 = lo /\ DOMAIN c = 1..((hi - lo) + 1)
    BY <1>4, <2>1, TextFacts
  <2>3. c[1] = raw[lo]
    BY <1>4, <2>2
  <2>4. QED
    BY <1>4, <2>2, <2>3 DEF Blanks
<1>6. ASSUME NEW demand \in Demands, AsksFor(c, demand)
      PROVE  FALSE
  <2>1. Standing(demand) /\ demand # << >> /\ refusal(demand) # "none"
    BY DemandStands, DemandIsRefused
  <2>2. PICK d \in Nat : Within(demand, c, d)
    BY <1>4, <1>6, <2>1, AskedIsWithin
  <2>3. refusal(c) # "none"
    BY <1>4, <2>1, <2>2, RefusedWithin DEF Standing
  <2>4. QED
    BY <1>1, <2>3
<1>7. QED
  BY <1>5, <1>6 DEF Unusable, Demands

(* Criteria that were drafted, trimmed and not refused are usable. *)
LEMMA UsableCriteriaBindIn == PlanInv /\ NotesInv => UsableCriteriaBind
<1> SUFFICES ASSUME PlanInv, NotesInv
             PROVE  UsableCriteriaBind
  OBVIOUS
<1>1. \A c \in bound : ~Unusable(c)
  BY BoundIsUsable DEF NotesInv
<1>2. ASSUME phase = "given", given[1].draft # None, Drafted.criterion # None
      PROVE  LET crit == Drafted.criterion[1] IN
             /\ Unusable(crit) => note = None
             /\ Usable(crit) /\ ~Blanks(Drafted.text) => note # None
             /\ note = None /\ ~Blanks(Drafted.text) /\ ~Blanks(crit) =>
                  ~CanBeNote([Drafted EXCEPT !.criterion[1] = InASentence(@)])
  <2>1. PICK i \in Invocations : given = <<i>>
    BY <1>2 DEF PlanInv
  <2> DEFINE draft == i.draft[1]
             raw == draft.criterion[1]
  <2>2. given[1] = i /\ Drafted = draft
    BY <2>1 DEF Drafted
  <2>3. note = IF CanBeNote(draft) THEN <<Note(draft)>> ELSE None
    BY <1>2, <2>2 DEF NotesInv
  <2>4. draft \in NoteDraft /\ DOMAIN draft.criterion = {1} /\ raw \in Text
    BY <1>2, <2>2, DraftType
  <2>5. IsText(raw) /\ IsText(draft.text)
    BY <2>4, TextIsText DEF NoteDraft
  <2>6. CanBeNote(draft) <=> trim(draft.text) # << >> /\ refusal(trim(raw)) = "none"
    BY <2>4 DEF CanBeNote
  <2>7. ~Blanks(draft.text) => trim(draft.text) # << >>
    <3>1. ASSUME ~Blanks(draft.text)
          PROVE  Len(trim(draft.text)) # 0
      <4>1. PICK lo, hi \in DOMAIN draft.text :
              lo <= hi /\ Len(trim(draft.text)) = (hi - lo) + 1
        BY <2>5, <3>1, Trimmed
      <4>2. lo \in Int /\ hi \in Int
        BY <2>5, TextFacts
      <4>3. QED
        BY <4>1, <4>2
    <3>2. Len(<< >>) = 0
      OBVIOUS
    <3>3. QED
      BY <3>1, <3>2
  <2>8. <<Note(draft)>> # None
    BY DEF None
  <2>9. Unusable(raw) => note = None
    BY <2>3, <2>5, <2>6, UnusableIsRefused
  <2>10. Usable(raw) /\ ~Blanks(draft.text) => note # None
    BY <2>3, <2>5, <2>6, <2>7, <2>8, UsableIsNotRefused
  <2>11. ASSUME note = None, ~Blanks(draft.text), ~Blanks(raw)
         PROVE  ~CanBeNote([draft EXCEPT !.criterion[1] = InASentence(@)])
    <3> DEFINE said == [draft EXCEPT !.criterion[1] = InASentence(@)]
    <3>1. refusal(trim(raw)) # "none"
      BY <2>3, <2>6, <2>7, <2>8, <2>11
    <3>2. refusal(trim(InASentence(raw))) # "none"
      BY <2>5, <2>11, <3>1, RefusedInASentence
    <3>3. 1 \in DOMAIN said.criterion /\ said.criterion[1] = InASentence(raw)
      BY <2>4 DEF NoteDraft
    <3> HIDE DEF said
    <3>4. ~CanBeNote(said)
      BY <3>2, <3>3 DEF CanBeNote
    <3>5. QED
      BY <3>4 DEF said
  <2>12. QED
    BY <2>2, <2>9, <2>10, <2>11
<1>3. QED
  BY <1>1, <1>2 DEF UsableCriteriaBind

(* A criterion that a note binds is one that finished work can meet: none  *)
(* that asks for a release, a command, a wording or what happens after the *)
(* run is ever in force, a plain one is never refused, and one refused is  *)
(* refused within any sentence (refusal and Note::new of note.rs).         *)
THEOREM UsableCriteriaBindHolds == Spec => []UsableCriteriaBind
<1>1. Init => PlanInv /\ NotesInv
  BY PlanInvInit, NotesInvInit
<1>2. PlanInv /\ NotesInv /\ [Next]_vars => (PlanInv /\ NotesInv)'
  BY PlanInvStep, NotesInvStep
<1>3. PlanInv /\ NotesInv => UsableCriteriaBind
  BY UsableCriteriaBindIn
<1>4. QED
  BY <1>1, <1>2, <1>3, PTL DEF Spec
===============================================================================
