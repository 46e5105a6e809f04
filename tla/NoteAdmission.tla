----------------------------- MODULE NoteAdmission -----------------------------
(***************************************************************************)
(* What a note must be before it can be sent (note.rs): it has a text that *)
(* somebody can read, and the criterion it binds, if it binds one, is a    *)
(* property of the finished work, not a spelling, a version, a command or  *)
(* something the worker cannot do.                                         *)
(*                                                                         *)
(* A text is a sequence of tokens: words in lower case, "9" for a run of   *)
(* digits, and the punctuation the rules look at, blanks included.  There  *)
(* is nothing before the first of them and after the last.                 *)
(***************************************************************************)
EXTENDS Integers, SequencesExt, FiniteSetsExt

Comparators == {">", "<", "=", "~", "^", "!"}
Punctuation == {"space", ".", "-", "underscore", "tick", "&&"} \cup Comparators

Nothing == "nothing"
Text == Seq(STRING \ {Nothing})
At(text, i) == IF i \in DOMAIN text THEN text[i] ELSE Nothing
Alphanumeric(token) == token \notin Punctuation \cup {Nothing}

Blanks(text) == \A i \in DOMAIN text : text[i] = "space"
MatchesAt(seq, i, phrase) == \A k \in DOMAIN phrase : i + k - 1 \in DOMAIN seq
                                                      /\ seq[i + k - 1] = phrase[k]

-----------------------------------------------------------------------------
(* The rules, each over the whole text. *)

(* What happens only after the worker settles. *)
OUT_OF_DISPATCH ==
  {<<"branch", "space", "publishes">>, <<"is", "space", "published">>,
   <<"pr", "space", "is", "space", "merged">>,
   <<"pull", "space", "request", "space", "is", "space", "merged">>,
   <<"lands", "space", "on", "space", "master">>, <<"lands", "space", "on", "space", "main">>,
   <<"deploy">>}
out_of_dispatch(text) == \E p \in OUT_OF_DISPATCH, i \in DOMAIN text : MatchesAt(text, i, p)

(* The words of a text, by where they begin, and a phrase of words that    *)
(* follow each other: punctuation between them cannot hide a match.        *)
words_of(text) == {i \in DOMAIN text : Alphanumeric(text[i]) /\ ~Alphanumeric(At(text, i - 1))}
IsWord(text, i, word) == text[i] = word /\ ~Alphanumeric(At(text, i + 1))
From(words, first, i) == {j \in words : first <= j /\ j < i}
sequence_at(text, phrase) ==
  \E first \in words_of(text) : \A k \in DOMAIN phrase :
    \E i \in words_of(text) : /\ IsWord(text, i, phrase[k])
                              /\ first <= i /\ Cardinality(From(words_of(text), first, i)) = k - 1

DEFERRAL_LEAD == {<<"of", "the", "shape">>, <<"as">>, <<"exactly", "as">>, <<"in", "the", "form">>,
                  <<"matching", "the", "wording">>, <<"per", "the">>}
DEFERRAL_TAIL == {<<"described">>, <<"specified">>, <<"stated">>, <<"set", "out">>, <<"given">>,
                  <<"above">>, <<"below">>}
deferral(text) ==
  \/ sequence_at(text, <<"the", "wording", "above">>)
  \/ \E lead \in DEFERRAL_LEAD, tail \in DEFERRAL_TAIL : sequence_at(text, lead \o tail)

PHRASE == {<<"verbatim">>, <<"word", "for", "word">>, <<"the", "exact", "phrase">>,
           <<"the", "exact", "wording">>, <<"the", "exact", "words">>}
phrase(text) == \E p \in PHRASE : sequence_at(text, p)

(* Nothing word-like immediately before. *)
BoundaryAtStart(text, i) == i = 1
is_boundary(text, i) == i = 1 \/ ~(Alphanumeric(text[i - 1]) \/ text[i - 1] = "underscore")

dotted(text, i, n) == MatchesAt(text, i, IF n = 3 THEN <<"9", ".", "9", ".", "9">>
                                         ELSE <<"9", ".", "9">>)

(* A release by three numbers, or by two after a "v" or a comparator.  No   *)
(* bare two numbers: those are a duration or a percentage far more often.   *)
bare(text, i) ==
  is_boundary(text, i) /\ dotted(text, IF text[i] = "v" THEN i + 1 ELSE i, 3)
marked(text, i) ==
  is_boundary(text, i) /\ text[i] = "v" /\ dotted(text, i + 1, 2) /\ At(text, i + 4) # "."
operand(text, i) == IF At(text, i + 1) = "=" THEN i + 2 ELSE i + 1
compared(text, i) ==
  /\ text[i] \in Comparators
  /\ \E n \in operand(text, i)..Len(text) : /\ Blanks(SubSeq(text, operand(text, i), n - 1))
                                            /\ dotted(text, n, 2)
version_literal(text) ==
  \E i \in DOMAIN text : bare(text, i) \/ marked(text, i) \/ compared(text, i)

(* A command named in a code span; every backtick opens one. *)
SHELL_BINARIES == {"npm", "pnpm", "nx", "cargo", "pytest", "git"}
code_span_invocation(text, binaries) ==
  \E i, j \in DOMAIN text :
    /\ i < j /\ text[i] = "tick" /\ \A k \in (i + 1)..j : text[k] # "tick"
    /\ text[j] \in binaries /\ At(text, j + 1) = "space"
    /\ is_boundary(SubSeq(text, i + 1, j), j - i)

(* Why a text cannot be a criterion: the first rule that it breaks. *)
refusal(text) ==
  CASE text = << >> -> "blank"
    [] out_of_dispatch(text) -> "out of dispatch"
    [] OTHER ->
       CASE deferral(text) -> "deferral"
         [] phrase(text) /\ ~deferral(text) -> "phrase"
         [] OTHER -> IF version_literal(text) THEN "version"
                     ELSE IF code_span_invocation(text, {"just"}) THEN "just"
                     ELSE IF \E i \in DOMAIN text : text[i] = "&&" THEN "chained"
                     ELSE IF code_span_invocation(text, SHELL_BINARIES) THEN "shell"
                     ELSE "none"

-----------------------------------------------------------------------------
(* A draft of a note: its text, and the criterion it is to bind, if any.   *)
(* The same rules hold for a note that is built and one that is read from  *)
(* the wire; both keep their texts without the blanks around them.         *)

Inked(text) == {i \in DOMAIN text : text[i] # "space"}
trim(text) == IF Inked(text) = {} THEN << >>
              ELSE SubSeq(text, Min(Inked(text)), Max(Inked(text)))

CanBeNote(draft) ==
  /\ trim(draft.text) # << >>
  /\ \A i \in DOMAIN draft.criterion : refusal(trim(draft.criterion[i])) = "none"

Note(draft) == [text |-> trim(draft.text),
                criterion |-> [i \in DOMAIN draft.criterion |-> trim(draft.criterion[i])]]
=============================================================================
