--------------------------- MODULE RegexPrefilter ---------------------------
(***************************************************************************)
(* The literal that the trigram index of the SQLite store is asked for     *)
(* before a regular expression is tried on a text (sqlite_metadata.py,     *)
(* _fts5_literal_from_pattern), and what it is measured by: a reference    *)
(* that builds patterns together with the strings they match.  Texts and   *)
(* patterns are sequences of characters.                                   *)
(***************************************************************************)
EXTENDS Naturals, Sequences, SequencesExt

(* One pass over the pattern: the longest run of literal characters so     *)
(* far, the current run, and what kind of character comes next.  After a   *)
(* backslash "escape"; inside a class "class", where a first ^ ("caret")   *)
(* or ] ("first") does not close it; "refused" is the early return None.   *)
AtStart == [mode |-> "plain", best |-> << >>, run |-> << >>]

Metacharacters == {"\\", ".", "^", "$", "*", "+", "?", "{", "}", "[", "]", "|", "(", ")"}

Longer(s) == IF Len(s.run) > Len(s.best) THEN s.run ELSE s.best

(* if len(current) > len(best): best = current[:]; current = []            *)
Flush(s, mode) == [mode |-> mode, best |-> Longer(s), run |-> << >>]

Collect(s, ch) == [s EXCEPT !.mode = "plain", !.run = Append(@, ch)]

ScanPlain(s, ch) ==
    CASE ch = "\\" -> [s EXCEPT !.mode = "escape"]
      [] ch = "[" -> Flush(s, "caret")
      [] ch \in {"|", "?", "*"} -> [s EXCEPT !.mode = "refused"]
      [] ch \in {".", "^", "$", "+", "{", "}", "(", ")"} -> Flush(s, "plain")
      [] OTHER -> Collect(s, ch)

(* An escaped metacharacter stands for itself, \d and the like for a set.  *)
ScanEscape(s, ch) ==
    IF ch \in Metacharacters THEN Collect(s, ch) ELSE Flush(s, "plain")

ScanClass(s, ch) ==
    [s EXCEPT !.mode =
        CASE s.mode = "caret" /\ ch = "^" -> "first"
          [] s.mode = "class" /\ ch = "]" -> "plain"
          [] OTHER -> "class"]

Scan(s, ch) ==
    CASE s.mode = "refused" -> s
      [] s.mode = "plain"   -> ScanPlain(s, ch)
      [] s.mode = "escape"  -> ScanEscape(s, ch)
      [] OTHER              -> ScanClass(s, ch)

NoLiteral == << >>

(* The literal to look for, NoLiteral to scan every text.                  *)
Literal(pattern) ==
    LET s == FoldLeft(Scan, AtStart, pattern) IN
    IF s.mode # "refused" /\ Len(Longer(s)) >= 3 THEN Longer(s) ELSE NoLiteral

----------------------------------------------------------------------------
(* The reference: an item of a pattern is how it is written and the strings*)
(* it matches, a pattern a sequence of alternatives, each a sequence of    *)
(* items.                                                                  *)

Item(written, words) == [written |-> written, words |-> words]

Character(c) == Item(<<c>>, {<<c>>})
Escaped(c)   == Item(<<"\\", c>>, {<<c>>})
AnyOf(S)     == Item(<<"[">> \o SetToSeq(S) \o <<"]">>, {<<c>> : c \in S})
NoneOf(S, alphabet) ==
    Item(<<"[", "^">> \o SetToSeq(S) \o <<"]">>, {<<c>> : c \in alphabet \ S})
Digit(digits) == Item(<<"\\", "d">>, {<<c>> : c \in digits})
Dot(alphabet) == Item(<<".">>, {<<c>> : c \in alphabet})
Group(w)      == Item(<<"(">> \o w \o <<")">>, {w})

Joined(W1, W2) == {x \o y : x \in W1, y \in W2}

Once(it)       == it
OneOrMore(it)  == Item(Append(it.written, "+"), it.words \cup Joined(it.words, it.words))
AtMostOnce(it) == Item(Append(it.written, "?"), it.words \cup {<< >>})
AnyNumber(it)  == Item(Append(it.written, "*"),
                       it.words \cup {<< >>} \cup Joined(it.words, it.words))
(* {1,3}: a counted repetition.                                            *)
OneToThree(it) ==
    Item(it.written \o <<"{", "1", ",", "3", "}">>,
         it.words \cup Joined(it.words, it.words) \cup
             Joined(it.words, Joined(it.words, it.words)))

WrittenBranch(branch) == FlattenSeq([i \in DOMAIN branch |-> branch[i].written])

WordsOf(branch) == FoldLeft(LAMBDA W, it : Joined(W, it.words), {<< >>}, branch)

Written(p) ==
    FoldLeft(LAMBDA w, branch : w \o <<"|">> \o WrittenBranch(branch),
             WrittenBranch(Head(p)), Tail(p))

(* The strings a match of p can be (a repetition twice at the most).       *)
Language(p) == UNION {WordsOf(p[i]) : i \in DOMAIN p}

Matches(p, content) == \E w \in Language(p) : w \in SubSeqs(content)

(* What the prefilter is for: a text without the literal has no match.     *)
Mandatory(p) ==
    Literal(Written(p)) # NoLiteral =>
        \A w \in Language(p) : Literal(Written(p)) \in SubSeqs(w)
=============================================================================
