----------------------------- MODULE MCSqlStore -----------------------------
(* Instance of SqlStore for TLC: a database from before the word index with*)
(* a current and a superseded version and a text nothing refers to, and    *)
(* searches with and without a prefilter.                                  *)
EXTENDS SqlStore, TLC

CONSTANTS p, h1, h2, h3, t1, t2, t3

MCContents == h1 :> <<"a", "a", "b", ".">> @@ h2 :> <<"1", "a", "b">> @@ h3 :> <<"a", "b", "a">>
MCTokens   == h1 :> {"aab"} @@ h2 :> {"1ab"} @@ h3 :> {"aba"}

Row(n, h, ready) == [path |-> p, number |-> n, hash |-> h, ready |-> ready]

MCInitTables ==
    [rows |-> {Row(1, h2, FALSE), Row(2, h1, TRUE)}, current |-> p :> 2,
     raw |-> {h1, h3}, fts |-> h1 :> 1 @@ h2 :> 0 @@ h3 :> 1,
     words |-> h1 :> 0 @@ h2 :> 0 @@ h3 :> 1]

MCNoRow == [path |-> p, number |-> 0, hash |-> h1, ready |-> FALSE]

AA == Character("a")
BB == Character("b")

Unit(kind, h, q) == [kind |-> kind, path |-> p, hash |-> h, expected |-> 2, query |-> q]

Regex(branches) == [kind |-> "regex", pattern |-> branches, words |-> {}]
AnyWord(words)  == [kind |-> "any", pattern |-> <<>>, words |-> words]

(* One search through the trigram table and one through the words.         *)
MCQueries == {Regex(<< <<AA, AA, BB>> >>), AnyWord({"aab", "1ab"})}

NoQuery == AnyWord({})

Changes ==
    <<Unit("write", h2, NoQuery), Unit("cas", h3, NoQuery), Unit("prune", h1, NoQuery),
      Unit("sweep", h3, NoQuery), Unit("reindex", h1, NoQuery)>>

(* A compare-and-swap asked for against a version that is yet to be made:  *)
(* it may find the file there although it was one version behind when the  *)
(* number to insert was read.                                              *)
Early == [Unit("cas", h3, NoQuery) EXCEPT !.expected = 3]

Searches == {Unit("search", h1, q) : q \in MCQueries}

MCUnits == ToSet(Changes) \cup Searches \cup {Early}

(* The tasks are alike, so each load is taken once up to their names.  Two *)
(* of them may bring the same write; searches change nothing and one is    *)
(* enough.                                                                 *)
MCLoads ==
    LET n == 1..Len(Changes) IN
    {t1 :> Changes[i] @@ t2 :> Changes[j] @@ t3 :> u :
        <<i, j, u>> \in {x \in n \X n \X MCUnits :
                            /\ x[1] < x[2] \/ (x[1] = 1 /\ x[2] = 1)
                            /\ \/ x[3] \in Searches
                               \/ \E k \in n : x[2] < k /\ x[3] = Changes[k]}}
    \cup {t1 :> Changes[1] @@ t2 :> Early @@ t3 :> Unit("sweep", h3, NoQuery)}

(* The queries of this instance are prefiltered by what their matches have.*)
ASSUME QueriesArePrefiltered == LiteralsAreMandatory

(* The prefilter over every pattern of up to three items and every pattern *)
(* of two alternatives: the literal is in every string a pattern matches.  *)
Digits   == {"1", "2"}
Alphabet == {"a", "b", "."} \cup Digits

Atoms == {AA, BB, Escaped("."), AnyOf({"a", "b"}), NoneOf({"a"}, Alphabet), Digit(Digits),
          Dot(Alphabet), Group(<<"a", "b", "a">>)}

Items == Atoms \cup {OneOrMore(it) : it \in Atoms} \cup {AtMostOnce(it) : it \in {AA, Dot(Alphabet)}}
               \cup {AnyNumber(it) : it \in {BB, Group(<<"a", "b", "a">>)}}

Branches(n) == UNION {[1..k -> Items] : k \in 1..n}

ASSUME LiteralIsMandatory == \A b \in Branches(3) : Mandatory(<<b>>)

ASSUME NoLiteralOfAlternatives ==
    \A b \in [1..3 -> Atoms], c \in [1..1 -> Atoms] : Mandatory(<<b, c>>)

(* The counts of a repetition are taken for text: \d{1,3} is searched for  *)
(* as 1,3, which no text it matches need contain.                          *)
ASSUME CountsLeak ==
    /\ Literal(Written(<< <<OneToThree(Digit(Digits))>> >>)) = <<"1", ",", "3">>
    /\ ~Mandatory(<< <<OneToThree(Digit(Digits))>> >>)
=============================================================================
