----------------------------- MODULE FlbGrammar -----------------------------
(***************************************************************************)
(* The file format that the lexer and the parser of pkg/sink/flbconfig     *)
(* stand for, line by line:                                                *)
(*   blanks                          nothing                               *)
(*   blanks [ name ] blanks          a new section                         *)
(*   blanks key blanks value         a pair of the present section         *)
(* Every line ends with a newline; after the last one only blanks follow.  *)
(*                                                                         *)
(* Neither the order in which the lexer reads nor any recursion is in the  *)
(* definitions: a line belongs to the section whose number is that of the  *)
(* headers up to it, and a pair has the place of its line among the pairs  *)
(* of that section.                                                        *)
(***************************************************************************)
EXTENDS FlbConfig, Integers, FiniteSets

Only(R, t, from, to) == \A i \in from..to : t[i] \in R

NoNewline(t, from, to) == Only(Runes \ {"\n"}, t, from, to)

\* A line may begin after the first a runes of t.
Begins(t, a) == a = 0 \/ t[a] = "\n"

\* The lines of t: l[1] runes come before the line, l[2] before its newline.
Lines(t) ==
  {l \in (0..Len(t)) \X (0..Len(t)) :
     /\ l[1] <= l[2] /\ l[2] < Len(t)
     /\ Begins(t, l[1]) /\ t[l[2] + 1] = "\n"
     /\ NoNewline(t, l[1] + 1, l[2])}

IsBlank(t, l) == Only({"blank"}, t, l[1] + 1, l[2])

\* Where the brackets of the header in l are, if it is one.
Brackets(t, l) ==
  {q \in ((l[1] + 1)..l[2]) \X ((l[1] + 1)..l[2]) :
     /\ q[1] < q[2] /\ t[q[1]] = "[" /\ t[q[2]] = "]"
     /\ Only({"blank"}, t, l[1] + 1, q[1] - 1)
     /\ Only({"alnum"}, t, q[1] + 1, q[2] - 1)
     /\ Only({"blank"}, t, q[2] + 1, l[2])}

\* The names of the section that l begins: one or none.
Header(t, l) == {SubSeq(t, q[1] + 1, q[2] - 1) : q \in Brackets(t, l)}

\* Where the key, the blanks after it and the value in l begin, if it is a pair.
Starts(t, l) ==
  {q \in ((l[1] + 1)..l[2]) \X ((l[1] + 1)..l[2]) \X ((l[1] + 1)..(l[2] + 1)) :
     /\ q[1] < q[2] /\ q[2] < q[3]
     /\ Only({"blank"}, t, l[1] + 1, q[1] - 1)
     /\ Only({"alnum", "."}, t, q[1], q[2] - 1)
     /\ Only({"blank"}, t, q[2], q[3] - 1)
     /\ q[3] <= l[2] => t[q[3]] # "blank"}

\* The pairs of key and value that l holds: one or none.
Pair(t, l) == {<<SubSeq(t, q[1], q[2] - 1), SubSeq(t, q[3], l[2])>> : q \in Starts(t, l)}

HeaderLines(t) == {l \in Lines(t) : Header(t, l) # {}}
PairLines(t) == {l \in Lines(t) : Pair(t, l) # {}}

\* What follows the last newline is not a line.
WellFormed(t) ==
  /\ \A l \in Lines(t) : IsBlank(t, l) \/ l \in HeaderLines(t) \cup PairLines(t)
  /\ \A a \in 0..Len(t) :
       Begins(t, a) /\ NoNewline(t, a + 1, Len(t)) => Only({"blank"}, t, a + 1, Len(t))

\* The headers among the lines that end within the first a runes.
HeadersIn(t, a) == {h \in HeaderLines(t) : h[2] < a}

\* The section l belongs to, or begins.  The first one is that of the pairs
\* before any header.
SectionOf(t, l) == 1 + Cardinality(HeadersIn(t, l[2] + 1))

\* The pairs of section k among those lines, and the place of a pair.
PairsOf(t, k, a) == {l \in PairLines(t) : l[2] < a /\ SectionOf(t, l) = k}

PlaceOf(t, l) == Cardinality(PairsOf(t, SectionOf(t, l), l[2] + 1))

\* The sections that the lines within the first a runes of t mean.
MeansUpTo(t, a, file) ==
  /\ Len(file) = 1 + Cardinality(HeadersIn(t, a))
  /\ file[1].name = <<>>
  /\ \A h \in HeaderLines(t) : h[2] < a => file[SectionOf(t, h)].name \in Header(t, h)
  /\ \A k \in 1..Len(file) : Len(file[k].pairs) = Cardinality(PairsOf(t, k, a))
  /\ \A l \in PairLines(t) : l[2] < a => file[SectionOf(t, l)].pairs[PlaceOf(t, l)] \in Pair(t, l)

Means(t, file) == MeansUpTo(t, Len(t), file)

\* Parse accepts exactly the well-formed texts and returns what they mean.
ParsesTheFormat ==
  result # "none" =>
    /\ result = "ok" <=> WellFormed(input)
    /\ result = "ok" => Means(input, sections)

\* The runes other than blanks in the tokens, each by its token and its place,
\* and those of the text before Start.
Emitted ==
  {e \in UNION {{i} \X (1..Len(tokens[i].value)) : i \in {j \in 1..Len(tokens) : tokens[j].type # "Error"}} :
     tokens[e[1]].value[e[2]] # "blank"}

Consumed == {k \in 1..start : input[k] # "blank"}

Earlier(e, f) == e[1] < f[1] \/ (e[1] = f[1] /\ e[2] < f[2])

\* The lexer loses no rune, emits none twice and changes no order: the tokens
\* hold as many runes as the text before Start, blanks aside, and the n-th rune
\* in them is the n-th of the text.
Lossless ==
  /\ Cardinality(Emitted) = Cardinality(Consumed)
  /\ \A e \in Emitted, k \in Consumed :
       Cardinality({f \in Emitted : Earlier(f, e)}) = Cardinality({j \in Consumed : j < k}) =>
         tokens[e[1]].value[e[2]] = input[k]

=============================================================================
