---------------------------- MODULE MCFlbConfig ----------------------------
(***************************************************************************)
(* An instance of FlbConfig for TLC: every text of a few runes, and files  *)
(* of several sections in the layout of the templates of config.go.        *)
(***************************************************************************)
EXTENDS FlbGrammar, SequencesExt

CONSTANT MaxLen  \* bound on the texts that are made of any runes

PairText(p) == <<"blank">> \o p[1] \o <<"blank">> \o p[2] \o <<"\n">>

SectionText(s) == <<"\n", "[">> \o s.name \o <<"]", "\n">> \o FlattenSeq([i \in 1..Len(s.pairs) |-> PairText(s.pairs[i])])

\* Match * and a key with a dot and an empty value.
somePairs == {<<<<"alnum", "alnum">>, <<"other", "blank">>>>, <<<<".">>, <<>>>>}

someSections == {[name |-> <<"alnum">>, pairs |-> ps] : ps \in BoundedSeq(somePairs, 2)}

Files == {FlattenSeq([i \in 1..Len(f) |-> SectionText(f[i])]) : f \in BoundedSeq(someSections, 2)}

SomeInputs == BoundedSeq(Runes, MaxLen) \cup Files

=============================================================================
