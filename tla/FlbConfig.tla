----------------------------- MODULE FlbConfig -----------------------------
(***************************************************************************)
(* pkg/sink/flbconfig: the lexer and the parser of fluent-bit files, with  *)
(* which the tests of pkg/sink read back what config.go prints.            *)
(*                                                                         *)
(* The lexer is a machine whose state is the state function to call next;  *)
(* each call is an action, with the loop over runes that it may hold.      *)
(* Parse runs the lexer to its end and then looks at one token after the   *)
(* other.  A text is a sequence of classes of runes: a letter or number    *)
(* (alnum), a space or tab (blank), the runes the lexer knows, any other.  *)
(***************************************************************************)
EXTENDS Naturals, Sequences

CONSTANT Inputs  \* the texts to parse

Runes == {"alnum", "blank", "\n", "[", "]", ".", "other"}

ASSUME InputsAssumption == Inputs \subseteq Seq(Runes)

VARIABLES
  input,     \* Lexer.Input
  state,     \* Lexer.State, "nil" at the end
  tokens,    \* Lexer.Tokens
  start,     \* Lexer.Start
  pos,       \* Lexer.Pos
  next,      \* how many tokens Parse has looked at
  newline,   \* requireNewline
  doing,     \* "section" while processingSection, "kv" while processingKV
  key,       \* the key of that pair
  section,   \* the section being filled
  sections,  \* File.Sections
  result     \* "none" until Parse returns, then "ok" or the error

lexer == <<state, tokens, start, pos>>
parser == <<next, newline, doing, key, section, sections, result>>
vars == <<input, lexer, parser>>

Token(type, value) == [type |-> type, value |-> value]
EmptySection == [name |-> <<>>, pairs |-> <<>>]

Init ==
  /\ input \in Inputs
  /\ state = "LexStart"
  /\ tokens = <<>>
  /\ start = 0 /\ pos = 0
  /\ next = 0
  /\ newline = FALSE
  /\ doing = "nothing"
  /\ key = <<>>
  /\ section = EmptySection
  /\ sections = <<>>
  /\ result = "none"

-----------------------------------------------------------------------------
(***************************************************************************)
(* The lexer's helpers.                                                    *)
(***************************************************************************)
EOF(p) == p >= Len(input)

\* PeekNext at p; at the end of the text it gives utf8.RuneError.
Peek(p) == IF EOF(p) THEN "other" ELSE input[p + 1]

\* Where a loop that calls Next() while the rune is in R stops.
Past(R, p) == CHOOSE q \in p..Len(input) :
                /\ \A i \in p..(q - 1) : Peek(i) \in R
                /\ EOF(q) \/ Peek(q) \notin R

Goto(s) == state' = s /\ UNCHANGED <<input, parser>>

\* Mutant: Emit leaves Start where it is.
KeepStart(type, p, s) ==
  /\ tokens' = Append(tokens, Token(type, SubSeq(input, start + 1, p)))
  /\ pos' = p
  /\ Goto(s)
  /\ UNCHANGED start

\* Emit the text up to p and go on with s.
Emit(type, p, s) ==
  /\ tokens' = Append(tokens, Token(type, SubSeq(input, start + 1, p)))
  /\ pos' = p /\ start' = p
  /\ Goto(s)

Errorf(message, p) ==
  /\ tokens' = Append(tokens, Token("Error", message))
  /\ pos' = p
  /\ Goto("nil")
  /\ UNCHANGED start

\* Skip a rune and go on with s.
Skip(s) ==
  /\ pos' = pos + 1 /\ start' = pos + 1
  /\ Goto(s)
  /\ UNCHANGED tokens

(***************************************************************************)
(* The state functions.                                                    *)
(***************************************************************************)
LexStart ==
  /\ state = "LexStart"
  /\ Goto(IF EOF(pos) THEN "LexEOF"
          ELSE CASE Peek(pos) = "blank" -> "LexGlobalWhiteSpace"
                 [] Peek(pos) = "\n"    -> "LexNewLine"
                 [] Peek(pos) = "["     -> "LexLeftBracket"
                 [] OTHER               -> "LexKey")
  /\ UNCHANGED <<tokens, start, pos>>

LexEOF == state = "LexEOF" /\ Emit("EOF", pos, "nil")

\* Mutant: the blank is looked at and not consumed.
PeekBlank ==
  /\ state = "LexGlobalWhiteSpace"
  /\ start' = pos
  /\ Goto("LexStart")
  /\ UNCHANGED <<tokens, pos>>

\* Mutant: indentation is taken two runes at a time.
TwoBlanks ==
  /\ state = "LexGlobalWhiteSpace"
  /\ pos' = pos + 2 /\ start' = pos + 2
  /\ Goto("LexStart")
  /\ UNCHANGED tokens

LexGlobalWhiteSpace == state = "LexGlobalWhiteSpace" /\ Skip("LexStart")

LexKeyWhiteSpace ==
  /\ state = "LexKeyWhiteSpace"
  /\ Skip(IF Peek(pos + 1) = "blank" THEN "LexKeyWhiteSpace" ELSE "LexValue")

LexNewLine == state = "LexNewLine" /\ Emit("NewLine", pos + 1, "LexStart")

LexLeftBracket == state = "LexLeftBracket" /\ Emit("LeftBracket", pos + 1, "LexSection")

LexSection ==
  /\ state = "LexSection"
  /\ LET p == Past({"alnum"}, pos) IN
       IF EOF(p) THEN Errorf("unexpected EOF", p)
       ELSE IF Peek(p) = "]" THEN Emit("Section", p, "LexRightBracket")
       ELSE Errorf("missing right bracket", p)

LexRightBracket == state = "LexRightBracket" /\ Emit("RightBracket", pos + 1, "LexStart")

\* Mutant: after a key the lexer starts afresh.
ForgetKey ==
  /\ state = "LexKey"
  /\ LET p == Past({"alnum", "."}, pos) IN
       IF EOF(p) THEN Errorf("unexpected EOF", p)
       ELSE IF Peek(p) = "blank" THEN Emit("Key", p, "LexStart")
       ELSE Errorf("invalid key", p)

LexKey ==
  /\ state = "LexKey"
  /\ LET p == Past({"alnum", "."}, pos) IN
       IF EOF(p) THEN Errorf("unexpected EOF", p)
       ELSE IF Peek(p) = "blank" THEN Emit("Key", p, "LexKeyWhiteSpace")
       ELSE Errorf("invalid key", p)

LexValue ==
  /\ state = "LexValue"
  /\ LET p == Past(Runes \ {"\n"}, pos) IN
       IF EOF(p) THEN Errorf("unexpected EOF", p) ELSE Emit("Value", p, "LexStart")

-----------------------------------------------------------------------------
(***************************************************************************)
(* Parse, once the lexer has stopped: one action per type of token.        *)
(***************************************************************************)
Current == tokens[next + 1]

See(types) ==
  /\ state = "nil" /\ result = "none"
  /\ next < Len(tokens) /\ ~newline
  /\ Current.type \in types
  /\ next' = next + 1
  /\ UNCHANGED <<input, lexer>>

Return(r) == result' = r /\ UNCHANGED <<newline, doing, key, section, sections>>

ParseRequired ==
  /\ state = "nil" /\ result = "none"
  /\ next < Len(tokens) /\ newline
  /\ next' = next + 1
  /\ newline' = FALSE
  /\ result' = IF Current.type = "NewLine" THEN "none" ELSE "newline required"
  /\ UNCHANGED <<input, lexer, doing, key, section, sections>>

ParseError == See({"Error"}) /\ Return(Current.value)

ParseEOF ==
  /\ See({"EOF"})
  /\ IF doing # "nothing"
     THEN Return("unexpected EOF token")
     ELSE /\ sections' = Append(sections, section)
          /\ result' = "ok"
          /\ UNCHANGED <<newline, doing, key, section>>

ParseNewLine ==
  /\ See({"NewLine"})
  /\ Return(IF doing # "nothing" THEN "unexpected newline" ELSE "none")

\* Mutant: the pairs of the section before are carried over.
KeepPairs ==
  /\ See({"LeftBracket"})
  /\ IF doing # "nothing"
     THEN Return("unexpected left bracket")
     ELSE /\ sections' = Append(sections, section)
          /\ doing' = "section"
          /\ UNCHANGED <<newline, key, section, result>>

ParseLeftBracket ==
  /\ See({"LeftBracket"})
  /\ IF doing # "nothing"
     THEN Return("unexpected left bracket")
     ELSE /\ sections' = Append(sections, section)
          /\ doing' = "section"
          /\ section' = EmptySection
          /\ UNCHANGED <<newline, key, result>>

ParseSection ==
  /\ See({"Section"})
  /\ IF doing # "section"
     THEN Return("unexpected section")
     ELSE /\ section' = [section EXCEPT !.name = Current.value]
          /\ UNCHANGED <<newline, doing, key, sections, result>>

ParseRightBracket ==
  /\ See({"RightBracket"})
  /\ IF doing # "section"
     THEN Return("unexpected right bracket")
     ELSE /\ doing' = "nothing"
          /\ newline' = TRUE
          /\ UNCHANGED <<key, section, sections, result>>

ParseKey ==
  /\ See({"Key"})
  /\ IF doing # "nothing"
     THEN Return("unexpected key")
     ELSE /\ doing' = "kv"
          /\ key' = Current.value
          /\ UNCHANGED <<newline, section, sections, result>>

ParseValue ==
  /\ See({"Value"})
  /\ IF doing # "kv"
     THEN Return("unexpected value")
     ELSE /\ section' = [section EXCEPT !.pairs = Append(@, <<key, Current.value>>)]
          /\ doing' = "nothing"
          /\ key' = <<>>
          /\ UNCHANGED <<newline, sections, result>>

-----------------------------------------------------------------------------
Lex == \/ LexStart \/ LexEOF \/ LexGlobalWhiteSpace \/ LexKeyWhiteSpace \/ LexNewLine
       \/ LexLeftBracket \/ LexSection \/ LexRightBracket \/ LexKey \/ LexValue

Parse == \/ ParseRequired \/ ParseError \/ ParseEOF \/ ParseNewLine \/ ParseLeftBracket
         \/ ParseSection \/ ParseRightBracket \/ ParseKey \/ ParseValue

Next == Lex \/ Parse

\* Parse is called and runs: nothing can interrupt it.
Spec == Init /\ [][Next]_vars /\ WF_vars(Next)

-----------------------------------------------------------------------------
(***************************************************************************)
(* Properties.                                                             *)
(***************************************************************************)
TokenTypes == {"Error", "EOF", "NewLine", "LeftBracket", "RightBracket", "Section", "Key", "Value"}

Text == Seq(Runes)
SectionType == [name : Text, pairs : Seq(Text \X Text)]

\* Every variable holds a value of its type, and the slice of the text that
\* Emit takes is within bounds.
TypeOK ==
  /\ input \in Text
  /\ state \in {"LexStart", "LexEOF", "LexGlobalWhiteSpace", "LexKeyWhiteSpace", "LexNewLine",
                "LexLeftBracket", "LexSection", "LexRightBracket", "LexKey", "LexValue", "nil"}
  /\ \A i \in 1..Len(tokens) : tokens[i].type \in TokenTypes
  /\ start \in 0..pos /\ pos \in 0..Len(input)
  /\ next \in 0..Len(tokens)
  /\ newline \in BOOLEAN
  /\ doing \in {"nothing", "section", "kv"}
  /\ key \in Text
  /\ section \in SectionType
  /\ sections \in Seq(SectionType)

Expected == {"none", "ok", "unexpected EOF", "missing right bracket", "invalid key",
             "newline required"}

\* The lexer and the parser agree on the order of tokens: the text alone, never
\* a token out of place, makes Parse fail, and the tokens always end in EOF or
\* an error, so that Parse never runs out of them and drops the last section.
NeverUnexpected ==
  /\ result \in Expected
  /\ state = "nil" /\ result = "none" => next < Len(tokens)

\* Parse returns for every text.
Returns == <>(result # "none")

=============================================================================
