-------------------------- MODULE FlbConfigProofs --------------------------
(***************************************************************************)
(* Proofs about FlbConfig and FlbGrammar, for every text: the lexer stays  *)
(* within the text it reads and loses none of it, the parser never meets a *)
(* token out of place, and Parse accepts the well-formed texts only and    *)
(* returns what they mean.                                                 *)
(*                                                                         *)
(* That tokens are in place rests on a grammar that both sides keep to.    *)
(* The lexer's state says what the parser will be doing once it has looked *)
(* at all the tokens emitted so far; the parser does, after each token,    *)
(* what that token says; and the token that follows is one it accepts.     *)
(*                                                                         *)
(* The other two rest on the places of the tokens in the text (Places): a  *)
(* token is a stretch of the text whose runes its type tells, between two  *)
(* tokens there are blanks, and an error stands where a line goes wrong.   *)
(* So the tokens before Start hold what is not blank in it; and what Parse *)
(* has read at the end of a line is what the lines up to it mean (Read).   *)
(***************************************************************************)
EXTENDS FlbGrammar, FiniteSetTheorems, FunctionTheorems, SequenceTheorems, WellFoundedInduction, TLAPS

Messages == {"unexpected EOF", "missing right bracket", "invalid key"}

TokenType == [type : TokenTypes \ {"Error"}, value : Text] \cup [type : {"Error"}, value : Messages]

Final == {"EOF", "Error"}

\* What Parse must be doing when it looks at a token of this type.
Before(type) == CASE type \in {"Section", "RightBracket"} -> "section"
                  [] type = "Value" -> "kv"
                  [] OTHER -> "nothing"

\* What Parse is doing once it has looked at a token of this type.
After(type) == CASE type \in {"LeftBracket", "Section"} -> "section"
                 [] type = "Key" -> "kv"
                 [] OTHER -> "nothing"

\* What Parse is doing when it has looked at the first n tokens.
DoingAt(n) == IF n = 0 THEN "nothing" ELSE After(tokens[n].type)

\* What Parse will be doing when it comes to the token this state emits.
DoingIn(s) == CASE s \in {"LexSection", "LexRightBracket"} -> "section"
                [] s \in {"LexKeyWhiteSpace", "LexValue"} -> "kv"
                [] OTHER -> "nothing"

\* The states whose function consumes a rune without looking at it again.
Consuming == {"LexGlobalWhiteSpace", "LexKeyWhiteSpace", "LexNewLine", "LexLeftBracket",
              "LexRightBracket"}

\* A state that consumes a rune is entered only when there is one.
RuneInv == state \in Consuming => pos < Len(input)

\* Every token is emitted where Parse accepts it; the last one, and no other,
\* is EOF or an error, and the lexer stops with it.
TokensInv ==
  /\ tokens \in Seq(TokenType)
  /\ \A i \in 1..Len(tokens) : tokens[i].type # "Error" => Before(tokens[i].type) = DoingAt(i - 1)
  /\ \A i \in 1..Len(tokens) : tokens[i].type \in Final <=> state = "nil" /\ i = Len(tokens)
  /\ state = "nil" => Len(tokens) > 0
  /\ state # "nil" => DoingAt(Len(tokens)) = DoingIn(state)

\* Parse starts when the lexer has stopped, and until it returns it has seen no
\* final token and is doing what the token before says.
ParserInv ==
  /\ state # "nil" => next = 0 /\ result = "none"
  /\ result \in Expected
  /\ result = "none" =>
       /\ doing = DoingAt(next)
       /\ \A i \in 1..next : tokens[i].type \notin Final

Inv == TypeOK /\ RuneInv /\ TokensInv /\ ParserInv

-----------------------------------------------------------------------------
(***************************************************************************)
(* The lexer's loops.                                                      *)
(***************************************************************************)

\* A set of natural numbers that is not empty has a least element.
LEMMA Least ==
  ASSUME NEW S, S \subseteq Nat, S # {}
  PROVE  \E n \in S : \A m \in S : n <= m
<1>1. PICK n \in S : \A m \in S : <<m, n>> \notin OpToRel(<, Nat)
  BY NatLessThanWellFounded, WFMin
<1>2. ASSUME NEW m \in S PROVE n <= m
  <2>1. <<m, n>> \notin OpToRel(<, Nat)
    BY <1>1
  <2>2. ~ (m < n)
    BY <2>1 DEF OpToRel
  <2> QED
    BY <2>2
<1> QED
  BY <1>2

\* A loop over runes stops, at the end of the text or at a rune it does not
\* take: the position that Past chooses exists.
LEMMA PastStops ==
  ASSUME NEW R, NEW p \in 0..Len(input), input \in Text
  PROVE  /\ Past(R, p) \in p..Len(input)
         /\ EOF(Past(R, p)) \/ Peek(Past(R, p)) \notin R
         /\ \A i \in p..(Past(R, p) - 1) : Peek(i) \in R
<1> DEFINE Stops == {q \in p..Len(input) : EOF(q) \/ Peek(q) \notin R}
<1>1. Len(input) \in Nat
  BY DEF Text
<1>2. Stops \subseteq Nat /\ Len(input) \in Stops
  BY <1>1 DEF EOF
<1>3. PICK q \in Stops : \A m \in Stops : q <= m
  <2> HIDE DEF Stops
  <2> QED
    BY <1>2, Least
<1>4. \A i \in p..(q - 1) : Peek(i) \in R
  <2>1. SUFFICES ASSUME NEW i \in p..(q - 1) PROVE Peek(i) \in R
    OBVIOUS
  <2>2. i \in p..Len(input) /\ ~ (q <= i)
    BY <1>1, <1>3
  <2> QED
    BY <1>3, <2>2
<1>5. \E x \in p..Len(input) : /\ \A i \in p..(x - 1) : Peek(i) \in R
                               /\ EOF(x) \/ Peek(x) \notin R
  BY <1>3, <1>4
<1> QED
  BY <1>5 DEF Past

-----------------------------------------------------------------------------
(***************************************************************************)
(* The three things a state function of the lexer does.                    *)
(***************************************************************************)
States == {"LexStart", "LexEOF", "LexGlobalWhiteSpace", "LexKeyWhiteSpace", "LexNewLine",
           "LexLeftBracket", "LexSection", "LexRightBracket", "LexKey", "LexValue", "nil"}

\* A slice of the text that Emit takes is a text.
LEMMA SliceIsText ==
  ASSUME NEW a \in Nat, NEW b \in Nat, b <= Len(input), input \in Text
  PROVE  SubSeq(input, a + 1, b) \in Text
BY DEF Text

\* Adding a token where Parse accepts it keeps the grammar of tokens; after a
\* final token the lexer must stop.
LEMMA AppendToken ==
  ASSUME TokensInv, state # "nil", NEW tok \in TokenType, NEW s \in States,
         tokens' = Append(tokens, tok), state' = s,
         tok.type # "Error" => Before(tok.type) = DoingIn(state),
         tok.type \in Final <=> s = "nil",
         s # "nil" => After(tok.type) = DoingIn(s)
  PROVE  /\ TokensInv'
         /\ \A i \in 1..Len(tokens') : tokens'[i].type \in TokenTypes
         /\ Len(tokens') = Len(tokens) + 1
<1>1. tokens \in Seq(TokenType) /\ Len(tokens) \in Nat
  BY DEF TokensInv
<1>2. /\ tokens' \in Seq(TokenType)
      /\ Len(tokens') = Len(tokens) + 1
      /\ tokens'[Len(tokens) + 1] = tok
      /\ \A i \in 1..Len(tokens) : tokens'[i] = tokens[i]
  BY <1>1
<1>3. \A n \in 0..Len(tokens) : DoingAt(n)' = DoingAt(n)
  BY <1>1, <1>2 DEF DoingAt
<1>4. ASSUME NEW i \in 1..Len(tokens'), tokens'[i].type # "Error"
      PROVE  Before(tokens'[i].type) = DoingAt(i - 1)'
  <2>1. CASE i \in 1..Len(tokens)
    <3>1. i - 1 \in 0..Len(tokens)
      BY <1>1, <2>1
    <3>2. Before(tokens[i].type) = DoingAt(i - 1)
      BY <1>2, <1>4, <2>1 DEF TokensInv
    <3> QED
      BY <1>2, <1>3, <2>1, <3>1, <3>2
  <2>2. CASE i = Len(tokens) + 1
    <3>1. i - 1 = Len(tokens) /\ i - 1 \in 0..Len(tokens)
      BY <1>1, <2>2
    <3>2. DoingAt(i - 1) = DoingIn(state)
      BY <3>1 DEF TokensInv
    <3>3. DoingAt(i - 1)' = DoingIn(state)
      BY <1>3, <3>1, <3>2
    <3> QED
      BY <1>2, <1>4, <2>2, <3>1, <3>3
  <2> QED
    BY <1>1, <1>2, <2>1, <2>2
<1>5. ASSUME NEW i \in 1..Len(tokens')
      PROVE  tokens'[i].type \in Final <=> s = "nil" /\ i = Len(tokens')
  <2>1. CASE i \in 1..Len(tokens)
    <3>1. tokens[i].type \notin Final
      BY <2>1 DEF TokensInv
    <3> QED
      BY <1>1, <1>2, <2>1, <3>1
  <2>2. CASE i = Len(tokens) + 1
    BY <1>2, <2>2
  <2> QED
    BY <1>1, <1>2, <2>1, <2>2
<1>6. DoingAt(Len(tokens))' = After(tok.type)
  BY <1>1, <1>2 DEF DoingAt
<1>7. \A i \in 1..Len(tokens') : tokens'[i].type \in TokenTypes
  <2>1. \A x \in TokenType : x.type \in TokenTypes
    BY DEF TokenType, TokenTypes
  <2> QED
    BY <1>2, <2>1
<1>8. TokensInv'
  BY <1>1, <1>2, <1>4, <1>5, <1>6 DEF TokensInv
<1> QED
  BY <1>2, <1>7, <1>8

\* While the lexer runs, Parse has not begun.
LEMMA NotParsing ==
  ASSUME Inv, state # "nil", UNCHANGED parser, tokens' \in Seq(TokenType)
  PROVE  /\ ParserInv'
         /\ next' \in 0..Len(tokens')
<1>1. next' = 0 /\ result' = "none" /\ doing' = doing /\ next = 0 /\ result = "none"
  BY DEF Inv, ParserInv, parser
<1>2. doing = "nothing"
  BY <1>1 DEF Inv, ParserInv, DoingAt
<1>3. doing' = DoingAt(next)'
  BY <1>1, <1>2 DEF DoingAt
<1>4. \A i \in 1..next' : tokens'[i].type \notin Final
  BY <1>1
<1>5. next' \in 0..Len(tokens')
  BY <1>1
<1> QED
  BY <1>1, <1>3, <1>4, <1>5 DEF ParserInv, Expected

\* Emit keeps the invariant, for a token Parse accepts there.
LEMMA EmitKeeps ==
  ASSUME Inv, state # "nil",
         NEW type \in TokenTypes \ {"Error"}, NEW p \in pos..Len(input), NEW s \in States,
         Emit(type, p, s),
         Before(type) = DoingIn(state),
         type = "EOF" <=> s = "nil",
         s # "nil" => After(type) = DoingIn(s),
         s \in Consuming => p < Len(input)
  PROVE  Inv'
<1> DEFINE tok == Token(type, SubSeq(input, start + 1, p))
<1>1. /\ input \in Text /\ input' = input
      /\ pos \in 0..Len(input) /\ start \in 0..pos
      /\ Len(input) \in Nat
  BY DEF Inv, TypeOK, Emit, Goto, Text
<1>2. tok \in TokenType /\ tok.type = type
  <2>1. SubSeq(input, start + 1, p) \in Text
    <3>1. start \in Nat /\ p \in Nat /\ p <= Len(input)
      BY <1>1
    <3> QED
      BY <1>1, <3>1, SliceIsText
  <2> QED
    BY <2>1 DEF Token, TokenType
<1>3. TokensInv /\ tokens' = Append(tokens, tok) /\ state' = s
  BY DEF Inv, Emit, Goto
<1>4. type \in Final <=> s = "nil"
  BY DEF Final
<1>5. /\ TokensInv'
      /\ \A i \in 1..Len(tokens') : tokens'[i].type \in TokenTypes
  <2> HIDE DEF tok
  <2> QED
    BY <1>2, <1>3, <1>4, AppendToken
<1>6. /\ UNCHANGED parser
      /\ pos' = p /\ start' = p
  BY DEF Emit, Goto
<1>7. ParserInv' /\ next' \in 0..Len(tokens')
  BY <1>5, <1>6, NotParsing DEF TokensInv
<1>8. RuneInv'
  BY <1>1, <1>3, <1>6 DEF RuneInv
<1>9. TypeOK'
  <2>1. start' \in 0..pos' /\ pos' \in 0..Len(input')
    BY <1>1, <1>6
  <2> QED
    BY <1>1, <1>3, <1>5, <1>6, <1>7, <2>1 DEF Inv, TypeOK, parser, States
<1> QED
  BY <1>5, <1>7, <1>8, <1>9 DEF Inv

\* Errorf keeps the invariant.
LEMMA ErrorfKeeps ==
  ASSUME Inv, state # "nil",
         NEW message \in Messages, NEW p \in pos..Len(input),
         Errorf(message, p)
  PROVE  Inv'
<1> DEFINE tok == Token("Error", message)
<1>1. /\ input \in Text /\ input' = input
      /\ pos \in 0..Len(input) /\ start \in 0..pos
      /\ Len(input) \in Nat
  BY DEF Inv, TypeOK, Errorf, Goto, Text
<1>2. tok \in TokenType /\ tok.type = "Error"
  BY DEF Token, TokenType
<1>3. TokensInv /\ tokens' = Append(tokens, tok) /\ state' = "nil" /\ "nil" \in States
  BY DEF Inv, Errorf, Goto, States
<1>4. tok.type \in Final
  BY <1>2 DEF Final
<1>5. /\ TokensInv'
      /\ \A i \in 1..Len(tokens') : tokens'[i].type \in TokenTypes
  <2> HIDE DEF tok
  <2> QED
    BY <1>2, <1>3, <1>4, AppendToken
<1>6. /\ UNCHANGED parser
      /\ pos' = p /\ start' = start
  BY DEF Errorf, Goto
<1>7. ParserInv' /\ next' \in 0..Len(tokens')
  BY <1>5, <1>6, NotParsing DEF TokensInv
<1>8. RuneInv'
  BY <1>3 DEF RuneInv, Consuming
<1>9. TypeOK'
  <2>1. start' \in 0..pos' /\ pos' \in 0..Len(input')
    BY <1>1, <1>6
  <2> QED
    BY <1>1, <1>3, <1>5, <1>6, <1>7, <2>1 DEF Inv, TypeOK, parser
<1> QED
  BY <1>5, <1>7, <1>8, <1>9 DEF Inv

\* A step of the lexer that emits nothing keeps the invariant.
LEMMA MoveKeeps ==
  ASSUME Inv, state # "nil",
         NEW s \in States \ {"nil"},
         Goto(s), UNCHANGED tokens,
         DoingIn(s) = DoingIn(state),
         start' \in 0..pos', pos' \in 0..Len(input),
         s \in Consuming => pos' < Len(input)
  PROVE  Inv'
<1>1. tokens' = tokens /\ input' = input /\ state' = s /\ s # "nil" /\ UNCHANGED parser
  BY DEF Goto
<1>2. \A n \in 0..Len(tokens) : DoingAt(n)' = DoingAt(n)
  BY <1>1 DEF DoingAt
<1>3. TokensInv'
  <2>1. tokens \in Seq(TokenType) /\ Len(tokens) \in Nat
    BY DEF Inv, TokensInv
  <2>2. \A i \in 1..Len(tokens) : tokens[i].type # "Error" => Before(tokens[i].type) = DoingAt(i - 1)'
    BY <1>1, <2>1 DEF Inv, TokensInv, DoingAt
  <2>3. DoingAt(Len(tokens))' = DoingIn(s)
    BY <1>1 DEF Inv, TokensInv, DoingAt
  <2>4. \A i \in 1..Len(tokens) : tokens[i].type \notin Final
    BY DEF Inv, TokensInv
  <2> QED
    BY <1>1, <2>1, <2>2, <2>3, <2>4 DEF TokensInv
<1>4. ParserInv' /\ next' \in 0..Len(tokens')
  BY <1>1, <1>3, NotParsing DEF TokensInv
<1>5. RuneInv'
  BY <1>1 DEF RuneInv
<1>6. TypeOK'
  BY <1>1, <1>4 DEF Inv, TypeOK, parser, States
<1> QED
  BY <1>3, <1>4, <1>5, <1>6 DEF Inv

-----------------------------------------------------------------------------
(***************************************************************************)
(* One step of Parse.                                                      *)
(***************************************************************************)

\* A step of Parse leaves the lexer alone and looks at one more token; it keeps
\* the invariant if, unless it returns, it is then doing what that token says
\* and the token is not a final one.
LEMMA ParseKeeps ==
  ASSUME Inv, state = "nil", result = "none", next < Len(tokens),
         next' = next + 1, UNCHANGED <<input, lexer>>,
         newline' \in BOOLEAN, key' \in Text, section' \in SectionType,
         sections' \in Seq(SectionType), doing' \in {"nothing", "section", "kv"},
         result' \in Expected,
         result' = "none" => Current.type \notin Final /\ doing' = After(Current.type)
  PROVE  Inv'
<1>1. /\ tokens' = tokens /\ state' = state /\ input' = input /\ start' = start /\ pos' = pos
      /\ tokens \in Seq(TokenType) /\ Len(tokens) \in Nat /\ next \in 0..Len(tokens)
  BY DEF lexer, Inv, TypeOK, TokensInv
<1>2. TokensInv'
  BY <1>1 DEF Inv, TokensInv, DoingAt
<1>3. RuneInv'
  BY <1>1 DEF Inv, RuneInv
<1>4. TypeOK'
  BY <1>1 DEF Inv, TypeOK
<1>5. ASSUME result' = "none"
      PROVE  doing' = DoingAt(next)' /\ \A i \in 1..next' : tokens'[i].type \notin Final
  <2>1. \A i \in 1..next : tokens[i].type \notin Final
    BY DEF Inv, ParserInv
  <2>2. \A i \in 1..(next + 1) : i \in 1..next \/ i = next + 1
    BY <1>1
  <2>3. next + 1 # 0
    BY <1>1
  <2> QED
    BY <1>1, <1>5, <2>1, <2>2, <2>3 DEF DoingAt, Current
<1>6. ParserInv'
  BY <1>1, <1>5 DEF ParserInv
<1> QED
  BY <1>2, <1>3, <1>4, <1>6 DEF Inv

\* The token Parse looks at is one it accepts in the place where it stands.
LEMMA CurrentFits ==
  ASSUME Inv, state = "nil", result = "none", next < Len(tokens)
  PROVE  /\ Current \in TokenType
         /\ Current.type # "Error" => Before(Current.type) = doing
         /\ Current.type # "Error" => Current.value \in Text
         /\ Current.type = "Error" => Current.value \in Messages
<1>1. tokens \in Seq(TokenType) /\ Len(tokens) \in Nat /\ next \in 0..Len(tokens)
  BY DEF Inv, TypeOK, TokensInv
<1>2. next + 1 \in 1..Len(tokens) /\ (next + 1) - 1 = next
  BY <1>1
<1>3. Current \in TokenType
  BY <1>1, <1>2 DEF Current
<1>4. Current.type # "Error" => Before(Current.type) = DoingAt(next)
  BY <1>2 DEF Inv, TokensInv, Current
<1> QED
  BY <1>3, <1>4 DEF Inv, ParserInv, TokenType

-----------------------------------------------------------------------------
(***************************************************************************)
(* Every step keeps the invariant.                                         *)
(***************************************************************************)

\* Init establishes the invariant.
LEMMA InitInv == Init => Inv
<1> SUFFICES ASSUME Init PROVE Inv
  OBVIOUS
<1>1. input \in Text /\ Len(input) \in Nat
  BY InputsAssumption DEF Init, Text
<1>2. <<>> \in Seq(TokenType) /\ <<>> \in Text /\ <<>> \in Seq(SectionType) /\ <<>> \in Seq(Text \X Text)
  BY DEF Text
<1>3. section \in SectionType
  BY <1>2 DEF Init, EmptySection, SectionType
<1>4. TypeOK
  <2>1. Len(tokens) = 0 /\ start \in 0..pos /\ pos \in 0..Len(input) /\ next \in 0..Len(tokens)
    BY <1>1 DEF Init
  <2>2. key \in Text /\ sections \in Seq(SectionType)
    BY <1>2 DEF Init
  <2>3. state = "LexStart" /\ newline = FALSE /\ doing = "nothing"
    BY DEF Init
  <2>4. \A i \in 1..Len(tokens) : tokens[i].type \in TokenTypes
    BY <2>1
  <2> QED
    BY <1>1, <1>3, <2>1, <2>2, <2>3, <2>4 DEF TypeOK
<1>5. RuneInv
  BY DEF Init, RuneInv, Consuming
<1>6. TokensInv
  BY <1>2 DEF Init, TokensInv, DoingAt, DoingIn
<1>7. ParserInv
  BY DEF Init, ParserInv, Expected, DoingAt
<1> QED
  BY <1>4, <1>5, <1>6, <1>7 DEF Inv

\* Every state function of the lexer keeps the invariant.
LEMMA LexInv == Inv /\ Lex => Inv'
<1> SUFFICES ASSUME Inv, Lex PROVE Inv'
  OBVIOUS
<1>1. /\ input \in Text /\ Len(input) \in Nat
      /\ pos \in 0..Len(input) /\ start \in 0..pos
  BY DEF Inv, TypeOK, Text
<1>2. pos \in pos..Len(input)
  BY <1>1
<1>3. state \in Consuming => pos + 1 \in pos..Len(input) /\ pos + 1 \in 0..Len(input)
  BY <1>1 DEF Inv, RuneInv
<1>4. \A q \in Nat : q <= Len(input) /\ ~ EOF(q) => q < Len(input)
  BY <1>1 DEF EOF
<1>5. CASE LexStart
  <2> DEFINE s == IF EOF(pos) THEN "LexEOF"
                  ELSE CASE Peek(pos) = "blank" -> "LexGlobalWhiteSpace"
                         [] Peek(pos) = "\n"    -> "LexNewLine"
                         [] Peek(pos) = "["     -> "LexLeftBracket"
                         [] OTHER               -> "LexKey"
  <2>1. s \in States \ {"nil"} /\ DoingIn(s) = "nothing" /\ (s \in Consuming => pos < Len(input))
    BY <1>1, <1>4 DEF States, DoingIn, Consuming
  <2>2. state # "nil" /\ DoingIn(state) = "nothing"
    BY <1>5 DEF LexStart, DoingIn
  <2>3. Goto(s) /\ UNCHANGED tokens /\ pos' = pos /\ start' = start
    BY <1>5 DEF LexStart
  <2> HIDE DEF s
  <2> QED
    BY <1>1, <2>1, <2>2, <2>3, MoveKeeps
<1>6. CASE LexEOF
  <2>1. /\ Emit("EOF", pos, "nil") /\ state # "nil" /\ "EOF" \in TokenTypes \ {"Error"}
        /\ "nil" \in States /\ "nil" \notin Consuming
        /\ Before("EOF") = DoingIn(state)
    BY <1>6 DEF LexEOF, TokenTypes, States, Before, DoingIn, Consuming
  <2> QED
    BY <1>2, <2>1, EmitKeeps
<1>7. CASE LexGlobalWhiteSpace
  <2>1. /\ Goto("LexStart") /\ UNCHANGED tokens /\ pos' = pos + 1 /\ start' = pos + 1
        /\ state # "nil" /\ "LexStart" \in States \ {"nil"} /\ "LexStart" \notin Consuming
        /\ DoingIn("LexStart") = DoingIn(state) /\ state \in Consuming
    BY <1>7 DEF LexGlobalWhiteSpace, Skip, States, DoingIn, Consuming
  <2>2. start' \in 0..pos' /\ pos' \in 0..Len(input)
    BY <1>1, <1>3, <2>1
  <2> QED
    BY <2>1, <2>2, MoveKeeps
<1>8. CASE LexKeyWhiteSpace
  <2> DEFINE s == IF Peek(pos + 1) = "blank" THEN "LexKeyWhiteSpace" ELSE "LexValue"
  <2>1. /\ Goto(s) /\ UNCHANGED tokens /\ pos' = pos + 1 /\ start' = pos + 1
        /\ state # "nil" /\ s \in States \ {"nil"}
        /\ DoingIn(s) = DoingIn(state) /\ state \in Consuming
    BY <1>8 DEF LexKeyWhiteSpace, Skip, States, DoingIn, Consuming
  <2>2. start' \in 0..pos' /\ pos' \in 0..Len(input)
    BY <1>1, <1>3, <2>1
  <2>3. s \in Consuming => pos' < Len(input)
    <3>1. s \in Consuming => Peek(pos + 1) = "blank"
      BY DEF Consuming
    <3>2. Peek(pos + 1) = "blank" => ~ EOF(pos + 1)
      BY DEF Peek
    <3> QED
      BY <1>1, <1>3, <1>4, <2>1, <3>1, <3>2
  <2> HIDE DEF s
  <2> QED
    BY <2>1, <2>2, <2>3, MoveKeeps
<1>9. CASE LexNewLine
  <2>1. /\ Emit("NewLine", pos + 1, "LexStart") /\ state # "nil" /\ "NewLine" \in TokenTypes \ {"Error"}
        /\ "LexStart" \in States /\ "LexStart" \notin Consuming /\ state \in Consuming
        /\ Before("NewLine") = DoingIn(state) /\ After("NewLine") = DoingIn("LexStart")
    BY <1>9 DEF LexNewLine, TokenTypes, States, Before, After, DoingIn, Consuming
  <2> QED
    BY <1>3, <2>1, EmitKeeps
<1>10. CASE LexLeftBracket
  <2>1. /\ Emit("LeftBracket", pos + 1, "LexSection") /\ state # "nil"
        /\ "LeftBracket" \in TokenTypes \ {"Error"}
        /\ "LexSection" \in States /\ "LexSection" \notin Consuming /\ state \in Consuming
        /\ Before("LeftBracket") = DoingIn(state) /\ After("LeftBracket") = DoingIn("LexSection")
    BY <1>10 DEF LexLeftBracket, TokenTypes, States, Before, After, DoingIn, Consuming
  <2> QED
    BY <1>3, <2>1, EmitKeeps
<1>11. CASE LexRightBracket
  <2>1. /\ Emit("RightBracket", pos + 1, "LexStart") /\ state # "nil"
        /\ "RightBracket" \in TokenTypes \ {"Error"}
        /\ "LexStart" \in States /\ "LexStart" \notin Consuming /\ state \in Consuming
        /\ Before("RightBracket") = DoingIn(state) /\ After("RightBracket") = DoingIn("LexStart")
    BY <1>11 DEF LexRightBracket, TokenTypes, States, Before, After, DoingIn, Consuming
  <2> QED
    BY <1>3, <2>1, EmitKeeps
<1>12. "unexpected EOF" \in Messages /\ "missing right bracket" \in Messages /\ "invalid key" \in Messages
  BY DEF Messages
<1>13. CASE LexSection
  <2>1. PICK p \in pos..Len(input) : p = Past({"alnum"}, pos)
    BY <1>1, PastStops
  <2>2. state # "nil"
    BY <1>13 DEF LexSection
  <2>3. CASE Errorf("unexpected EOF", p) \/ Errorf("missing right bracket", p)
    BY <1>12, <2>2, <2>3, ErrorfKeeps
  <2>4. CASE ~ EOF(p) /\ Emit("Section", p, "LexRightBracket")
    <3>1. /\ "Section" \in TokenTypes \ {"Error"} /\ "LexRightBracket" \in States
          /\ Before("Section") = DoingIn(state) /\ After("Section") = DoingIn("LexRightBracket")
      BY <1>13 DEF LexSection, TokenTypes, States, Before, After, DoingIn
    <3>2. p < Len(input)
      BY <1>1, <1>4, <2>4
    <3> QED
      BY <2>2, <2>4, <3>1, <3>2, EmitKeeps
  <2> QED
    BY <1>13, <2>1, <2>3, <2>4 DEF LexSection
<1>14. CASE LexKey
  <2>1. PICK p \in pos..Len(input) : p = Past({"alnum", "."}, pos)
    BY <1>1, PastStops
  <2>2. state # "nil"
    BY <1>14 DEF LexKey
  <2>3. CASE Errorf("unexpected EOF", p) \/ Errorf("invalid key", p)
    BY <1>12, <2>2, <2>3, ErrorfKeeps
  <2>4. CASE ~ EOF(p) /\ Emit("Key", p, "LexKeyWhiteSpace")
    <3>1. /\ "Key" \in TokenTypes \ {"Error"} /\ "LexKeyWhiteSpace" \in States
          /\ Before("Key") = DoingIn(state) /\ After("Key") = DoingIn("LexKeyWhiteSpace")
      BY <1>14 DEF LexKey, TokenTypes, States, Before, After, DoingIn
    <3>2. p < Len(input)
      BY <1>1, <1>4, <2>4
    <3> QED
      BY <2>2, <2>4, <3>1, <3>2, EmitKeeps
  <2> QED
    BY <1>14, <2>1, <2>3, <2>4 DEF LexKey
<1>15. CASE LexValue
  <2>1. PICK p \in pos..Len(input) : p = Past(Runes \ {"\n"}, pos)
    BY <1>1, PastStops
  <2>2. state # "nil"
    BY <1>15 DEF LexValue
  <2>3. CASE Errorf("unexpected EOF", p)
    BY <1>12, <2>2, <2>3, ErrorfKeeps
  <2>4. CASE Emit("Value", p, "LexStart")
    <3>1. /\ "Value" \in TokenTypes \ {"Error"} /\ "LexStart" \in States /\ "LexStart" \notin Consuming
          /\ Before("Value") = DoingIn(state) /\ After("Value") = DoingIn("LexStart")
      BY <1>15 DEF LexValue, TokenTypes, States, Before, After, DoingIn, Consuming
    <3> QED
      BY <2>2, <2>4, <3>1, EmitKeeps
  <2> QED
    BY <1>15, <2>1, <2>3, <2>4 DEF LexValue
<1> QED
  BY <1>5, <1>6, <1>7, <1>8, <1>9, <1>10, <1>11, <1>13, <1>14, <1>15 DEF Lex

\* Every step of Parse keeps the invariant: none of the branches that return
\* "unexpected ..." is taken.
LEMMA ParseInv == Inv /\ Parse => Inv'
<1> SUFFICES ASSUME Inv, Parse PROVE Inv'
  OBVIOUS
<1>1. /\ state = "nil" /\ result = "none" /\ next < Len(tokens)
      /\ next' = next + 1 /\ UNCHANGED <<input, lexer>>
  BY DEF Parse, ParseRequired, ParseError, ParseEOF, ParseNewLine, ParseLeftBracket, ParseSection,
         ParseRightBracket, ParseKey, ParseValue, See
<1>2. /\ newline \in BOOLEAN /\ key \in Text /\ section \in SectionType
      /\ sections \in Seq(SectionType) /\ doing \in {"nothing", "section", "kv"}
  BY DEF Inv, TypeOK
<1>3. /\ Current.type # "Error" => Before(Current.type) = doing /\ Current.value \in Text
      /\ Current.type = "Error" => Current.value \in Messages
  BY <1>1, CurrentFits
<1>4. EmptySection \in SectionType /\ <<>> \in Text
  <2>1. <<>> \in Text /\ <<>> \in Seq(Text \X Text)
    BY DEF Text
  <2> QED
    BY <2>1 DEF EmptySection, SectionType
<1>5. Append(sections, section) \in Seq(SectionType)
  BY <1>2
<1>6. CASE ParseRequired
  <2>1. /\ newline' = FALSE /\ UNCHANGED <<doing, key, section, sections>>
        /\ result' = IF Current.type = "NewLine" THEN "none" ELSE "newline required"
    BY <1>6 DEF ParseRequired
  <2>2. result' = "none" => Current.type \notin Final /\ doing' = After(Current.type)
    BY <1>3, <2>1 DEF Final, Before, After
  <2>3. result' \in Expected
    BY <2>1 DEF Expected
  <2> QED
    BY <1>1, <1>2, <2>1, <2>2, <2>3, ParseKeeps
<1>7. CASE ParseError
  <2>1. /\ UNCHANGED <<newline, doing, key, section, sections>>
        /\ result' = Current.value /\ Current.type = "Error"
    BY <1>7 DEF ParseError, See, Return
  <2>2. result' \in Expected /\ result' # "none"
    BY <1>3, <2>1 DEF Messages, Expected
  <2> QED
    BY <1>1, <1>2, <2>1, <2>2, ParseKeeps
<1>8. CASE ParseEOF
  <2>1. Current.type = "EOF" /\ doing = "nothing"
    BY <1>3, <1>8 DEF ParseEOF, See, Before
  <2>2. UNCHANGED <<newline, doing, key, section>> /\ sections' = Append(sections, section) /\ result' = "ok"
    BY <1>8, <2>1 DEF ParseEOF
  <2>3. result' \in Expected /\ result' # "none"
    BY <2>2 DEF Expected
  <2> QED
    BY <1>1, <1>2, <1>5, <2>2, <2>3, ParseKeeps
<1>9. CASE ParseNewLine
  <2>1. Current.type = "NewLine" /\ doing = "nothing"
    BY <1>3, <1>9 DEF ParseNewLine, See, Before
  <2>2. UNCHANGED <<newline, doing, key, section, sections>> /\ result' = "none"
    BY <1>9, <2>1 DEF ParseNewLine, Return
  <2>3. result' \in Expected /\ Current.type \notin Final /\ doing' = After(Current.type)
    BY <2>1, <2>2 DEF Expected, Final, After
  <2> QED
    BY <1>1, <1>2, <2>2, <2>3, ParseKeeps
<1>10. CASE ParseLeftBracket
  <2>1. Current.type = "LeftBracket" /\ doing = "nothing"
    BY <1>3, <1>10 DEF ParseLeftBracket, See, Before
  <2>2. /\ UNCHANGED <<newline, key, result>> /\ doing' = "section"
        /\ sections' = Append(sections, section) /\ section' = EmptySection
    BY <1>10, <2>1 DEF ParseLeftBracket
  <2>3. result' \in Expected /\ Current.type \notin Final /\ doing' = After(Current.type)
    BY <1>1, <2>1, <2>2 DEF Expected, Final, After
  <2> QED
    BY <1>1, <1>2, <1>4, <1>5, <2>2, <2>3, ParseKeeps
<1>11. CASE ParseSection
  <2>1. Current.type = "Section" /\ doing = "section" /\ Current.value \in Text
    BY <1>3, <1>11 DEF ParseSection, See, Before
  <2>2. /\ UNCHANGED <<newline, doing, key, sections, result>>
        /\ section' = [section EXCEPT !.name = Current.value]
    BY <1>11, <2>1 DEF ParseSection
  <2>3. result' \in Expected /\ Current.type \notin Final /\ doing' = After(Current.type)
    BY <1>1, <2>1, <2>2 DEF Expected, Final, After
  <2>4. section' \in SectionType
    BY <1>2, <2>1, <2>2 DEF SectionType
  <2> QED
    BY <1>1, <1>2, <2>2, <2>3, <2>4, ParseKeeps
<1>12. CASE ParseRightBracket
  <2>1. Current.type = "RightBracket" /\ doing = "section"
    BY <1>3, <1>12 DEF ParseRightBracket, See, Before
  <2>2. UNCHANGED <<key, section, sections, result>> /\ doing' = "nothing" /\ newline' = TRUE
    BY <1>12, <2>1 DEF ParseRightBracket
  <2>3. result' \in Expected /\ Current.type \notin Final /\ doing' = After(Current.type)
    BY <1>1, <2>1, <2>2 DEF Expected, Final, After
  <2> QED
    BY <1>1, <1>2, <2>2, <2>3, ParseKeeps
<1>13. CASE ParseKey
  <2>1. Current.type = "Key" /\ doing = "nothing" /\ Current.value \in Text
    BY <1>3, <1>13 DEF ParseKey, See, Before
  <2>2. UNCHANGED <<newline, section, sections, result>> /\ doing' = "kv" /\ key' = Current.value
    BY <1>13, <2>1 DEF ParseKey
  <2>3. result' \in Expected /\ Current.type \notin Final /\ doing' = After(Current.type)
    BY <1>1, <2>1, <2>2 DEF Expected, Final, After
  <2> QED
    BY <1>1, <1>2, <2>1, <2>2, <2>3, ParseKeeps
<1>14. CASE ParseValue
  <2>1. Current.type = "Value" /\ doing = "kv" /\ Current.value \in Text
    BY <1>3, <1>14 DEF ParseValue, See, Before
  <2>2. /\ UNCHANGED <<newline, sections, result>> /\ doing' = "nothing" /\ key' = <<>>
        /\ section' = [section EXCEPT !.pairs = Append(@, <<key, Current.value>>)]
    BY <1>14, <2>1 DEF ParseValue
  <2>3. result' \in Expected /\ Current.type \notin Final /\ doing' = After(Current.type)
    BY <1>1, <2>1, <2>2 DEF Expected, Final, After
  <2>4. section' \in SectionType
    <3>1. Append(section.pairs, <<key, Current.value>>) \in Seq(Text \X Text)
      BY <1>2, <2>1 DEF SectionType
    <3> QED
      BY <1>2, <2>2, <3>1 DEF SectionType
  <2> QED
    BY <1>1, <1>2, <1>4, <2>2, <2>3, <2>4, ParseKeeps
<1> QED
  BY <1>6, <1>7, <1>8, <1>9, <1>10, <1>11, <1>12, <1>13, <1>14 DEF Parse

\* The invariant is inductive, and so holds throughout.
THEOREM Invariant == Spec => []Inv
<1>1. Inv /\ UNCHANGED vars => Inv'
  <2> SUFFICES ASSUME Inv, UNCHANGED vars PROVE Inv'
    OBVIOUS
  <2>1. /\ input' = input /\ state' = state /\ tokens' = tokens /\ start' = start /\ pos' = pos
        /\ next' = next /\ newline' = newline /\ doing' = doing /\ key' = key
        /\ section' = section /\ sections' = sections /\ result' = result
    BY DEF vars, lexer, parser
  <2> QED
    BY <2>1 DEF Inv, TypeOK, RuneInv, TokensInv, ParserInv, DoingAt
<1> QED
  BY <1>1, InitInv, LexInv, ParseInv, PTL DEF Spec, Next

\* The lexer never leaves the text: for every text the slices that Emit takes
\* are within bounds, and the parser's state is well formed.
THEOREM TypeCorrect == Spec => []TypeOK
BY Invariant, PTL DEF Inv

\* For every text, no branch of Parse that reports an unexpected token is ever
\* taken, and Parse returns before it runs out of tokens.
THEOREM TokensInPlace == Spec => []NeverUnexpected
<1>1. Inv => NeverUnexpected
  <2> SUFFICES ASSUME Inv PROVE NeverUnexpected
    OBVIOUS
  <2>1. ASSUME state = "nil", result = "none" PROVE next < Len(tokens)
    <3>1. next \in 0..Len(tokens) /\ Len(tokens) \in Nat /\ Len(tokens) > 0
      BY <2>1 DEF Inv, TypeOK, TokensInv
    <3>2. tokens[Len(tokens)].type \in Final
      BY <2>1, <3>1 DEF Inv, TokensInv
    <3>3. Len(tokens) \notin 1..next
      BY <2>1, <3>2 DEF Inv, ParserInv
    <3> QED
      BY <3>1, <3>3
  <2> QED
    BY <2>1 DEF NeverUnexpected, Inv, ParserInv
<1> QED
  BY <1>1, Invariant, PTL

-----------------------------------------------------------------------------
(***************************************************************************)
(* Lines.                                                                  *)
(***************************************************************************)

\* What Lines says of one pair of positions.
LEMMA LineDef ==
  ASSUME NEW t \in Text, NEW a \in Nat, NEW b \in Nat
  PROVE  <<a, b>> \in Lines(t) <=>
           /\ a <= b /\ b < Len(t)
           /\ Begins(t, a) /\ t[b + 1] = "\n"
           /\ NoNewline(t, a + 1, b)
<1>1. Len(t) \in Nat
  BY DEF Text
<1>2. a <= b /\ b < Len(t) => <<a, b>> \in (0..Len(t)) \X (0..Len(t))
  BY <1>1
<1> QED
  BY <1>2 DEF Lines

\* A line is a pair of positions.
LEMMA LineType ==
  ASSUME NEW t \in Text, NEW l \in Lines(t)
  PROVE  /\ l[1] \in Nat /\ l[2] \in Nat /\ l = <<l[1], l[2]>>
         /\ l[1] <= l[2] /\ l[2] < Len(t)
         /\ Begins(t, l[1]) /\ t[l[2] + 1] = "\n"
         /\ NoNewline(t, l[1] + 1, l[2])
<1>1. Len(t) \in Nat
  BY DEF Text
<1> QED
  BY <1>1 DEF Lines

\* From where a line may begin there is a line, or no newline any more.
LEMMA LineOrRest ==
  ASSUME NEW t \in Text, NEW a \in 0..Len(t), NEW p \in a..Len(t),
         Begins(t, a), NoNewline(t, a + 1, p)
  PROVE  \/ NoNewline(t, a + 1, Len(t))
         \/ \E b \in p..Len(t) : b < Len(t) /\ <<a, b>> \in Lines(t)
<1> DEFINE N == {b \in a..Len(t) : b < Len(t) /\ t[b + 1] = "\n"}
<1>1. Len(t) \in Nat /\ N \subseteq Nat
  BY DEF Text
<1>2. ASSUME NEW i \in (a + 1)..Len(t), t[i] \notin Runes \ {"\n"} PROVE i - 1 \in N
  <2>1. t[i] \in Runes
    BY <1>1, <1>2 DEF Text
  <2> QED
    BY <1>1, <1>2, <2>1
<1>3. CASE N = {}
  BY <1>2, <1>3 DEF NoNewline, Only
<1>4. CASE N # {}
  <2>1. PICK b \in N : \A m \in N : b <= m
    <3> HIDE DEF N
    <3> QED
      BY <1>1, <1>4, Least
  <2>2. NoNewline(t, a + 1, b)
    <3>1. SUFFICES ASSUME NEW i \in (a + 1)..b, t[i] \notin Runes \ {"\n"} PROVE FALSE
      BY DEF NoNewline, Only
    <3>2. i \in (a + 1)..Len(t)
      BY <1>1, <2>1
    <3>3. i - 1 \in N /\ ~ (b <= i - 1)
      BY <1>1, <1>2, <2>1, <3>1, <3>2
    <3> QED
      BY <2>1, <3>3
  <2>3. p <= b
    <3>1. SUFFICES ASSUME b < p PROVE FALSE
      BY <1>1, <2>1
    <3>2. b + 1 \in (a + 1)..p
      BY <1>1, <2>1, <3>1
    <3> QED
      BY <2>1, <3>2 DEF NoNewline, Only
  <2>4. <<a, b>> \in Lines(t)
    BY <1>1, <2>1, <2>2, LineDef
  <2>5. b \in p..Len(t) /\ b < Len(t)
    BY <1>1, <2>1, <2>3
  <2> QED
    BY <2>4, <2>5
<1> QED
  BY <1>3, <1>4

\* A line is the next one after those that end before it begins.
LEMMA NextLine ==
  ASSUME NEW t \in Text, NEW a \in Nat, NEW b \in Nat, <<a, b>> \in Lines(t), NEW l \in Lines(t)
  PROVE  /\ l[2] < b + 1 <=> l[2] < a \/ l = <<a, b>>
         /\ l[2] <= b <=> l[2] < a \/ l = <<a, b>>
<1>1. /\ a <= b /\ b < Len(t) /\ Len(t) \in Nat
      /\ Begins(t, a) /\ t[b + 1] = "\n"
      /\ NoNewline(t, a + 1, b)
  BY LineDef DEF Text
<1>2. /\ l[1] \in Nat /\ l[2] \in Nat /\ l = <<l[1], l[2]>>
      /\ l[1] <= l[2] /\ l[2] < Len(t)
      /\ Begins(t, l[1]) /\ t[l[2] + 1] = "\n"
      /\ NoNewline(t, l[1] + 1, l[2])
  BY LineType
<1>3. ASSUME l[2] <= b, ~ (l[2] < a) PROVE l = <<a, b>>
  <2>1. l[2] = b
    <3>1. SUFFICES ASSUME l[2] < b PROVE FALSE
      BY <1>1, <1>2, <1>3
    <3>2. l[2] + 1 \in (a + 1)..b
      BY <1>1, <1>2, <1>3, <3>1
    <3> QED
      BY <1>1, <1>2, <3>2 DEF NoNewline, Only
  <2>2. ~ (l[1] < a)
    <3>1. SUFFICES ASSUME l[1] < a PROVE FALSE
      OBVIOUS
    <3>2. a \in (l[1] + 1)..l[2] /\ t[a] = "\n"
      BY <1>1, <1>2, <2>1, <3>1 DEF Begins
    <3> QED
      BY <1>2, <3>2 DEF NoNewline, Only
  <2>3. ~ (a < l[1])
    <3>1. SUFFICES ASSUME a < l[1] PROVE FALSE
      OBVIOUS
    <3>2. l[1] \in (a + 1)..b /\ t[l[1]] = "\n"
      BY <1>1, <1>2, <2>1, <3>1 DEF Begins
    <3> QED
      BY <1>1, <3>2 DEF NoNewline, Only
  <2> QED
    BY <1>2, <2>1, <2>2, <2>3
<1> QED
  BY <1>1, <1>2, <1>3
-----------------------------------------------------------------------------
(***************************************************************************)
(* What kind of line a line is shows in its first rune that is not blank.  *)
(***************************************************************************)

\* The positions in a header.
LEMMA BracketsType ==
  ASSUME NEW t \in Text, NEW a \in Nat, NEW b \in Nat, NEW q \in Brackets(t, <<a, b>>)
  PROVE  /\ q[1] \in Nat /\ q[2] \in Nat /\ q = <<q[1], q[2]>>
         /\ a < q[1] /\ q[1] < q[2] /\ q[2] <= b /\ t[q[1]] = "[" /\ t[q[2]] = "]"
         /\ Only({"blank"}, t, a + 1, q[1] - 1)
         /\ Only({"alnum"}, t, q[1] + 1, q[2] - 1)
         /\ Only({"blank"}, t, q[2] + 1, b)
BY DEF Brackets

\* The positions in a pair.
LEMMA StartsType ==
  ASSUME NEW t \in Text, NEW a \in Nat, NEW b \in Nat, NEW q \in Starts(t, <<a, b>>)
  PROVE  /\ q[1] \in Nat /\ q[2] \in Nat /\ q[3] \in Nat /\ q = <<q[1], q[2], q[3]>>
         /\ a < q[1] /\ q[1] < q[2] /\ q[2] < q[3] /\ q[2] <= b /\ q[3] <= b + 1
         /\ Only({"blank"}, t, a + 1, q[1] - 1)
         /\ Only({"alnum", "."}, t, q[1], q[2] - 1)
         /\ Only({"blank"}, t, q[2], q[3] - 1)
         /\ q[3] <= b => t[q[3]] # "blank"
BY DEF Starts

\* Nothing but blanks comes before the bracket of a header or the key of a pair.
LEMMA FirstRune ==
  ASSUME NEW t \in Text, NEW a \in Nat, NEW b \in Nat, NEW c \in (a + 1)..b,
         Only({"blank"}, t, a + 1, c - 1), t[c] # "blank"
  PROVE  /\ ~ IsBlank(t, <<a, b>>)
         /\ \A q \in Brackets(t, <<a, b>>) : q[1] = c /\ t[c] = "["
         /\ \A q \in Starts(t, <<a, b>>) : q[1] = c /\ t[c] \in {"alnum", "."}
<1>1. ~ IsBlank(t, <<a, b>>)
  BY DEF IsBlank, Only
<1>2. ASSUME NEW q \in Brackets(t, <<a, b>>) PROVE q[1] = c /\ t[c] = "["
  <2>1. /\ q[1] \in Nat /\ a < q[1] /\ t[q[1]] = "["
        /\ Only({"blank"}, t, a + 1, q[1] - 1)
    BY <1>2, BracketsType
  <2>2. ~ (c < q[1])
    <3>1. c < q[1] => c \in (a + 1)..(q[1] - 1)
      BY <2>1
    <3> QED
      BY <2>1, <3>1 DEF Only
  <2>3. ~ (q[1] < c)
    <3>1. q[1] < c => q[1] \in (a + 1)..(c - 1)
      BY <2>1
    <3> QED
      BY <2>1, <3>1 DEF Only
  <2> QED
    BY <2>1, <2>2, <2>3
<1>3. ASSUME NEW q \in Starts(t, <<a, b>>) PROVE q[1] = c /\ t[c] \in {"alnum", "."}
  <2>1. /\ q[1] \in Nat /\ q[2] \in Nat /\ a < q[1] /\ q[1] < q[2]
        /\ Only({"blank"}, t, a + 1, q[1] - 1)
        /\ Only({"alnum", "."}, t, q[1], q[2] - 1)
    BY <1>3, StartsType
  <2>2. t[q[1]] \in {"alnum", "."}
    <3>1. q[1] \in q[1]..(q[2] - 1)
      BY <2>1
    <3> QED
      BY <2>1, <3>1 DEF Only
  <2>3. ~ (c < q[1])
    <3>1. c < q[1] => c \in (a + 1)..(q[1] - 1)
      BY <2>1
    <3> QED
      BY <2>1, <3>1 DEF Only
  <2>4. ~ (q[1] < c)
    <3>1. q[1] < c => q[1] \in (a + 1)..(c - 1)
      BY <2>1
    <3> QED
      BY <2>2, <3>1 DEF Only
  <2> QED
    BY <2>1, <2>2, <2>3, <2>4
<1> QED
  BY <1>1, <1>2, <1>3

\* A blank line is neither a header nor a pair, and no line is both.
LEMMA KindsDiffer ==
  ASSUME NEW t \in Text, NEW a \in Nat, NEW b \in Nat
  PROVE  /\ IsBlank(t, <<a, b>>) => Brackets(t, <<a, b>>) = {} /\ Starts(t, <<a, b>>) = {}
         /\ Brackets(t, <<a, b>>) = {} \/ Starts(t, <<a, b>>) = {}
<1>1. ASSUME NEW q \in Brackets(t, <<a, b>>)
      PROVE  ~ IsBlank(t, <<a, b>>) /\ Starts(t, <<a, b>>) = {}
  <2>1. /\ q[1] \in (a + 1)..b /\ t[q[1]] = "["
        /\ Only({"blank"}, t, a + 1, q[1] - 1)
    BY <1>1, BracketsType
  <2> QED
    BY <2>1, FirstRune
<1>2. ASSUME NEW q \in Starts(t, <<a, b>>) PROVE ~ IsBlank(t, <<a, b>>)
  <2>1. /\ q[1] \in Nat /\ q[2] \in Nat /\ q[1] \in (a + 1)..b /\ q[1] < q[2]
        /\ Only({"blank"}, t, a + 1, q[1] - 1)
        /\ Only({"alnum", "."}, t, q[1], q[2] - 1)
    BY <1>2, StartsType
  <2>2. q[1] \in q[1]..(q[2] - 1)
    BY <2>1
  <2>3. t[q[1]] # "blank"
    BY <2>1, <2>2 DEF Only
  <2> QED
    BY <2>1, <2>3, FirstRune
<1> QED
  BY <1>1, <1>2

\* A line has at most one name and at most one pair.
LEMMA OneReading ==
  ASSUME NEW t \in Text, NEW a \in Nat, NEW b \in Nat
  PROVE  /\ \A x, y \in Header(t, <<a, b>>) : x = y
         /\ \A x, y \in Pair(t, <<a, b>>) : x = y
<1>1. ASSUME NEW q \in Brackets(t, <<a, b>>), NEW r \in Brackets(t, <<a, b>>) PROVE q = r
  <2>1. /\ q[1] \in Nat /\ q[2] \in Nat /\ q = <<q[1], q[2]>>
        /\ a < q[1] /\ q[1] < q[2] /\ q[2] <= b /\ t[q[1]] = "[" /\ t[q[2]] = "]"
        /\ Only({"blank"}, t, a + 1, q[1] - 1)
        /\ Only({"alnum"}, t, q[1] + 1, q[2] - 1)
    BY <1>1, BracketsType
  <2>2. /\ r[1] \in Nat /\ r[2] \in Nat /\ r = <<r[1], r[2]>>
        /\ r[1] < r[2] /\ t[r[2]] = "]"
        /\ Only({"alnum"}, t, r[1] + 1, r[2] - 1)
    BY <1>1, BracketsType
  <2>3. r[1] = q[1]
    <3>1. q[1] \in (a + 1)..b /\ t[q[1]] # "blank"
      BY <2>1
    <3> QED
      BY <1>1, <2>1, <3>1, FirstRune
  <2>4. ~ (q[2] < r[2])
    <3>1. q[2] < r[2] => q[2] \in (r[1] + 1)..(r[2] - 1)
      BY <2>1, <2>2, <2>3
    <3> QED
      BY <2>1, <2>2, <3>1 DEF Only
  <2>5. ~ (r[2] < q[2])
    <3>1. r[2] < q[2] => r[2] \in (q[1] + 1)..(q[2] - 1)
      BY <2>1, <2>2, <2>3
    <3> QED
      BY <2>1, <2>2, <3>1 DEF Only
  <2> QED
    BY <2>1, <2>2, <2>3, <2>4, <2>5
<1>2. ASSUME NEW q \in Starts(t, <<a, b>>), NEW r \in Starts(t, <<a, b>>) PROVE q = r
  <2>1. /\ q[1] \in Nat /\ q[2] \in Nat /\ q[3] \in Nat /\ q = <<q[1], q[2], q[3]>>
        /\ a < q[1] /\ q[1] < q[2] /\ q[2] < q[3] /\ q[2] <= b /\ q[3] <= b + 1
        /\ Only({"blank"}, t, a + 1, q[1] - 1)
        /\ Only({"alnum", "."}, t, q[1], q[2] - 1)
        /\ Only({"blank"}, t, q[2], q[3] - 1)
        /\ q[3] <= b => t[q[3]] # "blank"
    BY <1>2, StartsType
  <2>2. /\ r[1] \in Nat /\ r[2] \in Nat /\ r[3] \in Nat /\ r = <<r[1], r[2], r[3]>>
        /\ a < r[1] /\ r[1] < r[2] /\ r[2] < r[3] /\ r[2] <= b /\ r[3] <= b + 1
        /\ Only({"alnum", "."}, t, r[1], r[2] - 1)
        /\ Only({"blank"}, t, r[2], r[3] - 1)
        /\ r[3] <= b => t[r[3]] # "blank"
    BY <1>2, StartsType
  <2>3. r[1] = q[1]
    <3>1. q[1] \in (a + 1)..b /\ q[1] \in q[1]..(q[2] - 1)
      BY <2>1
    <3>2. t[q[1]] # "blank"
      BY <2>1, <3>1 DEF Only
    <3> QED
      BY <1>2, <2>1, <3>1, <3>2, FirstRune
  <2>4. t[q[2]] = "blank" /\ t[r[2]] = "blank"
    <3>1. q[2] \in q[2]..(q[3] - 1) /\ r[2] \in r[2]..(r[3] - 1)
      BY <2>1, <2>2
    <3> QED
      BY <2>1, <2>2, <3>1 DEF Only
  <2>5. q[2] = r[2]
    <3>1. q[2] < r[2] => q[2] \in r[1]..(r[2] - 1)
      BY <2>1, <2>2, <2>3
    <3>2. r[2] < q[2] => r[2] \in q[1]..(q[2] - 1)
      BY <2>1, <2>2, <2>3
    <3>3. ~ (q[2] < r[2]) /\ ~ (r[2] < q[2])
      BY <2>1, <2>2, <2>4, <3>1, <3>2 DEF Only
    <3> QED
      BY <2>1, <2>2, <3>3
  <2>6. q[3] = r[3]
    <3>1. q[3] < r[3] => q[3] \in r[2]..(r[3] - 1) /\ q[3] <= b
      BY <2>1, <2>2, <2>5
    <3>2. r[3] < q[3] => r[3] \in q[2]..(q[3] - 1) /\ r[3] <= b
      BY <2>1, <2>2, <2>5
    <3>3. ~ (q[3] < r[3]) /\ ~ (r[3] < q[3])
      BY <2>1, <2>2, <3>1, <3>2 DEF Only
    <3> QED
      BY <2>1, <2>2, <3>3
  <2> QED
    BY <2>1, <2>2, <2>3, <2>5, <2>6
<1>3. ASSUME NEW x \in Header(t, <<a, b>>), NEW y \in Header(t, <<a, b>>) PROVE x = y
  BY <1>1, <1>3 DEF Header
<1>4. ASSUME NEW x \in Pair(t, <<a, b>>), NEW y \in Pair(t, <<a, b>>) PROVE x = y
  BY <1>2, <1>4 DEF Pair
<1> QED
  BY <1>3, <1>4

-----------------------------------------------------------------------------
(***************************************************************************)
(* Texts that are not well formed.                                         *)
(***************************************************************************)

\* A line, or the rest of the text, that is not blank and neither a header nor
\* a pair makes the text ill-formed.
LEMMA IllFormed ==
  ASSUME NEW t \in Text, NEW a \in 0..Len(t), NEW c \in (a + 1)..Len(t),
         Begins(t, a), NoNewline(t, a + 1, c), t[c] # "blank",
         \A b \in c..Len(t) : <<a, b>> \in Lines(t) =>
           Brackets(t, <<a, b>>) = {} /\ Starts(t, <<a, b>>) = {}
  PROVE  ~ WellFormed(t)
<1>1. Len(t) \in Nat /\ c \in a..Len(t)
  BY DEF Text
<1>2. CASE NoNewline(t, a + 1, Len(t))
  <2>1. ~ Only({"blank"}, t, a + 1, Len(t))
    BY DEF Only
  <2> QED
    BY <1>2, <2>1 DEF WellFormed
<1>3. ASSUME NEW b \in c..Len(t), <<a, b>> \in Lines(t) PROVE ~ WellFormed(t)
  <2>1. ~ IsBlank(t, <<a, b>>)
    <3>1. c \in (a + 1)..b
      BY <1>1
    <3> QED
      BY <3>1 DEF IsBlank, Only
  <2>2. Header(t, <<a, b>>) = {} /\ Pair(t, <<a, b>>) = {}
    BY <1>3 DEF Header, Pair
  <2> QED
    BY <1>3, <2>1, <2>2 DEF WellFormed, HeaderLines, PairLines
<1> QED
  BY <1>1, <1>2, <1>3, LineOrRest

\* Blanks and then a rune other than a newline hold no newline.
LEMMA NoNewlineThrough ==
  ASSUME NEW t \in Text, NEW a \in Nat, NEW c \in (a + 1)..Len(t),
         Only({"blank"}, t, a + 1, c - 1), t[c] # "\n"
  PROVE  NoNewline(t, a + 1, c)
<1>1. t[c] \in Runes
  BY DEF Text
<1>2. \A i \in (a + 1)..c : i \in (a + 1)..(c - 1) \/ i = c
  OBVIOUS
<1> QED
  BY <1>1, <1>2 DEF NoNewline, Only, Runes

\* A bracket and a name that no bracket closes.
LEMMA BadSection ==
  ASSUME NEW t \in Text, NEW a \in 0..Len(t), NEW c \in (a + 1)..Len(t), NEW r \in c..Len(t),
         Begins(t, a), Only({"blank"}, t, a + 1, c - 1), t[c] = "[",
         Only({"alnum"}, t, c + 1, r), r = Len(t) \/ t[r + 1] \notin {"alnum", "]"}
  PROVE  ~ WellFormed(t)
<1>1. Len(t) \in Nat
  BY DEF Text
<1>2. ASSUME NEW b \in c..Len(t), <<a, b>> \in Lines(t)
      PROVE  Brackets(t, <<a, b>>) = {} /\ Starts(t, <<a, b>>) = {}
  <2>1. b \in Nat /\ c \in (a + 1)..b /\ b < Len(t)
    <3>1. b \in Nat /\ a \in Nat
      BY <1>1
    <3> QED
      BY <1>1, <1>2, <3>1, LineDef
  <2>2. Starts(t, <<a, b>>) = {}
    BY <2>1, FirstRune
  <2>3. SUFFICES ASSUME NEW q \in Brackets(t, <<a, b>>) PROVE FALSE
    BY <2>2
  <2>4. /\ q[1] \in Nat /\ q[2] \in Nat /\ q[1] < q[2] /\ q[2] <= b /\ t[q[2]] = "]"
        /\ Only({"alnum"}, t, q[1] + 1, q[2] - 1)
    BY <2>1, <2>3, BracketsType
  <2>5. q[1] = c
    BY <2>1, <2>3, FirstRune
  <2>6. ~ (q[2] <= r)
    <3>1. q[2] <= r => q[2] \in (c + 1)..r
      BY <2>4, <2>5
    <3> QED
      BY <2>4, <3>1 DEF Only
  <2>7. r < Len(t) /\ r + 1 <= q[2]
    BY <1>1, <2>1, <2>4, <2>6
  <2>8. r + 1 # q[2] => r + 1 \in (q[1] + 1)..(q[2] - 1)
    BY <2>4, <2>5, <2>7
  <2> QED
    BY <2>4, <2>7, <2>8 DEF Only
<1>3. NoNewline(t, a + 1, c)
  BY NoNewlineThrough
<1> QED
  BY <1>2, <1>3, IllFormed

\* A key that no blank ends.
LEMMA BadKey ==
  ASSUME NEW t \in Text, NEW a \in 0..Len(t), NEW c \in (a + 1)..Len(t), NEW r \in (c - 1)..Len(t),
         Begins(t, a), Only({"blank"}, t, a + 1, c - 1), t[c] \notin {"blank", "\n", "["},
         Only({"alnum", "."}, t, c, r), r = Len(t) \/ t[r + 1] \notin {"alnum", ".", "blank"}
  PROVE  ~ WellFormed(t)
<1>1. Len(t) \in Nat
  BY DEF Text
<1>2. ASSUME NEW b \in c..Len(t), <<a, b>> \in Lines(t)
      PROVE  Brackets(t, <<a, b>>) = {} /\ Starts(t, <<a, b>>) = {}
  <2>1. b \in Nat /\ c \in (a + 1)..b /\ b < Len(t)
    <3>1. b \in Nat /\ a \in Nat
      BY <1>1
    <3> QED
      BY <1>1, <1>2, <3>1, LineDef
  <2>2. Brackets(t, <<a, b>>) = {}
    BY <2>1, FirstRune
  <2>3. SUFFICES ASSUME NEW q \in Starts(t, <<a, b>>) PROVE FALSE
    BY <2>2
  <2>4. /\ q[1] \in Nat /\ q[2] \in Nat /\ q[3] \in Nat /\ q[1] < q[2] /\ q[2] < q[3] /\ q[2] <= b
        /\ Only({"alnum", "."}, t, q[1], q[2] - 1)
        /\ Only({"blank"}, t, q[2], q[3] - 1)
    BY <2>1, <2>3, StartsType
  <2>5. q[1] = c
    BY <2>1, <2>3, FirstRune
  <2>6. t[q[2]] = "blank"
    <3>1. q[2] \in q[2]..(q[3] - 1)
      BY <2>4
    <3> QED
      BY <2>4, <3>1 DEF Only
  <2>7. ~ (q[2] <= r)
    <3>1. q[2] <= r => q[2] \in c..r
      BY <2>4, <2>5
    <3> QED
      BY <2>6, <3>1 DEF Only
  <2>8. r < Len(t) /\ r + 1 <= q[2]
    BY <1>1, <2>1, <2>4, <2>7
  <2>9. r + 1 # q[2] => r + 1 \in q[1]..(q[2] - 1)
    BY <2>4, <2>5, <2>8
  <2> QED
    BY <2>4, <2>6, <2>8, <2>9 DEF Only
<1>3. NoNewline(t, a + 1, c)
  BY NoNewlineThrough
<1> QED
  BY <1>2, <1>3, IllFormed

\* Something that is not blank and that no newline ends.
LEMMA BadRest ==
  ASSUME NEW t \in Text, NEW a \in 0..Len(t), NEW c \in (a + 1)..Len(t),
         Begins(t, a), NoNewline(t, a + 1, Len(t)), t[c] # "blank"
  PROVE  ~ WellFormed(t)
<1>1. ~ Only({"blank"}, t, a + 1, Len(t))
  BY DEF Only
<1> QED
  BY <1>1 DEF WellFormed

\* A header with more than blanks behind it.
LEMMA BadTail ==
  ASSUME NEW t \in Text, NEW a \in 0..Len(t), NEW c \in (a + 1)..Len(t), NEW d \in (c + 1)..Len(t),
         NEW f \in d..Len(t),
         Begins(t, a), Only({"blank"}, t, a + 1, c - 1), t[c] = "[",
         Only({"alnum"}, t, c + 1, d - 1), t[d] = "]", Only({"blank"}, t, d + 1, f),
         f = Len(t) \/ t[f + 1] \notin {"blank", "\n"}
  PROVE  ~ WellFormed(t)
<1>1. Len(t) \in Nat
  BY DEF Text
<1>2. \A i \in (a + 1)..f : t[i] # "\n"
  <2>1. \A i \in (a + 1)..f : \/ i \in (a + 1)..(c - 1) \/ i = c \/ i \in (c + 1)..(d - 1)
                              \/ i = d \/ i \in (d + 1)..f
    BY <1>1
  <2> QED
    BY <2>1 DEF Only
<1>3. ASSUME NEW b \in c..Len(t), <<a, b>> \in Lines(t)
      PROVE  Brackets(t, <<a, b>>) = {} /\ Starts(t, <<a, b>>) = {}
  <2>1. b \in Nat /\ c \in (a + 1)..b /\ b < Len(t) /\ t[b + 1] = "\n"
    <3>1. b \in Nat /\ a \in Nat
      BY <1>1
    <3> QED
      BY <1>1, <1>3, <3>1, LineDef
  <2>2. Starts(t, <<a, b>>) = {}
    BY <2>1, FirstRune
  <2>3. SUFFICES ASSUME NEW q \in Brackets(t, <<a, b>>) PROVE FALSE
    BY <2>2
  <2>4. /\ q[1] \in Nat /\ q[2] \in Nat /\ q[1] < q[2] /\ q[2] <= b /\ t[q[2]] = "]"
        /\ Only({"alnum"}, t, q[1] + 1, q[2] - 1)
        /\ Only({"blank"}, t, q[2] + 1, b)
    BY <2>1, <2>3, BracketsType
  <2>5. q[1] = c
    BY <2>1, <2>3, FirstRune
  <2>6. q[2] = d
    <3>1. c \in Nat /\ d \in Nat /\ c < d
      BY <1>1
    <3>2. PICK z \in Nat : z = q[2] /\ c < z
      BY <2>4, <2>5
    <3>3. ~ (z < d)
      <4>1. z < d => z \in (c + 1)..(d - 1)
        BY <3>1, <3>2
      <4> QED
        BY <2>4, <3>2, <4>1 DEF Only
    <3>4. ~ (d < z)
      <4>1. d < z => d \in (c + 1)..(z - 1)
        BY <3>1, <3>2
      <4> QED
        BY <2>4, <2>5, <3>2, <4>1 DEF Only
    <3> QED
      BY <3>1, <3>2, <3>3, <3>4
  <2>7. ~ (b + 1 <= f)
    <3>1. b + 1 <= f => b + 1 \in (a + 1)..f
      BY <1>1, <2>1
    <3> QED
      BY <1>2, <2>1, <3>1
  <2>8. f < Len(t) /\ t[f + 1] \notin {"blank", "\n"}
    BY <1>1, <2>1, <2>7
  <2>9. f + 1 <= b
    BY <1>1, <2>1, <2>7, <2>8
  <2>10. f + 1 \in (q[2] + 1)..b
    BY <1>1, <2>4, <2>6, <2>9
  <2> QED
    BY <2>4, <2>8, <2>10 DEF Only
<1>4. NoNewline(t, a + 1, c)
  BY NoNewlineThrough
<1> QED
  BY <1>3, <1>4, IllFormed

-----------------------------------------------------------------------------
(***************************************************************************)
(* Counting lines.                                                         *)
(***************************************************************************)

\* The sets of lines that the grammar counts are finite.
LEMMA LinesFinite ==
  ASSUME NEW t \in Text, NEW a, NEW k
  PROVE  /\ IsFiniteSet(HeadersIn(t, a)) /\ Cardinality(HeadersIn(t, a)) \in Nat
         /\ IsFiniteSet(PairsOf(t, k, a)) /\ Cardinality(PairsOf(t, k, a)) \in Nat
<1>1. Len(t) \in Nat
  BY DEF Text
<1>2. IsFiniteSet((0..Len(t)) \X (0..Len(t)))
  <2>1. 0 \in Int /\ Len(t) \in Int
    BY <1>1
  <2>2. IsFiniteSet(0..Len(t))
    BY <2>1, FS_Interval
  <2> QED
    BY <2>2, FS_Product
<1>3. /\ HeadersIn(t, a) \in SUBSET ((0..Len(t)) \X (0..Len(t)))
      /\ PairsOf(t, k, a) \in SUBSET ((0..Len(t)) \X (0..Len(t)))
  BY DEF HeadersIn, PairsOf, HeaderLines, PairLines, Lines
<1>4. IsFiniteSet(HeadersIn(t, a)) /\ IsFiniteSet(PairsOf(t, k, a))
  BY <1>2, <1>3, FS_Subset
<1> QED
  BY <1>4, FS_CardinalityType

\* A line that is no header leaves the number of headers as it is; a header
\* adds one.
LEMMA CountHeaders ==
  ASSUME NEW t \in Text, NEW a \in Nat, NEW b \in Nat, <<a, b>> \in Lines(t)
  PROVE  /\ Cardinality(HeadersIn(t, a)) \in Nat
         /\ <<a, b>> \notin HeaderLines(t) => HeadersIn(t, b + 1) = HeadersIn(t, a)
         /\ <<a, b>> \in HeaderLines(t) =>
              Cardinality(HeadersIn(t, b + 1)) = Cardinality(HeadersIn(t, a)) + 1
<1>1. \A h \in HeaderLines(t) : h[2] < b + 1 <=> h[2] < a \/ h = <<a, b>>
  BY NextLine DEF HeaderLines
<1>2. <<a, b>> \notin HeadersIn(t, a)
  <2>1. a <= b
    BY LineDef
  <2> QED
    BY <2>1 DEF HeadersIn
<1>3. IsFiniteSet(HeadersIn(t, a)) /\ Cardinality(HeadersIn(t, a)) \in Nat
  BY LinesFinite
<1>4. CASE <<a, b>> \notin HeaderLines(t)
  BY <1>1, <1>3, <1>4 DEF HeadersIn
<1>5. CASE <<a, b>> \in HeaderLines(t)
  <2>1. HeadersIn(t, b + 1) = HeadersIn(t, a) \cup {<<a, b>>}
    BY <1>1, <1>5 DEF HeadersIn
  <2> QED
    BY <1>2, <1>3, <1>5, <2>1, FS_AddElement
<1> QED
  BY <1>4, <1>5

\* A line adds itself to the pairs of its section, if it is one.
LEMMA CountPairs ==
  ASSUME NEW t \in Text, NEW a \in Nat, NEW b \in Nat, <<a, b>> \in Lines(t), NEW k
  PROVE  /\ ~ (<<a, b>> \in PairLines(t) /\ SectionOf(t, <<a, b>>) = k) =>
              PairsOf(t, k, b + 1) = PairsOf(t, k, a)
         /\ <<a, b>> \in PairLines(t) /\ SectionOf(t, <<a, b>>) = k =>
              Cardinality(PairsOf(t, k, b + 1)) = Cardinality(PairsOf(t, k, a)) + 1
<1>1. \A l \in PairLines(t) : l[2] < b + 1 <=> l[2] < a \/ l = <<a, b>>
  BY NextLine DEF PairLines
<1>2. <<a, b>> \notin PairsOf(t, k, a)
  <2>1. a <= b
    BY LineDef
  <2> QED
    BY <2>1 DEF PairsOf
<1>3. IsFiniteSet(PairsOf(t, k, a)) /\ Cardinality(PairsOf(t, k, a)) \in Nat
  BY LinesFinite
<1>4. CASE ~ (<<a, b>> \in PairLines(t) /\ SectionOf(t, <<a, b>>) = k)
  BY <1>1, <1>4 DEF PairsOf
<1>5. CASE <<a, b>> \in PairLines(t) /\ SectionOf(t, <<a, b>>) = k
  <2>1. PairsOf(t, k, b + 1) = PairsOf(t, k, a) \cup {<<a, b>>}
    BY <1>1, <1>5 DEF PairsOf
  <2> QED
    BY <1>2, <1>3, <1>5, <2>1, FS_AddElement
<1> QED
  BY <1>4, <1>5

\* The section of a line is one there is when the line has been read, and a
\* pair has a place among the pairs read so far.
LEMMA Placement ==
  ASSUME NEW t \in Text, NEW a \in Nat, NEW l \in Lines(t), l[2] < a
  PROVE  /\ SectionOf(t, l) \in 1..(1 + Cardinality(HeadersIn(t, a)))
         /\ l \in PairLines(t) => PlaceOf(t, l) \in 1..Cardinality(PairsOf(t, SectionOf(t, l), a))
<1>1. l[2] \in Nat
  BY LineType
<1>2. \A m \in Lines(t) : m[2] \in Nat
  BY LineType
<1>3. IsFiniteSet(HeadersIn(t, a)) /\ Cardinality(HeadersIn(t, a)) \in Nat
  BY LinesFinite
<1>4. HeadersIn(t, l[2] + 1) \in SUBSET HeadersIn(t, a)
  BY <1>1, <1>2 DEF HeadersIn, HeaderLines
<1>5. /\ Cardinality(HeadersIn(t, l[2] + 1)) \in Nat
      /\ Cardinality(HeadersIn(t, l[2] + 1)) <= Cardinality(HeadersIn(t, a))
  BY <1>3, <1>4, FS_Subset, LinesFinite
<1>6. ASSUME l \in PairLines(t)
      PROVE  PlaceOf(t, l) \in 1..Cardinality(PairsOf(t, SectionOf(t, l), a))
  <2> DEFINE k == SectionOf(t, l)
  <2>1. IsFiniteSet(PairsOf(t, k, a)) /\ Cardinality(PairsOf(t, k, a)) \in Nat
    BY LinesFinite
  <2>2. PairsOf(t, k, l[2] + 1) \in SUBSET PairsOf(t, k, a)
    BY <1>1, <1>2 DEF PairsOf, PairLines
  <2>3. IsFiniteSet(PairsOf(t, k, l[2] + 1)) /\ Cardinality(PairsOf(t, k, l[2] + 1)) \in Nat
    BY LinesFinite
  <2>4. Cardinality(PairsOf(t, k, l[2] + 1)) <= Cardinality(PairsOf(t, k, a))
    BY <2>1, <2>2, FS_Subset
  <2>5. l \in PairsOf(t, k, l[2] + 1)
    BY <1>1, <1>6 DEF PairsOf
  <2>6. Cardinality(PairsOf(t, k, l[2] + 1)) # 0
    BY <2>3, <2>5, FS_EmptySet
  <2> QED
    BY <2>1, <2>3, <2>4, <2>6 DEF PlaceOf
<1> QED
  BY <1>3, <1>5, <1>6 DEF SectionOf

-----------------------------------------------------------------------------
(***************************************************************************)
(* What one more line adds to the meaning.                                 *)
(***************************************************************************)
AddSection(file, name) == Append(file, [name |-> name, pairs |-> <<>>])

AddPair(file, pair) == [file EXCEPT ![Len(file)].pairs = Append(@, pair)]

Sections == Seq(SectionType) \ {<<>>}

\* A line that is neither adds nothing.
LEMMA BlankMeans ==
  ASSUME NEW t \in Text, NEW a \in Nat, NEW b \in Nat, <<a, b>> \in Lines(t),
         <<a, b>> \notin HeaderLines(t), <<a, b>> \notin PairLines(t),
         NEW file, MeansUpTo(t, a, file)
  PROVE  MeansUpTo(t, b + 1, file)
<1>1. HeadersIn(t, b + 1) = HeadersIn(t, a)
  BY CountHeaders
<1>2. \A k : PairsOf(t, k, b + 1) = PairsOf(t, k, a)
  BY CountPairs
<1>3. \A l \in HeaderLines(t) \cup PairLines(t) : l[2] < b + 1 => l[2] < a
  BY NextLine DEF HeaderLines, PairLines
<1> QED
  BY <1>1, <1>2, <1>3 DEF MeansUpTo

\* A header begins a section.
LEMMA HeaderMeans ==
  ASSUME NEW t \in Text, NEW a \in Nat, NEW b \in Nat, <<a, b>> \in Lines(t),
         NEW name \in Header(t, <<a, b>>),
         NEW file \in Sections, MeansUpTo(t, a, file)
  PROVE  MeansUpTo(t, b + 1, AddSection(file, name))
<1> DEFINE new == AddSection(file, name)
           line == <<a, b>>
<1>1. line \in HeaderLines(t) /\ line \notin PairLines(t)
  <2>1. Brackets(t, line) # {}
    BY DEF Header
  <2>2. Starts(t, line) = {}
    BY <2>1, KindsDiffer
  <2> QED
    BY <2>2 DEF HeaderLines, PairLines, Pair
<1>2. /\ Cardinality(HeadersIn(t, a)) \in Nat
      /\ Cardinality(HeadersIn(t, b + 1)) = Cardinality(HeadersIn(t, a)) + 1
  BY <1>1, CountHeaders
<1>3. Len(file) \in Nat /\ Len(file) = 1 + Cardinality(HeadersIn(t, a))
  BY DEF Sections, MeansUpTo
<1>4. /\ Len(new) = Len(file) + 1
      /\ \A k \in 1..Len(file) : new[k] = file[k]
      /\ new[Len(file) + 1].name = name
      /\ new[Len(file) + 1].pairs = <<>>
  BY <1>3 DEF AddSection, Sections
<1>5. SectionOf(t, line) = Len(file) + 1
  BY <1>2, <1>3 DEF SectionOf
<1>6. \A l \in Lines(t) : l[2] < b + 1 <=> l[2] < a \/ l = line
  BY NextLine
<1>7. \A l \in Lines(t) : l[2] < a => SectionOf(t, l) \in 1..Len(file)
  BY <1>3, Placement
<1>8. new[1].name = <<>>
  <2>1. 1 \in 1..Len(file)
    BY <1>2, <1>3
  <2> QED
    BY <1>4, <2>1 DEF MeansUpTo
<1>9. ASSUME NEW h \in HeaderLines(t), h[2] < b + 1 PROVE new[SectionOf(t, h)].name \in Header(t, h)
  <2>1. h \in Lines(t)
    BY <1>9 DEF HeaderLines
  <2>2. CASE h = line
    BY <1>4, <1>5, <2>2
  <2>3. CASE h[2] < a
    BY <1>4, <1>7, <2>1, <2>3 DEF MeansUpTo
  <2> QED
    BY <1>6, <1>9, <2>1, <2>2, <2>3
<1>10. \A k : PairsOf(t, k, b + 1) = PairsOf(t, k, a)
  BY <1>1, CountPairs
<1>11. ASSUME NEW k \in 1..Len(new) PROVE Len(new[k].pairs) = Cardinality(PairsOf(t, k, b + 1))
  <2>1. CASE k \in 1..Len(file)
    BY <1>4, <1>10, <2>1 DEF MeansUpTo
  <2>2. CASE k = Len(file) + 1
    <3>1. PairsOf(t, k, a) = {}
      <4>1. SUFFICES ASSUME NEW l \in PairLines(t), l[2] < a, SectionOf(t, l) = k PROVE FALSE
        BY DEF PairsOf
      <4>2. SectionOf(t, l) \in 1..Len(file)
        BY <1>7, <4>1 DEF PairLines
      <4> QED
        BY <1>3, <2>2, <4>1, <4>2
    <3>2. Len(new[k].pairs) = 0
      BY <1>4, <2>2
    <3> QED
      BY <1>10, <3>1, <3>2, FS_EmptySet
  <2> QED
    BY <1>3, <1>4, <2>1, <2>2
<1>12. ASSUME NEW l \in PairLines(t), l[2] < b + 1
       PROVE  new[SectionOf(t, l)].pairs[PlaceOf(t, l)] \in Pair(t, l)
  <2>1. l \in Lines(t) /\ l # line
    BY <1>1, <1>12 DEF PairLines
  <2>2. l[2] < a
    BY <1>6, <1>12, <2>1
  <2> QED
    BY <1>4, <1>7, <2>1, <2>2 DEF MeansUpTo
<1>13. Len(new) = 1 + Cardinality(HeadersIn(t, b + 1))
  BY <1>2, <1>3, <1>4
<1> HIDE DEF new
<1> QED
  BY <1>8, <1>9, <1>11, <1>12, <1>13 DEF MeansUpTo, new

\* A pair becomes the last one of the last section.
LEMMA PairMeans ==
  ASSUME NEW t \in Text, NEW a \in Nat, NEW b \in Nat, <<a, b>> \in Lines(t),
         NEW pair \in Pair(t, <<a, b>>),
         NEW file \in Sections, MeansUpTo(t, a, file)
  PROVE  MeansUpTo(t, b + 1, AddPair(file, pair))
<1> DEFINE new == AddPair(file, pair)
           line == <<a, b>>
           n == Len(file)
<1>1. line \in PairLines(t) /\ line \notin HeaderLines(t)
  <2>1. Starts(t, line) # {}
    BY DEF Pair
  <2>2. Brackets(t, line) = {}
    BY <2>1, KindsDiffer
  <2> QED
    BY <2>2 DEF HeaderLines, PairLines, Header
<1>2. HeadersIn(t, b + 1) = HeadersIn(t, a) /\ Cardinality(HeadersIn(t, a)) \in Nat
  BY <1>1, CountHeaders
<1>3. n \in Nat /\ n = 1 + Cardinality(HeadersIn(t, a)) /\ n \in 1..n
  BY <1>2 DEF Sections, MeansUpTo
<1>4. file[n] \in SectionType /\ file[n].pairs \in Seq(Text \X Text) /\ Len(file[n].pairs) \in Nat
  <2>1. file[n] \in SectionType
    BY <1>3 DEF Sections
  <2> QED
    BY <2>1 DEF SectionType
<1>5. /\ Len(new) = n
      /\ \A k \in 1..n : new[k].name = file[k].name
      /\ \A k \in 1..n : k # n => new[k] = file[k]
      /\ new[n].pairs = Append(file[n].pairs, pair)
  <2>1. file \in Seq(SectionType) /\ DOMAIN file = 1..n
    BY DEF Sections
  <2>2. new = [k \in 1..n |-> IF k = n THEN [file[n] EXCEPT !.pairs = Append(@, pair)] ELSE file[k]]
    BY <1>3, <2>1 DEF AddPair
  <2>3. new[n].pairs = Append(file[n].pairs, pair) /\ new[n].name = file[n].name
    BY <1>3, <1>4, <2>2 DEF SectionType
  <2>4. \A k \in 1..n : k # n => new[k] = file[k]
    BY <2>2
  <2>5. Len(new) = n
    BY <1>3, <2>2
  <2> HIDE DEF new
  <2> QED
    BY <2>3, <2>4, <2>5
<1>6. SectionOf(t, line) = n
  BY <1>2, <1>3 DEF SectionOf
<1>7. \A l \in Lines(t) : l[2] < b + 1 <=> l[2] < a \/ l = line
  BY NextLine
<1>8. \A l \in Lines(t) : l[2] < a => SectionOf(t, l) \in 1..n
  BY <1>3, Placement
<1>9. Len(file[n].pairs) = Cardinality(PairsOf(t, n, a))
  BY <1>3 DEF MeansUpTo
<1>10. PlaceOf(t, line) = Len(file[n].pairs) + 1
  BY <1>1, <1>6, <1>9, CountPairs DEF PlaceOf
<1>11. /\ Len(new[n].pairs) = Len(file[n].pairs) + 1
       /\ new[n].pairs[Len(file[n].pairs) + 1] = pair
       /\ \A i \in 1..Len(file[n].pairs) : new[n].pairs[i] = file[n].pairs[i]
  <2> HIDE DEF new, n
  <2> QED
    BY <1>4, <1>5
<1>12. new[1].name = <<>>
  <2>1. 1 \in 1..n
    BY <1>3
  <2> QED
    BY <1>5, <2>1 DEF MeansUpTo
<1>13. ASSUME NEW h \in HeaderLines(t), h[2] < b + 1 PROVE new[SectionOf(t, h)].name \in Header(t, h)
  <2>1. h \in Lines(t) /\ h # line
    BY <1>1, <1>13 DEF HeaderLines
  <2>2. h[2] < a
    BY <1>7, <1>13, <2>1
  <2>3. SectionOf(t, h) \in 1..n
    BY <1>8, <2>1, <2>2
  <2> QED
    BY <1>5, <2>2, <2>3 DEF MeansUpTo
<1>14. ASSUME NEW k \in 1..n PROVE Len(new[k].pairs) = Cardinality(PairsOf(t, k, b + 1))
  <2>1. CASE k = n
    BY <1>1, <1>6, <1>9, <1>11, <2>1, CountPairs
  <2>2. CASE k # n
    <3>1. PairsOf(t, k, b + 1) = PairsOf(t, k, a)
      BY <1>6, <2>2, CountPairs
    <3> QED
      BY <1>5, <2>2, <3>1 DEF MeansUpTo
  <2> QED
    BY <2>1, <2>2
<1>15. ASSUME NEW l \in PairLines(t), l[2] < b + 1
       PROVE  new[SectionOf(t, l)].pairs[PlaceOf(t, l)] \in Pair(t, l)
  <2>1. l \in Lines(t)
    BY <1>15 DEF PairLines
  <2>2. CASE l = line
    BY <1>6, <1>10, <1>11, <2>2
  <2>3. CASE l[2] < a
    <3>1. SectionOf(t, l) \in 1..n
      BY <1>8, <2>1, <2>3
    <3>2. file[SectionOf(t, l)].pairs[PlaceOf(t, l)] \in Pair(t, l)
      BY <1>15, <2>3 DEF MeansUpTo
    <3>3. CASE SectionOf(t, l) = n
      <4>1. PlaceOf(t, l) \in 1..Len(file[n].pairs)
        BY <1>9, <1>15, <2>1, <2>3, <3>3, Placement
      <4> QED
        BY <1>11, <3>2, <3>3, <4>1
    <3>4. CASE SectionOf(t, l) # n
      BY <1>5, <3>1, <3>2, <3>4
    <3> QED
      BY <3>3, <3>4
  <2> QED
    BY <1>7, <1>15, <2>1, <2>2, <2>3
<1>16. Len(new) = 1 + Cardinality(HeadersIn(t, b + 1))
  BY <1>2, <1>3, <1>5
<1>17. \A k \in 1..Len(new) : Len(new[k].pairs) = Cardinality(PairsOf(t, k, b + 1))
  BY <1>5, <1>14
<1> HIDE DEF new
<1> QED
  BY <1>12, <1>13, <1>15, <1>16, <1>17 DEF MeansUpTo, new

\* At the end of the text all its lines have been read.
LEMMA AllMeans ==
  ASSUME NEW t \in Text, NEW a \in 0..Len(t), NoNewline(t, a + 1, Len(t)),
         NEW file, MeansUpTo(t, a, file)
  PROVE  Means(t, file)
<1>1. Len(t) \in Nat
  BY DEF Text
<1>2. \A l \in Lines(t) : l[2] < Len(t) <=> l[2] < a
  <2>1. SUFFICES ASSUME NEW l \in Lines(t) PROVE l[2] < a
    BY <1>1, LineType
  <2>2. l[2] \in Nat /\ l[2] < Len(t) /\ t[l[2] + 1] = "\n"
    BY LineType
  <2>3. ~ (a <= l[2])
    <3>1. a <= l[2] => l[2] + 1 \in (a + 1)..Len(t)
      BY <1>1, <2>2
    <3> QED
      BY <2>2, <3>1 DEF NoNewline, Only
  <2> QED
    BY <1>1, <2>2, <2>3
<1>3. HeadersIn(t, Len(t)) = HeadersIn(t, a)
  BY <1>2 DEF HeadersIn, HeaderLines
<1>4. \A k : PairsOf(t, k, Len(t)) = PairsOf(t, k, a)
  BY <1>2 DEF PairsOf, PairLines
<1> QED
  BY <1>2, <1>3, <1>4 DEF Means, MeansUpTo, HeaderLines, PairLines

-----------------------------------------------------------------------------
(***************************************************************************)
(* A text has one meaning.                                                 *)
(***************************************************************************)

\* Numbering finitely many lines in their order leaves out no number.
LEMMA Numbering ==
  ASSUME NEW t \in Text, NEW S \in SUBSET Lines(t), IsFiniteSet(S), NEW k \in 1..Cardinality(S)
  PROVE  \E l \in S : Cardinality({m \in S : m[2] < l[2] + 1}) = k
<1> DEFINE Upto(l) == {m \in S : m[2] < l[2] + 1}
           number == [l \in S |-> Cardinality(Upto(l))]
           n == Cardinality(S)
<1>1. n \in Nat
  BY FS_CardinalityType
<1>2. \A l \in S : l[2] \in Nat
  BY LineType
<1>3. ASSUME NEW l \in S
      PROVE  IsFiniteSet(Upto(l)) /\ Cardinality(Upto(l)) \in 1..n
  <2>1. Upto(l) \in SUBSET S /\ l \in Upto(l)
    BY <1>2
  <2>2. IsFiniteSet(Upto(l)) /\ Cardinality(Upto(l)) <= n /\ Cardinality(Upto(l)) \in Nat
    BY <2>1, FS_Subset, FS_CardinalityType
  <2>3. Cardinality(Upto(l)) # 0
    BY <2>1, <2>2, FS_EmptySet
  <2> QED
    BY <1>1, <2>2, <2>3
<1>4. ASSUME NEW l \in S, NEW m \in S, l[2] < m[2] PROVE Cardinality(Upto(l)) # Cardinality(Upto(m))
  <2>1. Upto(l) \in SUBSET Upto(m) /\ m \in Upto(m) /\ m \notin Upto(l)
    BY <1>2, <1>4
  <2>2. IsFiniteSet(Upto(m))
    BY <1>3
  <2>3. Upto(l) # Upto(m)
    BY <2>1
  <2> HIDE DEF Upto
  <2> QED
    BY <2>1, <2>2, <2>3, FS_Subset
<1>5. ASSUME NEW l \in S, NEW m \in S, l[2] = m[2] PROVE l = m
  <2>1. /\ l \in Lines(t) /\ m \in Lines(t)
        /\ m[1] \in Nat /\ m[2] \in Nat /\ m = <<m[1], m[2]>> /\ m[1] <= m[2]
    BY LineType
  <2>2. l[2] <= m[2] /\ ~ (l[2] < m[1])
    BY <1>2, <1>5, <2>1
  <2> QED
    BY <2>1, <2>2, NextLine
<1>6. number \in Injection(S, 1..n)
  <2>1. number \in [S -> 1..n]
    BY <1>3
  <2>2. ASSUME NEW l \in S, NEW m \in S, number[l] = number[m] PROVE l = m
    <3>1. Cardinality(Upto(l)) = Cardinality(Upto(m))
      BY <2>2
    <3>2. ~ (l[2] < m[2]) /\ ~ (m[2] < l[2])
      BY <1>4, <3>1
    <3>3. l[2] = m[2]
      BY <1>2, <3>2
    <3> QED
      BY <1>5, <3>3
  <2> HIDE DEF number
  <2> QED
    BY <2>1, <2>2 DEF Injection, IsInjective
<1>7. IsFiniteSet(1..n) /\ Cardinality(1..n) = n
  <2>1. 1 \in Int /\ n \in Int
    BY <1>1
  <2>2. IsFiniteSet(1..n) /\ Cardinality(1..n) = IF 1 > n THEN 0 ELSE n - 1 + 1
    BY <2>1, FS_Interval
  <2> QED
    BY <1>1, <2>2
<1>8. number \in Surjection(S, 1..n)
  <2> HIDE DEF number, n
  <2> QED
    BY <1>6, <1>7, FS_Injection DEF n
<1>9. PICK l \in S : number[l] = k
  <2> HIDE DEF number, n
  <2> QED
    BY <1>8 DEF Surjection, n
<1> QED
  BY <1>9

\* A text has at most one meaning.
LEMMA Unambiguous ==
  ASSUME NEW t \in Text, NEW f \in Sections, NEW g \in Sections, Means(t, f), Means(t, g)
  PROVE  f = g
<1> DEFINE n == 1 + Cardinality(HeadersIn(t, Len(t)))
<1>1. /\ f \in Seq(SectionType) /\ g \in Seq(SectionType)
      /\ Len(f) = n /\ Len(g) = n /\ Len(t) \in Nat /\ n \in Nat
      /\ DOMAIN f = 1..n /\ DOMAIN g = 1..n
  BY DEF Sections, Means, MeansUpTo, Text
<1>2. \A l \in Lines(t) : l = <<l[1], l[2]>> /\ l[1] \in Nat /\ l[2] \in Nat /\ l[2] < Len(t)
  BY LineType
<1>3. ASSUME NEW k \in 1..n PROVE f[k].name = g[k].name
  <2>1. CASE k = 1
    BY <2>1 DEF Means, MeansUpTo
  <2>2. CASE k # 1
    <3> DEFINE S == HeadersIn(t, Len(t))
    <3>1. S \in SUBSET Lines(t) /\ IsFiniteSet(S) /\ Cardinality(S) \in Nat
      BY LinesFinite DEF HeadersIn, HeaderLines
    <3>2. k - 1 \in 1..Cardinality(S)
      BY <1>3, <2>2, <3>1
    <3>3. PICK l \in S : Cardinality({m \in S : m[2] < l[2] + 1}) = k - 1
      <4> HIDE DEF S
      <4> QED
        BY <3>1, <3>2, Numbering
    <3>4. HeadersIn(t, l[2] + 1) = {m \in S : m[2] < l[2] + 1}
      BY <1>2 DEF HeadersIn, HeaderLines
    <3>5. SectionOf(t, l) = k /\ l \in HeaderLines(t) /\ l \in Lines(t) /\ l[2] < Len(t)
      <4>1. l \in HeaderLines(t) /\ l \in Lines(t) /\ l[2] < Len(t)
        BY DEF HeadersIn, HeaderLines
      <4>2. Cardinality(HeadersIn(t, l[2] + 1)) = k - 1
        BY <3>3, <3>4
      <4>3. 1 + (k - 1) = k
        BY <1>1, <1>3
      <4> QED
        BY <4>1, <4>2, <4>3 DEF SectionOf
    <3>6. f[k].name \in Header(t, l) /\ g[k].name \in Header(t, l)
      BY <3>5 DEF Means, MeansUpTo
    <3> QED
      BY <1>2, <3>5, <3>6, OneReading
  <2> QED
    BY <2>1, <2>2
<1>4. ASSUME NEW k \in 1..n PROVE f[k].pairs = g[k].pairs
  <2> DEFINE S == PairsOf(t, k, Len(t))
  <2>1. S \in SUBSET Lines(t) /\ IsFiniteSet(S) /\ Cardinality(S) \in Nat
    BY LinesFinite DEF PairsOf, PairLines
  <2>2. Len(f[k].pairs) = Cardinality(S) /\ Len(g[k].pairs) = Cardinality(S)
    BY <1>1, <1>4 DEF Means, MeansUpTo
  <2>3. f[k].pairs \in Seq(Text \X Text) /\ g[k].pairs \in Seq(Text \X Text)
    <3>1. f[k] \in SectionType /\ g[k] \in SectionType
      BY <1>1, <1>4
    <3> QED
      BY <3>1 DEF SectionType
  <2>4. ASSUME NEW i \in 1..Cardinality(S) PROVE f[k].pairs[i] = g[k].pairs[i]
    <3>1. PICK l \in S : Cardinality({m \in S : m[2] < l[2] + 1}) = i
      <4> HIDE DEF S
      <4> QED
        BY <2>1, <2>4, Numbering
    <3>2. l \in PairLines(t) /\ SectionOf(t, l) = k /\ l \in Lines(t) /\ l[2] < Len(t)
      BY <3>1 DEF PairsOf, PairLines
    <3>3. PairsOf(t, k, l[2] + 1) = {m \in S : m[2] < l[2] + 1}
      BY <1>2 DEF PairsOf, PairLines
    <3>4. PlaceOf(t, l) = i
      BY <3>1, <3>2, <3>3 DEF PlaceOf
    <3>5. f[k].pairs[i] \in Pair(t, l) /\ g[k].pairs[i] \in Pair(t, l)
      BY <3>2, <3>4 DEF Means, MeansUpTo
    <3> QED
      BY <1>2, <3>2, <3>5, OneReading
  <2>5. PICK x \in Seq(Text \X Text), y \in Seq(Text \X Text) : x = f[k].pairs /\ y = g[k].pairs
    BY <2>3
  <2>6. Len(x) = Cardinality(S) /\ Len(x) = Len(y)
    BY <2>2, <2>5
  <2>7. \A i \in 1..Len(x) : x[i] = y[i]
    BY <2>4, <2>5, <2>6
  <2> HIDE DEF S
  <2>8. x = y
    BY <2>6, <2>7, SeqEqual
  <2> QED
    BY <2>5, <2>8
<1>5. ASSUME NEW k \in 1..n PROVE f[k] = g[k]
  <2>1. f[k] \in SectionType /\ g[k] \in SectionType
    BY <1>1, <1>5
  <2> QED
    BY <1>3, <1>4, <1>5, <2>1 DEF SectionType
<1> HIDE DEF n
<1> QED
  BY <1>1, <1>5

-----------------------------------------------------------------------------
(***************************************************************************)
(* Where in the text the tokens are.  from[i] and to[i] are the positions  *)
(* between which token i stands; an error stands where the lexer gave up.  *)
(***************************************************************************)

\* The types of tokens after which the lexer is back in LexStart.
Resting == {"NewLine", "RightBracket", "Value"}

\* The text begins as if a newline came before it.
LastType(n) == IF n = 0 THEN "NewLine" ELSE tokens[n].type

\* What the lexer has met when it gives up.
Broken(t, last, p, f, q) ==
  \/ /\ last = "LeftBracket" /\ f = p
     /\ Only({"alnum"}, t, f + 1, q)
     /\ q = Len(t) \/ t[q + 1] \notin {"alnum", "]"}
  \/ /\ last = "Key"
     /\ NoNewline(t, f + 1, Len(t))
  \/ /\ last \in Resting
     /\ f < Len(t) /\ t[f + 1] \notin {"blank", "\n", "["}
     /\ Only({"alnum", "."}, t, f + 1, q)
     /\ q = Len(t) \/ t[q + 1] \notin {"alnum", ".", "blank"}

\* What the text is like between f and q where a token stands, when the token
\* before it is of type last and ends at p.
Piece(t, last, p, tok, f, q) ==
  /\ p <= f /\ f <= q /\ q <= Len(t)
  /\ Only({"blank"}, t, p + 1, f)
  /\ tok.type # "Error" => tok.value = SubSeq(t, f + 1, q)
  /\ tok.type \in {"NewLine", "LeftBracket", "Key", "EOF"} => last \in Resting
  /\ tok.type = "NewLine" => q = f + 1 /\ t[q] = "\n"
  /\ tok.type = "LeftBracket" => q = f + 1 /\ t[q] = "["
  /\ tok.type = "Section" => last = "LeftBracket" /\ f = p /\ Only({"alnum"}, t, f + 1, q)
  /\ tok.type = "RightBracket" => last = "Section" /\ f = p /\ q = f + 1 /\ t[q] = "]"
  /\ tok.type = "Key" => f < q /\ Only({"alnum", "."}, t, f + 1, q)
  /\ tok.type = "Value" => /\ last = "Key" /\ p < f /\ q < Len(t) /\ t[q + 1] = "\n"
                           /\ NoNewline(t, f + 1, q)
                           /\ f < q => t[f + 1] # "blank"
  /\ tok.type = "EOF" => f = Len(t)
  /\ tok.type = "Error" => Broken(t, last, p, f, q)

Places(from, to) ==
  /\ from \in [1..Len(tokens) -> Nat] /\ to \in [0..Len(tokens) -> Nat] /\ to[0] = 0
  /\ \A i, j \in 0..Len(tokens) : i <= j => to[i] <= to[j]
  /\ \A i \in 1..Len(tokens) : Piece(input, LastType(i - 1), to[i - 1], tokens[i], from[i], to[i])

\* Every rune before Start is blank or in a token.
Covered(from, to) ==
  /\ \A i \in 1..Len(tokens) : tokens[i].type # "Error" => to[i] <= start
  /\ \A k \in 1..start : input[k] # "blank" =>
       \E i \in 1..Len(tokens) : tokens[i].type # "Error" /\ from[i] < k /\ k <= to[i]

\* What the lexer has before it, when the last token is of type last and ends
\* at p.
LexerAt(p, last) ==
  state # "nil" =>
    /\ start = pos /\ p <= pos
    /\ Only({"blank"}, input, p + 1, pos)
    /\ state \in {"LexStart", "LexEOF", "LexGlobalWhiteSpace", "LexNewLine", "LexLeftBracket", "LexKey"} =>
         last \in Resting
    /\ state = "LexEOF" => pos = Len(input)
    /\ state = "LexGlobalWhiteSpace" => input[pos + 1] = "blank"
    /\ state = "LexNewLine" => input[pos + 1] = "\n"
    /\ state = "LexLeftBracket" => input[pos + 1] = "["
    /\ state = "LexKey" => pos < Len(input) /\ input[pos + 1] \notin {"blank", "\n", "["}
    /\ state = "LexSection" => last = "LeftBracket" /\ p = pos
    /\ state = "LexRightBracket" => last = "Section" /\ p = pos /\ input[pos + 1] = "]"
    /\ state = "LexKeyWhiteSpace" => last = "Key" /\ input[pos + 1] = "blank"
    /\ state = "LexValue" => /\ last = "Key" /\ p < pos
                             /\ pos < Len(input) => input[pos + 1] # "blank"

\* A loop over runes passes runes of its class only.
LEMMA PastOnly ==
  ASSUME NEW R, NEW p \in 0..Len(input), input \in Text, NEW q, q = Past(R, p)
  PROVE  /\ q \in p..Len(input)
         /\ EOF(q) <=> q = Len(input)
         /\ ~ EOF(q) => q < Len(input) /\ Peek(q) = input[q + 1] /\ input[q + 1] \notin R
         /\ Only(R, input, p + 1, q)
<1>1. /\ q \in p..Len(input)
      /\ EOF(q) \/ Peek(q) \notin R
      /\ \A i \in p..(q - 1) : Peek(i) \in R
  BY PastStops
<1>2. Len(input) \in Nat /\ p \in Nat
  BY DEF Text
<1>3. q \in Nat /\ p <= q /\ q <= Len(input)
  BY <1>1, <1>2
<1>4. (EOF(q) <=> q = Len(input)) /\ (~ EOF(q) => q < Len(input) /\ Peek(q) = input[q + 1])
  BY <1>2, <1>3 DEF EOF, Peek
<1>5. ASSUME NEW i \in (p + 1)..q PROVE input[i] \in R
  <2>1. i - 1 \in p..(q - 1) /\ i \in Nat /\ i - 1 + 1 = i /\ ~ (i - 1 >= Len(input))
    BY <1>2, <1>3
  <2>2. Peek(i - 1) = input[i]
    BY <2>1 DEF Peek, EOF
  <2> QED
    BY <1>1, <2>1, <2>2
<1> QED
  BY <1>1, <1>4, <1>5 DEF Only

\* A new token has its place behind the others.
LEMMA AddPlace ==
  ASSUME NEW from, NEW to, Places(from, to), tokens \in Seq(TokenType),
         NEW tok \in TokenType, tokens' = Append(tokens, tok), input' = input,
         NEW f \in Nat, NEW q \in Nat,
         Piece(input, LastType(Len(tokens)), to[Len(tokens)], tok, f, q)
  PROVE  \E from2, to2 :
           /\ Places(from2, to2)'
           /\ from2[Len(tokens) + 1] = f /\ to2[Len(tokens) + 1] = q
           /\ \A i \in 1..Len(tokens) : from2[i] = from[i] /\ to2[i] = to[i]
<1>1. PICK n \in Nat : n = Len(tokens)
  OBVIOUS
<1> DEFINE from2 == [i \in 1..(n + 1) |-> IF i = n + 1 THEN f ELSE from[i]]
           to2 == [i \in 0..(n + 1) |-> IF i = n + 1 THEN q ELSE to[i]]
<1>2. /\ Len(tokens') = n + 1 /\ tokens'[n + 1] = tok
      /\ \A i \in 1..n : tokens'[i] = tokens[i]
  BY <1>1
<1>3. /\ from \in [1..n -> Nat] /\ to \in [0..n -> Nat] /\ to[0] = 0
      /\ \A i, j \in 0..n : i <= j => to[i] <= to[j]
      /\ \A i \in 1..n : Piece(input, LastType(i - 1), to[i - 1], tokens[i], from[i], to[i])
  BY <1>1 DEF Places
<1>4. to[n] \in Nat /\ to[n] <= q
  <2>1. to[n] \in Nat /\ to[n] <= f /\ f <= q
    BY <1>1, <1>3 DEF Piece
  <2> QED
    BY <2>1
<1>5. /\ from2 \in [1..(n + 1) -> Nat] /\ to2 \in [0..(n + 1) -> Nat] /\ to2[0] = 0
      /\ from2[n + 1] = f /\ to2[n + 1] = q
      /\ \A i \in 1..n : from2[i] = from[i]
      /\ \A i \in 0..n : to2[i] = to[i]
  BY <1>3
<1> HIDE DEF from2, to2
<1>6. \A i \in 0..n : LastType(i)' = LastType(i)
  BY <1>2 DEF LastType
<1>7. ASSUME NEW i \in 0..(n + 1), NEW j \in 0..(n + 1), i <= j PROVE to2[i] <= to2[j]
  <2>1. CASE j \in 0..n
    <3>1. i \in 0..n
      BY <1>7, <2>1
    <3> QED
      BY <1>3, <1>5, <1>7, <2>1, <3>1
  <2>2. CASE j = n + 1 /\ i \in 0..n
    <3>1. to[i] <= to[n] /\ to[i] \in Nat
      BY <1>3, <2>2
    <3> QED
      BY <1>4, <1>5, <2>2, <3>1
  <2>3. CASE j = n + 1 /\ i = n + 1
    BY <1>5, <2>3
  <2> QED
    BY <2>1, <2>2, <2>3
<1>8. ASSUME NEW i \in 1..(n + 1)
      PROVE  Piece(input, LastType(i - 1)', to2[i - 1], tokens'[i], from2[i], to2[i])
  <2>1. CASE i \in 1..n
    <3>1. i - 1 \in 0..n /\ i \in 0..n
      BY <2>1
    <3> QED
      BY <1>2, <1>3, <1>5, <1>6, <2>1, <3>1
  <2>2. CASE i = n + 1
    <3>1. i - 1 = n /\ n \in 0..n
      BY <2>2
    <3> QED
      BY <1>1, <1>2, <1>5, <1>6, <2>2, <3>1
  <2>3. i \in 1..n \/ i = n + 1
    BY <1>8
  <2> QED
    BY <2>1, <2>2, <2>3
<1>9. Places(from2, to2)'
  BY <1>2, <1>5, <1>7, <1>8 DEF Places
<1>10. \A i \in 1..n : from2[i] = from[i] /\ to2[i] = to[i]
  BY <1>5
<1> QED
  BY <1>1, <1>5, <1>9, <1>10

\* Every token has its place, and the lexer stands behind the last one.
Placed(from, to) ==
  /\ Places(from, to)
  /\ Covered(from, to)
  /\ LexerAt(to[Len(tokens)], LastType(Len(tokens)))

\* The place of the last token.
LEMMA LastPlace ==
  ASSUME Inv, NEW from, NEW to, Placed(from, to)
  PROVE  /\ Len(tokens) \in Nat /\ to[Len(tokens)] \in Nat
         /\ \A i \in 1..Len(tokens) : /\ from[i] \in Nat /\ to[i] \in Nat /\ to[i] <= to[Len(tokens)]
                                      /\ tokens[i].type # "Error" => to[i] <= start
<1>1. tokens \in Seq(TokenType) /\ Len(tokens) \in Nat
  BY DEF Inv, TokensInv
<1>2. /\ from \in [1..Len(tokens) -> Nat] /\ to \in [0..Len(tokens) -> Nat]
      /\ \A i, j \in 0..Len(tokens) : i <= j => to[i] <= to[j]
  BY DEF Placed, Places
<1>3. \A i \in 1..Len(tokens) : i \in 0..Len(tokens) /\ Len(tokens) \in 0..Len(tokens) /\ i <= Len(tokens)
  BY <1>1
<1>4. \A i \in 1..Len(tokens) : tokens[i].type # "Error" => to[i] <= start
  BY DEF Placed, Covered
<1> QED
  BY <1>1, <1>2, <1>3, <1>4

\* A token that Emit adds has its place between Start and the position.
LEMMA EmitPlaces ==
  ASSUME Inv, NEW from, NEW to, Placed(from, to), state # "nil",
         NEW type \in TokenTypes \ {"Error"}, NEW p \in pos..Len(input),
         NEW s \in {"LexStart", "LexSection", "LexRightBracket", "LexKeyWhiteSpace", "nil"},
         Emit(type, p, s),
         Piece(input, LastType(Len(tokens)), to[Len(tokens)],
               Token(type, SubSeq(input, pos + 1, p)), pos, p),
         s = "LexStart" => type \in Resting,
         s = "LexSection" => type = "LeftBracket",
         s = "LexRightBracket" => type = "Section" /\ input[p + 1] = "]",
         s = "LexKeyWhiteSpace" => type = "Key" /\ input[p + 1] = "blank"
  PROVE  \E from2, to2 : Placed(from2, to2)'
<1> DEFINE tok == Token(type, SubSeq(input, pos + 1, p))
<1>1. PICK n \in Nat, m \in Nat : n = Len(tokens) /\ m = pos
  <2>1. Len(tokens) \in Nat /\ pos \in Nat
    BY DEF Inv, TokensInv, TypeOK, Text
  <2> QED
    BY <2>1
<1>2. /\ input \in Text /\ Len(input) \in Nat /\ pos \in 0..Len(input) /\ input' = input
      /\ tokens \in Seq(TokenType) /\ start = pos /\ p \in Nat /\ pos <= p
      /\ pos' = p /\ start' = p /\ state' = s /\ p <= Len(input)
      /\ tokens' = Append(tokens, tok)
  <2>1. /\ input \in Text /\ Len(input) \in Nat /\ pos \in 0..Len(input) /\ input' = input
        /\ tokens \in Seq(TokenType) /\ start = pos
        /\ pos' = p /\ start' = p /\ state' = s
    BY DEF Inv, TypeOK, TokensInv, Text, Emit, Goto, Placed, LexerAt
  <2> QED
    BY <2>1 DEF Emit
<1>3. tok \in TokenType /\ tok.type = type /\ tok.type # "Error"
  <2>1. SubSeq(input, pos + 1, p) \in Text
    BY <1>1, <1>2, SliceIsText
  <2> QED
    BY <2>1 DEF Token, TokenType
<1>4. Piece(input, LastType(Len(tokens)), to[Len(tokens)], tok, m, p)
  BY <1>1
<1> HIDE DEF tok
<1>5. PICK from2, to2 :
        /\ Places(from2, to2)'
        /\ from2[n + 1] = m /\ to2[n + 1] = p
        /\ \A i \in 1..n : from2[i] = from[i] /\ to2[i] = to[i]
  BY <1>1, <1>2, <1>3, <1>4, AddPlace DEF Placed
<1>6. /\ Len(tokens') = n + 1 /\ tokens'[n + 1] = tok
      /\ \A i \in 1..n : tokens'[i] = tokens[i]
  BY <1>1, <1>2
<1>7. Covered(from2, to2)'
  <2>1. ASSUME NEW i \in 1..(n + 1), tokens'[i].type # "Error" PROVE to2[i] <= p
    <3>1. CASE i \in 1..n
      <4>1. to2[i] <= start /\ to2[i] \in Nat
        BY <1>1, <1>5, <1>6, <2>1, <3>1, LastPlace
      <4> QED
        BY <1>1, <1>2, <4>1
    <3>2. CASE i = n + 1
      BY <1>2, <1>5, <3>2
    <3>3. i \in 1..n \/ i = n + 1
      BY <2>1
    <3> QED
      BY <3>1, <3>2, <3>3
  <2>2. ASSUME NEW k \in 1..p, input[k] # "blank"
        PROVE  \E i \in 1..(n + 1) : tokens'[i].type # "Error" /\ from2[i] < k /\ k <= to2[i]
    <3>1. CASE k \in 1..start
      <4>1. PICK i \in 1..n : tokens[i].type # "Error" /\ from[i] < k /\ k <= to[i]
        BY <1>1, <2>2, <3>1 DEF Placed, Covered
      <4> QED
        BY <1>5, <1>6, <4>1
    <3>2. CASE k \notin 1..start
      <4>1. m < k /\ k <= p /\ n + 1 \in 1..(n + 1)
        BY <1>1, <1>2, <3>2
      <4> QED
        BY <1>3, <1>5, <1>6, <4>1
    <3> QED
      BY <3>1, <3>2
  <2> QED
    BY <1>2, <1>6, <2>1, <2>2 DEF Covered
<1>8. LastType(n + 1)' = type
  BY <1>3, <1>6 DEF LastType
<1>9. LexerAt(p, type)'
  <2>1. Only({"blank"}, input', p + 1, p)
    BY <1>2 DEF Only
  <2> QED
    BY <1>2, <2>1 DEF LexerAt
<1>10. LexerAt(to2[Len(tokens)], LastType(Len(tokens)))'
  BY <1>5, <1>6, <1>8, <1>9
<1> QED
  BY <1>5, <1>7, <1>10 DEF Placed

\* An error has its place where the lexer gives up; Start stays.
LEMMA ErrorPlaces ==
  ASSUME Inv, NEW from, NEW to, Placed(from, to), state # "nil",
         NEW message \in Messages, NEW p \in pos..Len(input),
         Errorf(message, p),
         Piece(input, LastType(Len(tokens)), to[Len(tokens)], Token("Error", message), pos, p)
  PROVE  \E from2, to2 : Placed(from2, to2)'
<1> DEFINE tok == Token("Error", message)
<1>1. PICK n \in Nat, m \in Nat : n = Len(tokens) /\ m = pos
  <2>1. Len(tokens) \in Nat /\ pos \in Nat
    BY DEF Inv, TokensInv, TypeOK, Text
  <2> QED
    BY <2>1
<1>2. /\ Len(input) \in Nat /\ pos \in 0..Len(input) /\ input' = input
      /\ tokens \in Seq(TokenType)
      /\ start' = start /\ state' = "nil"
      /\ tokens' = Append(tokens, tok)
  BY DEF Inv, TypeOK, TokensInv, Text, Errorf, Goto
<1>3. tok \in TokenType /\ tok.type = "Error" /\ p \in Nat
  BY <1>1 DEF Token, TokenType
<1>4. Piece(input, LastType(Len(tokens)), to[Len(tokens)], tok, m, p)
  BY <1>1
<1> HIDE DEF tok
<1>5. PICK from2, to2 :
        /\ Places(from2, to2)'
        /\ \A i \in 1..n : from2[i] = from[i] /\ to2[i] = to[i]
  BY <1>1, <1>2, <1>3, <1>4, AddPlace DEF Placed
<1>6. /\ Len(tokens') = n + 1 /\ tokens'[n + 1] = tok
      /\ \A i \in 1..n : tokens'[i] = tokens[i]
      /\ \A i \in 1..(n + 1) : i \in 1..n \/ i = n + 1
      /\ \A i \in 1..n : i \in 1..(n + 1)
  BY <1>1, <1>2
<1>7. Covered(from2, to2)'
  <2>1. ASSUME NEW i \in 1..(n + 1), tokens'[i].type # "Error" PROVE to2[i] <= start
    <3>1. i \in 1..n
      BY <1>3, <1>6, <2>1
    <3> QED
      BY <1>1, <1>5, <1>6, <2>1, <3>1 DEF Placed, Covered
  <2>2. ASSUME NEW k \in 1..start, input[k] # "blank"
        PROVE  \E i \in 1..(n + 1) : tokens'[i].type # "Error" /\ from2[i] < k /\ k <= to2[i]
    <3>1. PICK i \in 1..n : tokens[i].type # "Error" /\ from[i] < k /\ k <= to[i]
      BY <1>1, <2>2 DEF Placed, Covered
    <3> QED
      BY <1>5, <1>6, <3>1
  <2> QED
    BY <1>2, <1>6, <2>1, <2>2 DEF Covered
<1>8. LexerAt(to2[Len(tokens)], LastType(Len(tokens)))'
  BY <1>2 DEF LexerAt
<1> QED
  BY <1>5, <1>7, <1>8 DEF Placed

\* A step that emits nothing passes blanks at most.
LEMMA MovePlaces ==
  ASSUME Inv, NEW from, NEW to, Placed(from, to), state # "nil",
         UNCHANGED <<input, tokens>>, start' = pos',
         pos' = pos \/ (pos' = pos + 1 /\ input[pos + 1] = "blank"),
         LexerAt(to[Len(tokens)], LastType(Len(tokens)))'
  PROVE  Placed(from, to)'
<1>1. /\ input' = input /\ tokens' = tokens /\ start = pos /\ pos \in Nat
      /\ \A i \in 1..Len(tokens) : to[i] \in Nat
  BY LastPlace DEF Inv, TypeOK, Text, Placed, LexerAt
<1>2. Places(from, to)'
  BY <1>1 DEF Placed, Places, LastType
<1>3. Covered(from, to)'
  <2>1. ASSUME NEW i \in 1..Len(tokens), tokens[i].type # "Error" PROVE to[i] <= start'
    <3>1. to[i] <= pos
      BY <1>1, <2>1 DEF Placed, Covered
    <3> QED
      BY <1>1, <3>1
  <2>2. ASSUME NEW k \in 1..start', input[k] # "blank" PROVE k \in 1..start
    BY <1>1, <2>2
  <2> QED
    BY <1>1, <2>1, <2>2 DEF Placed, Covered
<1> QED
  BY <1>2, <1>3 DEF Placed

\* Every state function of the lexer leaves each token in its place.
LEMMA LexPlaces ==
  ASSUME Inv, NEW from, NEW to, Placed(from, to), Lex
  PROVE  \E from2, to2 : Placed(from2, to2)'
<1> DEFINE last == LastType(Len(tokens))
           p == to[Len(tokens)]
<1>1. /\ input \in Text /\ Len(input) \in Nat /\ pos \in 0..Len(input) /\ pos \in Nat /\ pos <= Len(input)
      /\ p \in Nat
      /\ \A k \in 1..Len(input) : input[k] \in Runes
  BY LastPlace DEF Inv, TypeOK, Text
<1>2. state # "nil" /\ input' = input
  BY DEF Lex, LexStart, LexEOF, LexGlobalWhiteSpace, LexKeyWhiteSpace, LexNewLine, LexLeftBracket,
         LexSection, LexRightBracket, LexKey, LexValue, Emit, Errorf, Skip, Goto
<1>3. /\ start = pos /\ p <= pos /\ Only({"blank"}, input, p + 1, pos)
      /\ LexerAt(p, last)
  BY <1>2 DEF Placed, LexerAt
<1>4. state \in Consuming => /\ pos < Len(input) /\ pos + 1 \in pos..Len(input) /\ pos + 1 \in Nat
                             /\ pos + 1 \in 1..Len(input) /\ pos <= pos + 1 /\ pos + 1 <= Len(input)
                             /\ p <= pos + 1
  BY <1>1, <1>3 DEF Inv, RuneInv
<1>5. pos \in pos..Len(input)
  BY <1>1
<1>6. UNCHANGED tokens => p' = p /\ last' = last
  BY DEF LastType
<1>7. \A type, value : Token(type, value).type = type /\ Token(type, value).value = value
  BY DEF Token
<1>8. \A r : r \in Nat /\ EOF(r) /\ r <= Len(input) => r = Len(input)
  BY <1>1 DEF EOF
<1>9. CASE LexStart
  <2>1. /\ state = "LexStart" /\ last \in Resting /\ UNCHANGED <<tokens, start, pos>>
        /\ state' \in {"LexEOF", "LexGlobalWhiteSpace", "LexNewLine", "LexLeftBracket", "LexKey"}
        /\ state' = "LexEOF" <=> EOF(pos)
        /\ state' = "LexGlobalWhiteSpace" => Peek(pos) = "blank"
        /\ state' = "LexNewLine" => Peek(pos) = "\n"
        /\ state' = "LexLeftBracket" => Peek(pos) = "["
        /\ state' = "LexKey" => Peek(pos) \notin {"blank", "\n", "["}
    BY <1>3, <1>9 DEF LexStart, Goto, LexerAt
  <2>2. ~ EOF(pos) => Peek(pos) = input[pos + 1] /\ pos < Len(input)
    BY <1>1 DEF EOF, Peek
  <2>3. LexerAt(p, last)'
    BY <1>2, <1>3, <1>1, <1>6, <1>8, <2>1, <2>2 DEF LexerAt
  <2>4. Placed(from, to)'
    BY <1>2, <1>3, <2>1, <2>3, MovePlaces
  <2> QED
    BY <2>4
<1>10. CASE LexGlobalWhiteSpace
  <2>1. /\ state = "LexGlobalWhiteSpace" /\ last \in Resting /\ input[pos + 1] = "blank"
        /\ UNCHANGED tokens /\ pos' = pos + 1 /\ start' = pos + 1 /\ state' = "LexStart"
        /\ state \in Consuming
    BY <1>3, <1>10 DEF LexGlobalWhiteSpace, Skip, Goto, LexerAt, Consuming
  <2>2. Only({"blank"}, input, p + 1, pos + 1)
    <3>1. \A i \in (p + 1)..(pos + 1) : i \in (p + 1)..pos \/ i = pos + 1
      BY <1>1
    <3> QED
      BY <1>3, <2>1, <3>1 DEF Only
  <2>3. LexerAt(p, last)'
    BY <1>2, <1>4, <1>6, <2>1, <2>2 DEF LexerAt
  <2>4. Placed(from, to)'
    BY <1>2, <1>3, <2>1, <2>3, MovePlaces
  <2> QED
    BY <2>4
<1>11. CASE LexKeyWhiteSpace
  <2>1. /\ state = "LexKeyWhiteSpace" /\ last = "Key" /\ input[pos + 1] = "blank"
        /\ UNCHANGED tokens /\ pos' = pos + 1 /\ start' = pos + 1
        /\ state \in Consuming
        /\ state' = IF Peek(pos + 1) = "blank" THEN "LexKeyWhiteSpace" ELSE "LexValue"
    BY <1>3, <1>11 DEF LexKeyWhiteSpace, Skip, Goto, LexerAt, Consuming
  <2>2. Only({"blank"}, input, p + 1, pos + 1)
    <3>1. \A i \in (p + 1)..(pos + 1) : i \in (p + 1)..pos \/ i = pos + 1
      BY <1>1
    <3> QED
      BY <1>3, <2>1, <3>1 DEF Only
  <2>3. /\ state' = "LexKeyWhiteSpace" => input[pos + 1 + 1] = "blank"
        /\ state' = "LexValue" => p < pos + 1 /\ (pos + 1 < Len(input) => input[pos + 1 + 1] # "blank")
    <3>1. pos + 1 < Len(input) <=> ~ EOF(pos + 1)
      BY <1>1 DEF EOF
    <3>2. p < pos + 1
      BY <1>1, <1>3
    <3> QED
      BY <2>1, <3>1, <3>2 DEF Peek
  <2>4. LexerAt(p, last)'
    BY <1>2, <1>4, <1>6, <2>1, <2>2, <2>3 DEF LexerAt
  <2>5. Placed(from, to)'
    BY <1>2, <1>3, <2>1, <2>4, MovePlaces
  <2> QED
    BY <2>5
<1>12. CASE LexEOF
  <2>1. /\ state = "LexEOF" /\ last \in Resting /\ pos = Len(input)
        /\ Emit("EOF", pos, "nil") /\ "EOF" \in TokenTypes \ {"Error"}
    BY <1>3, <1>12 DEF LexEOF, LexerAt, TokenTypes
  <2>2. Piece(input, last, p, Token("EOF", SubSeq(input, pos + 1, pos)), pos, pos)
    BY <1>1, <1>3, <2>1 DEF Piece, Token
  <2> QED
    BY <1>2, <1>5, <2>1, <2>2, EmitPlaces
<1>13. CASE LexNewLine
  <2>1. /\ state = "LexNewLine" /\ last \in Resting /\ input[pos + 1] = "\n" /\ state \in Consuming
        /\ Emit("NewLine", pos + 1, "LexStart") /\ "NewLine" \in TokenTypes \ {"Error"}
        /\ "NewLine" \in Resting
    BY <1>3, <1>13 DEF LexNewLine, LexerAt, TokenTypes, Consuming, Resting
  <2>2. Piece(input, last, p, Token("NewLine", SubSeq(input, pos + 1, pos + 1)), pos, pos + 1)
    BY <1>1, <1>3, <1>4, <1>7, <2>1 DEF Piece
  <2> QED
    BY <1>2, <1>4, <2>1, <2>2, EmitPlaces
<1>14. CASE LexLeftBracket
  <2>1. /\ state = "LexLeftBracket" /\ last \in Resting /\ input[pos + 1] = "[" /\ state \in Consuming
        /\ Emit("LeftBracket", pos + 1, "LexSection") /\ "LeftBracket" \in TokenTypes \ {"Error"}
    BY <1>3, <1>14 DEF LexLeftBracket, LexerAt, TokenTypes, Consuming
  <2>2. Piece(input, last, p, Token("LeftBracket", SubSeq(input, pos + 1, pos + 1)), pos, pos + 1)
    BY <1>1, <1>3, <1>4, <1>7, <2>1 DEF Piece
  <2> QED
    BY <1>2, <1>4, <2>1, <2>2, EmitPlaces
<1>15. CASE LexRightBracket
  <2>1. /\ state = "LexRightBracket" /\ last = "Section" /\ p = pos /\ input[pos + 1] = "]"
        /\ state \in Consuming /\ "RightBracket" \in Resting
        /\ Emit("RightBracket", pos + 1, "LexStart") /\ "RightBracket" \in TokenTypes \ {"Error"}
    BY <1>3, <1>15 DEF LexRightBracket, LexerAt, TokenTypes, Consuming, Resting
  <2>2. Piece(input, last, p, Token("RightBracket", SubSeq(input, pos + 1, pos + 1)), pos, pos + 1)
    BY <1>1, <1>3, <1>4, <2>1 DEF Piece, Token
  <2> QED
    BY <1>2, <1>4, <2>1, <2>2, EmitPlaces
<1>16. "unexpected EOF" \in Messages /\ "missing right bracket" \in Messages /\ "invalid key" \in Messages
  BY DEF Messages
<1>17. CASE LexSection
  <2>1. PICK q \in pos..Len(input) : q = Past({"alnum"}, pos)
    BY <1>1, PastStops
  <2>2. /\ EOF(q) <=> q = Len(input)
        /\ ~ EOF(q) => q < Len(input) /\ Peek(q) = input[q + 1] /\ input[q + 1] \notin {"alnum"}
        /\ Only({"alnum"}, input, pos + 1, q)
        /\ q \in Nat /\ pos <= q /\ q <= Len(input)
    BY <1>1, <2>1, PastOnly
  <2>3. state = "LexSection" /\ last = "LeftBracket" /\ p = pos
    BY <1>3, <1>17 DEF LexSection, LexerAt
  <2>4. ASSUME NEW message \in Messages, Errorf(message, q), EOF(q) \/ Peek(q) # "]"
        PROVE  \E from2, to2 : Placed(from2, to2)'
    <3>1. Broken(input, last, p, pos, q)
      BY <2>2, <2>3, <2>4 DEF Broken
    <3>2. Piece(input, last, p, Token("Error", message), pos, q)
      BY <1>1, <1>3, <1>7, <2>2, <3>1 DEF Piece
    <3> QED
      BY <1>2, <2>4, <3>2, ErrorPlaces
  <2>5. CASE ~ EOF(q) /\ Peek(q) = "]" /\ Emit("Section", q, "LexRightBracket")
    <3>1. Piece(input, last, p, Token("Section", SubSeq(input, pos + 1, q)), pos, q)
      BY <1>1, <1>3, <2>2, <2>3 DEF Piece, Token
    <3>2. "Section" \in TokenTypes \ {"Error"}
      BY DEF TokenTypes
    <3> QED
      BY <1>2, <2>2, <2>5, <3>1, <3>2, EmitPlaces
  <2> QED
    BY <1>16, <1>17, <2>1, <2>4, <2>5 DEF LexSection
<1>18. CASE LexKey
  <2>1. PICK q \in pos..Len(input) : q = Past({"alnum", "."}, pos)
    BY <1>1, PastStops
  <2>2. /\ EOF(q) <=> q = Len(input)
        /\ ~ EOF(q) => q < Len(input) /\ Peek(q) = input[q + 1] /\ input[q + 1] \notin {"alnum", "."}
        /\ Only({"alnum", "."}, input, pos + 1, q)
        /\ q \in Nat /\ pos <= q /\ q <= Len(input)
    <3>1. q \in Nat /\ pos <= q /\ q <= Len(input)
      BY <1>1
    <3> QED
      BY <1>1, <2>1, <3>1, PastOnly
  <2>3. /\ state = "LexKey" /\ last \in Resting
        /\ pos < Len(input) /\ input[pos + 1] \notin {"blank", "\n", "["}
    BY <1>3, <1>18 DEF LexKey, LexerAt
  <2>4. ASSUME NEW message \in Messages, Errorf(message, q), EOF(q) \/ Peek(q) # "blank"
        PROVE  \E from2, to2 : Placed(from2, to2)'
    <3>1. Broken(input, last, p, pos, q)
      BY <2>2, <2>3, <2>4 DEF Broken
    <3>2. Piece(input, last, p, Token("Error", message), pos, q)
      BY <1>1, <1>3, <1>7, <2>2, <3>1 DEF Piece
    <3> QED
      BY <1>2, <2>4, <3>2, ErrorPlaces
  <2>5. CASE ~ EOF(q) /\ Peek(q) = "blank" /\ Emit("Key", q, "LexKeyWhiteSpace")
    <3>1. pos < q
      <4>1. q # pos
        BY <2>2, <2>3, <2>5
      <4> QED
        BY <1>1, <2>2, <4>1
    <3>2. Piece(input, last, p, Token("Key", SubSeq(input, pos + 1, q)), pos, q)
      BY <1>1, <1>3, <2>2, <2>3, <3>1 DEF Piece, Token
    <3>3. "Key" \in TokenTypes \ {"Error"}
      BY DEF TokenTypes
    <3> QED
      BY <1>2, <2>2, <2>5, <3>2, <3>3, EmitPlaces
  <2> QED
    BY <1>16, <1>18, <2>1, <2>4, <2>5 DEF LexKey
<1>19. CASE LexValue
  <2>1. PICK q \in pos..Len(input) : q = Past(Runes \ {"\n"}, pos)
    BY <1>1, PastStops
  <2>2. /\ EOF(q) <=> q = Len(input)
        /\ ~ EOF(q) => q < Len(input) /\ Peek(q) = input[q + 1] /\ input[q + 1] \notin Runes \ {"\n"}
        /\ NoNewline(input, pos + 1, q)
        /\ q \in Nat /\ pos <= q /\ q <= Len(input)
    BY <1>1, <2>1, PastOnly DEF NoNewline
  <2>3. /\ state = "LexValue" /\ last = "Key" /\ p < pos
        /\ pos < Len(input) => input[pos + 1] # "blank"
    BY <1>3, <1>19 DEF LexValue, LexerAt
  <2>4. CASE EOF(q) /\ Errorf("unexpected EOF", q)
    <3>1. Broken(input, last, p, pos, q)
      BY <2>2, <2>3, <2>4 DEF Broken
    <3>2. Piece(input, last, p, Token("Error", "unexpected EOF"), pos, q)
      BY <1>1, <1>3, <1>7, <2>2, <3>1 DEF Piece
    <3> QED
      BY <1>2, <1>16, <2>4, <3>2, ErrorPlaces
  <2>5. CASE ~ EOF(q) /\ Emit("Value", q, "LexStart")
    <3>1. q < Len(input) /\ input[q + 1] = "\n"
      <4>1. q < Len(input) /\ q + 1 \in 1..Len(input)
        BY <1>1, <2>2, <2>5
      <4> QED
        BY <1>1, <2>2, <2>5, <4>1
    <3>2. pos < q => input[pos + 1] # "blank"
      BY <1>1, <2>2, <2>3
    <3>3. Piece(input, last, p, Token("Value", SubSeq(input, pos + 1, q)), pos, q)
      BY <1>1, <1>3, <1>7, <2>2, <2>3, <3>1, <3>2 DEF Piece
    <3>4. "Value" \in TokenTypes \ {"Error"} /\ "Value" \in Resting
      BY DEF TokenTypes, Resting
    <3> QED
      BY <1>2, <2>2, <2>5, <3>3, <3>4, EmitPlaces
  <2> QED
    BY <1>19, <2>1, <2>4, <2>5 DEF LexValue
<1> QED
  BY <1>9, <1>10, <1>11, <1>12, <1>13, <1>14, <1>15, <1>17, <1>18, <1>19 DEF Lex

-----------------------------------------------------------------------------
(***************************************************************************)
(* What Parse has read when it has looked at a number of tokens.           *)
(***************************************************************************)

\* File.Sections as it would be if the text ended here.
Whole == Append(sections, section)

\* The lines within the first a runes are of one of the three kinds.
GoodUpTo(t, a) ==
  \A l \in Lines(t) : l[2] < a => IsBlank(t, l) \/ l \in HeaderLines(t) \cup PairLines(t)

\* A bracket opens at c the line that begins after a runes.
Opened(t, a, c) == a < c /\ t[c] = "[" /\ Only({"blank"}, t, a + 1, c - 1)

\* The tokens looked at end at p, the last of them is of type last; file is what
\* the lines before the present one mean, a runes come before that line.
Read(a, file, p, last) ==
  /\ a \in Nat /\ p \in Nat /\ a <= p /\ p <= Len(input)
  /\ Begins(input, a) /\ NoNewline(input, a + 1, p)
  /\ file \in Sections /\ MeansUpTo(input, a, file) /\ GoodUpTo(input, a)
  /\ newline <=> last = "RightBracket"
  /\ last = "NewLine" => a = p /\ Whole = file
  /\ last = "LeftBracket" => Opened(input, a, p) /\ Whole = AddSection(file, <<>>)
  /\ last = "Section" =>
       \E c \in (a + 1)..p : /\ Opened(input, a, c) /\ Only({"alnum"}, input, c + 1, p)
                             /\ Whole = AddSection(file, SubSeq(input, c + 1, p))
  /\ last = "RightBracket" =>
       \E c \in (a + 1)..(p - 1) : /\ Opened(input, a, c) /\ Only({"alnum"}, input, c + 1, p - 1)
                                   /\ input[p] = "]"
                                   /\ Whole = AddSection(file, SubSeq(input, c + 1, p - 1))
  /\ last = "Key" =>
       \E c \in (a + 1)..p : /\ Only({"blank"}, input, a + 1, c - 1)
                             /\ Only({"alnum", "."}, input, c, p)
                             /\ key = SubSeq(input, c, p) /\ Whole = file
  /\ last = "Value" =>
       /\ p < Len(input) /\ input[p + 1] = "\n"
       /\ \E pair \in Pair(input, <<a, p>>) : Whole = AddPair(file, pair)

\* The error or the file that Parse returns is what the text deserves.
Verdict ==
  /\ result = "ok" => WellFormed(input) /\ Means(input, sections)
  /\ result \notin {"none", "ok"} => ~ WellFormed(input)

\* Sequences that end in an element are equal only if all of it is.
LEMMA AppendEqual ==
  ASSUME NEW S, NEW s \in Seq(S), NEW x \in S, NEW r \in Seq(S), NEW y \in S,
         Append(s, x) = Append(r, y)
  PROVE  s = r /\ x = y
<1>1. /\ Len(s) \in Nat /\ Len(r) \in Nat
      /\ Len(Append(s, x)) = Len(s) + 1 /\ Len(Append(r, y)) = Len(r) + 1
      /\ Append(s, x)[Len(s) + 1] = x /\ Append(r, y)[Len(r) + 1] = y
      /\ \A i \in 1..Len(s) : Append(s, x)[i] = s[i]
      /\ \A i \in 1..Len(r) : Append(r, y)[i] = r[i]
  OBVIOUS
<1>2. Len(s) = Len(r)
  BY <1>1
<1>3. \A i \in 1..Len(s) : s[i] = r[i]
  BY <1>1, <1>2
<1>4. s = r
  BY <1>2, <1>3, SeqEqual
<1> QED
  BY <1>1, <1>2, <1>4

\* A pair is added to the section being filled.
LEMMA AddPairLast ==
  ASSUME NEW s \in Seq(SectionType), NEW x \in SectionType, NEW pair \in Text \X Text
  PROVE  AddPair(Append(s, x), pair) = Append(s, [x EXCEPT !.pairs = Append(@, pair)])
<1> DEFINE y == [x EXCEPT !.pairs = Append(@, pair)]
           file == Append(s, x)
<1>1. y \in SectionType
  <2>1. Append(x.pairs, pair) \in Seq(Text \X Text)
    BY DEF SectionType
  <2> QED
    BY <2>1 DEF SectionType
<1>2. /\ file \in Seq(SectionType) /\ Len(file) = Len(s) + 1 /\ Len(s) \in Nat
      /\ file[Len(s) + 1] = x /\ \A i \in 1..Len(s) : file[i] = s[i]
      /\ DOMAIN file = 1..(Len(s) + 1)
  OBVIOUS
<1>3. AddPair(file, pair) = [i \in 1..(Len(s) + 1) |-> IF i = Len(s) + 1 THEN y ELSE file[i]]
  <2> HIDE DEF file
  <2> QED
    BY <1>2 DEF AddPair
<1>4. /\ Append(s, y) \in Seq(SectionType) /\ Len(Append(s, y)) = Len(s) + 1
      /\ Append(s, y)[Len(s) + 1] = y /\ \A i \in 1..Len(s) : Append(s, y)[i] = s[i]
      /\ Append(s, y) = [i \in 1..(Len(s) + 1) |-> Append(s, y)[i]]
  <2> HIDE DEF y
  <2>1. PICK z \in Seq(SectionType) : z = Append(s, y)
    <3>1. Append(s, y) \in Seq(SectionType)
      BY <1>1, AppendProperties
    <3> QED
      BY <3>1
  <2>2. /\ Len(z) = Len(s) + 1
        /\ z[Len(s) + 1] = y /\ \A i \in 1..Len(s) : z[i] = s[i]
    BY <1>1, <2>1
  <2>3. z = [i \in 1..Len(z) |-> z[i]]
    OBVIOUS
  <2> QED
    BY <2>1, <2>2, <2>3
<1>5. \A i \in 1..(Len(s) + 1) : (IF i = Len(s) + 1 THEN y ELSE file[i]) = Append(s, y)[i]
  <2>1. \A i \in 1..(Len(s) + 1) : i = Len(s) + 1 \/ i \in 1..Len(s)
    BY <1>2
  <2> HIDE DEF y, file
  <2> QED
    BY <1>2, <1>4, <2>1
<1> HIDE DEF y, file
<1>6. AddPair(file, pair) = Append(s, y)
  BY <1>3, <1>4, <1>5
<1> QED
  BY <1>6 DEF y, file

\* A newline ends a line of one of the kinds, and another one may begin.
LEMMA LineEnds ==
  ASSUME NEW t \in Text, NEW a \in Nat, NEW b \in Nat, a <= b, b < Len(t),
         Begins(t, a), NoNewline(t, a + 1, b), t[b + 1] = "\n", GoodUpTo(t, a),
         IsBlank(t, <<a, b>>) \/ Header(t, <<a, b>>) # {} \/ Pair(t, <<a, b>>) # {}
  PROVE  /\ <<a, b>> \in Lines(t)
         /\ Begins(t, b + 1) /\ NoNewline(t, b + 1 + 1, b + 1)
         /\ GoodUpTo(t, b + 1)
<1>1. <<a, b>> \in Lines(t)
  BY LineDef
<1>2. Begins(t, b + 1) /\ NoNewline(t, b + 1 + 1, b + 1)
  BY DEF Begins, NoNewline, Only
<1>3. GoodUpTo(t, b + 1)
  <2>1. SUFFICES ASSUME NEW l \in Lines(t), l[2] < b + 1
                 PROVE  IsBlank(t, l) \/ l \in HeaderLines(t) \cup PairLines(t)
    BY DEF GoodUpTo
  <2>2. l[2] < a \/ l = <<a, b>>
    BY <1>1, <2>1, NextLine
  <2> QED
    BY <1>1, <2>2 DEF GoodUpTo, HeaderLines, PairLines
<1> QED
  BY <1>1, <1>2, <1>3

\* When only blanks follow good lines the text is well formed.
LEMMA GoodText ==
  ASSUME NEW t \in Text, NEW a \in 0..Len(t), Begins(t, a), GoodUpTo(t, a),
         Only({"blank"}, t, a + 1, Len(t))
  PROVE  WellFormed(t) /\ NoNewline(t, a + 1, Len(t))
<1>1. Len(t) \in Nat
  BY DEF Text
<1>2. NoNewline(t, a + 1, Len(t))
  BY DEF NoNewline, Only, Runes
<1>3. ASSUME NEW l \in Lines(t) PROVE IsBlank(t, l) \/ l \in HeaderLines(t) \cup PairLines(t)
  <2>1. l[2] \in Nat /\ l[2] < Len(t) /\ t[l[2] + 1] = "\n"
    BY LineType
  <2>2. ~ (a <= l[2])
    <3>1. a <= l[2] => l[2] + 1 \in (a + 1)..Len(t)
      BY <1>1, <2>1
    <3> QED
      BY <2>1, <3>1 DEF Only
  <2>3. l[2] < a
    BY <1>1, <2>1, <2>2
  <2> QED
    BY <2>3 DEF GoodUpTo
<1>4. ASSUME NEW b \in 0..Len(t), NoNewline(t, b + 1, Len(t)) PROVE Only({"blank"}, t, b + 1, Len(t))
  <2>1. ~ (b < a)
    <3>1. b < a => a \in (b + 1)..Len(t) /\ t[a] = "\n"
      BY <1>1 DEF Begins
    <3> QED
      BY <1>4, <3>1 DEF NoNewline, Only
  <2>2. \A i \in (b + 1)..Len(t) : i \in (a + 1)..Len(t)
    BY <1>1, <2>1
  <2> QED
    BY <2>2 DEF Only
<1> QED
  BY <1>2, <1>3, <1>4 DEF WellFormed

\* A newline follows a value: nothing else does.
LEMMA NotAfterValue ==
  ASSUME NEW t \in Text, NEW p \in Nat, NEW f \in Nat, p < Len(t), t[p + 1] = "\n",
         p <= f, Only({"blank"}, t, p + 1, f)
  PROVE  f = p
<1>1. ~ (p < f)
  <2>1. p < f => p + 1 \in (p + 1)..f
    OBVIOUS
  <2> QED
    BY <2>1 DEF Only
<1> QED
  BY <1>1

\* Runes of two stretches in a row.
LEMMA OnlyJoin ==
  ASSUME NEW t, NEW R, NEW a \in Nat, NEW b \in Nat, NEW c \in Nat,
         Only(R, t, a + 1, b), Only(R, t, b + 1, c)
  PROVE  Only(R, t, a + 1, c)
<1>1. \A i \in (a + 1)..c : i \in (a + 1)..b \/ i \in (b + 1)..c
  OBVIOUS
<1> QED
  BY <1>1 DEF Only

\* Blanks, letters and dots are no newlines.
LEMMA OnlyOthers ==
  ASSUME NEW t, NEW R, NEW a, NEW b, Only(R, t, a, b), R \subseteq Runes \ {"\n"}
  PROVE  NoNewline(t, a, b)
BY DEF NoNewline, Only

\* A newline ends the present line, and what has been read is what the lines up
\* to it mean.
LEMMA ReadNewLine ==
  ASSUME Inv, UNCHANGED <<input, section, sections>>, newline' = FALSE,
         NEW a, NEW file, NEW p, NEW last, Read(a, file, p, last),
         NEW f \in Nat, NEW q \in Nat, Piece(input, last, p, Current, f, q),
         Current.type = "NewLine"
  PROVE  \E file2 : Read(q, file2, q, "NewLine")'
<1>1. /\ a \in Nat /\ p \in Nat /\ a <= p /\ p <= Len(input) /\ file \in Sections
      /\ Begins(input, a) /\ NoNewline(input, a + 1, p)
      /\ MeansUpTo(input, a, file) /\ GoodUpTo(input, a)
  BY DEF Read
<1>2. /\ input \in Text /\ Len(input) \in Nat /\ input' = input /\ Whole' = Whole
      /\ Whole \in Seq(SectionType) /\ Whole # <<>>
  BY DEF Inv, TypeOK, Text, Whole
<1>3. /\ p <= f /\ q = f + 1 /\ q <= Len(input) /\ last \in Resting
      /\ Only({"blank"}, input, p + 1, f) /\ input[f + 1] = "\n"
  BY DEF Piece
<1>4. NoNewline(input, a + 1, f) /\ a <= f /\ f < Len(input)
  <2>1. NoNewline(input, p + 1, f)
    BY <1>3, OnlyOthers DEF Runes
  <2>2. Only(Runes \ {"\n"}, input, a + 1, f)
    BY <1>1, <2>1, OnlyJoin DEF NoNewline
  <2> QED
    BY <1>1, <1>2, <1>3, <2>2 DEF NoNewline
<1>5. ASSUME NEW file2, file2 = Whole, MeansUpTo(input, f + 1, file2),
             IsBlank(input, <<a, f>>) \/ Header(input, <<a, f>>) # {} \/ Pair(input, <<a, f>>) # {}
      PROVE  Read(q, file2, q, "NewLine")'
  <2>1. /\ Begins(input, q) /\ NoNewline(input, q + 1, q) /\ GoodUpTo(input, q)
    BY <1>1, <1>2, <1>3, <1>4, <1>5, LineEnds
  <2>2. file2 \in Sections
    BY <1>2, <1>5 DEF Sections
  <2> QED
    BY <1>2, <1>3, <1>5, <2>1, <2>2 DEF Read
<1>6. <<a, f>> \in Lines(input)
  BY <1>1, <1>2, <1>3, <1>4, LineDef
<1>7. CASE last = "NewLine"
  <2>1. a = p /\ Whole = file
    BY <1>7 DEF Read
  <2>2. IsBlank(input, <<a, f>>)
    BY <1>3, <2>1 DEF IsBlank
  <2>3. <<a, f>> \notin HeaderLines(input) /\ <<a, f>> \notin PairLines(input)
    BY <1>1, <1>2, <2>2, KindsDiffer DEF HeaderLines, PairLines, Header, Pair
  <2>4. MeansUpTo(input, f + 1, file)
    BY <1>1, <1>2, <1>6, <2>3, BlankMeans
  <2> QED
    BY <1>5, <2>1, <2>2, <2>4
<1>8. CASE last = "RightBracket"
  <2>1. PICK c \in (a + 1)..(p - 1) :
          /\ Opened(input, a, c) /\ Only({"alnum"}, input, c + 1, p - 1)
          /\ input[p] = "]"
          /\ Whole = AddSection(file, SubSeq(input, c + 1, p - 1))
    BY <1>8 DEF Read
  <2>2. <<c, p>> \in Brackets(input, <<a, f>>)
    <3>1. c < p /\ c \in (a + 1)..f /\ p \in (a + 1)..f
      BY <1>1, <1>3
    <3> QED
      BY <1>3, <2>1, <3>1 DEF Brackets, Opened
  <2>3. SubSeq(input, c + 1, p - 1) \in Header(input, <<a, f>>)
    <3>1. PICK b \in Brackets(input, <<a, f>>) : b[1] = c /\ b[2] = p
      BY <2>2
    <3>2. SubSeq(input, b[1] + 1, b[2] - 1) = SubSeq(input, c + 1, p - 1)
      BY <3>1
    <3> QED
      BY <3>2 DEF Header
  <2>4. MeansUpTo(input, f + 1, AddSection(file, SubSeq(input, c + 1, p - 1)))
    BY <1>1, <1>2, <1>6, <2>3, HeaderMeans
  <2>5. Header(input, <<a, f>>) # {} /\ MeansUpTo(input, f + 1, Whole)
    BY <2>1, <2>3, <2>4
  <2>6. PICK x \in Seq(SectionType) : x = Whole
    BY <1>2
  <2>7. MeansUpTo(input, f + 1, x)
    BY <2>5, <2>6
  <2> QED
    BY <1>5, <2>5, <2>6, <2>7
<1>9. CASE last = "Value"
  <2>1. /\ p < Len(input) /\ input[p + 1] = "\n"
        /\ \E pair \in Pair(input, <<a, p>>) : Whole = AddPair(file, pair)
    BY <1>9 DEF Read
  <2>2. f = p
    BY <1>1, <1>2, <1>3, <2>1, NotAfterValue
  <2>3. PICK pair \in Pair(input, <<a, f>>) : Whole = AddPair(file, pair)
    BY <2>1, <2>2
  <2>4. MeansUpTo(input, f + 1, AddPair(file, pair))
    BY <1>1, <1>2, <1>6, PairMeans
  <2>5. Pair(input, <<a, f>>) # {} /\ MeansUpTo(input, f + 1, Whole)
    BY <2>3, <2>4
  <2>6. PICK x \in Seq(SectionType) : x = Whole
    BY <1>2
  <2>7. MeansUpTo(input, f + 1, x)
    BY <2>5, <2>6
  <2> QED
    BY <1>5, <2>5, <2>6, <2>7
<1> QED
  BY <1>3, <1>7, <1>8, <1>9 DEF Resting

\* Unless a newline comes next, Parse stands at the beginning of a line when
\* the lexer was back in LexStart and no newline is required.
LEMMA AtLineStart ==
  ASSUME Inv, ~ newline,
         NEW a, NEW file, NEW p, NEW last, Read(a, file, p, last), last \in Resting,
         NEW f \in Nat, p <= f, Only({"blank"}, input, p + 1, f),
         f = Len(input) \/ input[f + 1] # "\n"
  PROVE  /\ last = "NewLine" /\ a = p /\ Whole = file /\ Only({"blank"}, input, a + 1, f)
         /\ Begins(input, a) /\ GoodUpTo(input, a) /\ MeansUpTo(input, a, file)
         /\ a \in Nat /\ a <= f /\ file \in Sections
<1>1. last # "RightBracket" /\ p \in Nat
  BY DEF Read
<1>2. last # "Value"
  <2>1. SUFFICES ASSUME last = "Value" PROVE FALSE
    OBVIOUS
  <2>2. p < Len(input) /\ input[p + 1] = "\n"
    BY <2>1 DEF Read
  <2>3. input \in Text /\ Len(input) \in Nat
    BY DEF Inv, TypeOK, Text
  <2>4. f = p
    BY <1>1, <2>2, <2>3, NotAfterValue
  <2> QED
    BY <1>1, <2>2, <2>3, <2>4
<1>3. last = "NewLine"
  BY <1>1, <1>2 DEF Resting
<1> QED
  BY <1>3 DEF Read

\* A bracket begins a section without a name.
LEMMA ReadLeftBracket ==
  ASSUME Inv, UNCHANGED <<input, newline>>, ~ newline,
         sections' = Append(sections, section), section' = EmptySection,
         NEW a, NEW file, NEW p, NEW last, Read(a, file, p, last),
         NEW f \in Nat, NEW q \in Nat, Piece(input, last, p, Current, f, q),
         Current.type = "LeftBracket"
  PROVE  Read(a, file, q, "LeftBracket")'
<1>1. /\ p <= f /\ q = f + 1 /\ q <= Len(input) /\ last \in Resting
      /\ Only({"blank"}, input, p + 1, f) /\ input[f + 1] = "["
  BY DEF Piece
<1>2. input \in Text /\ Len(input) \in Nat /\ input' = input /\ newline' = newline
  BY DEF Inv, TypeOK, Text
<1>3. /\ Whole = file /\ Only({"blank"}, input, a + 1, f)
      /\ Begins(input, a) /\ GoodUpTo(input, a) /\ MeansUpTo(input, a, file)
      /\ a \in Nat /\ a <= f /\ file \in Sections
  BY <1>1, AtLineStart
<1>4. Opened(input, a, q)
  BY <1>1, <1>3 DEF Opened
<1>5. NoNewline(input, a + 1, q)
  <2>1. q \in (a + 1)..Len(input) /\ q - 1 = f
    BY <1>1, <1>2, <1>3
  <2> QED
    BY <1>1, <1>2, <1>3, <2>1, NoNewlineThrough
<1>6. Whole' = AddSection(file, <<>>)
  BY <1>3 DEF Whole, AddSection, EmptySection
<1>7. a <= q
  BY <1>1, <1>3
<1> QED
  BY <1>1, <1>2, <1>3, <1>4, <1>5, <1>6, <1>7 DEF Read

\* The name of that section.
LEMMA ReadSection ==
  ASSUME Inv, UNCHANGED <<input, newline, sections>>, ~ newline,
         section' = [section EXCEPT !.name = Current.value],
         NEW a, NEW file, NEW p, NEW last, Read(a, file, p, last),
         NEW f \in Nat, NEW q \in Nat, Piece(input, last, p, Current, f, q),
         Current.type = "Section"
  PROVE  Read(a, file, q, "Section")'
<1>1. /\ p = f /\ f <= q /\ q <= Len(input) /\ last = "LeftBracket"
      /\ Only({"alnum"}, input, p + 1, q) /\ Current.value = SubSeq(input, p + 1, q)
  BY DEF Piece
<1>2. /\ input \in Text /\ Len(input) \in Nat /\ input' = input /\ newline' = newline
      /\ section \in SectionType /\ sections \in Seq(SectionType)
  BY DEF Inv, TypeOK, Text
<1>3. /\ a \in Nat /\ p \in Nat /\ a <= p /\ file \in Sections
      /\ Begins(input, a) /\ NoNewline(input, a + 1, p)
      /\ MeansUpTo(input, a, file) /\ GoodUpTo(input, a)
      /\ Opened(input, a, p) /\ Whole = AddSection(file, <<>>)
  BY <1>1 DEF Read
<1>4. sections = file /\ section = [name |-> <<>>, pairs |-> <<>>]
  <2>1. [name |-> <<>>, pairs |-> <<>>] \in SectionType /\ file \in Seq(SectionType)
    BY <1>3 DEF SectionType, Sections, Text
  <2>2. Append(sections, section) = Append(file, [name |-> <<>>, pairs |-> <<>>])
    BY <1>3 DEF Whole, AddSection
  <2> QED
    BY <1>2, <2>1, <2>2, AppendEqual
<1>5. Whole' = AddSection(file, SubSeq(input, p + 1, q))
  BY <1>1, <1>4 DEF Whole, AddSection
<1>6. NoNewline(input, a + 1, q)
  <2>1. NoNewline(input, p + 1, q)
    BY <1>1, OnlyOthers DEF Runes
  <2>2. Only(Runes \ {"\n"}, input, a + 1, q)
    BY <1>3, <2>1, OnlyJoin DEF NoNewline
  <2> QED
    BY <2>2 DEF NoNewline
<1>7. p \in (a + 1)..q /\ a <= q
  BY <1>1, <1>3 DEF Opened
<1> QED
  BY <1>1, <1>2, <1>3, <1>5, <1>6, <1>7 DEF Read

\* The bracket that closes it.
LEMMA ReadRightBracket ==
  ASSUME Inv, UNCHANGED <<input, section, sections>>, ~ newline, newline' = TRUE,
         NEW a, NEW file, NEW p, NEW last, Read(a, file, p, last),
         NEW f \in Nat, NEW q \in Nat, Piece(input, last, p, Current, f, q),
         Current.type = "RightBracket"
  PROVE  Read(a, file, q, "RightBracket")'
<1>1. /\ p = f /\ q = f + 1 /\ q <= Len(input) /\ last = "Section" /\ input[q] = "]"
  BY DEF Piece
<1>2. input \in Text /\ Len(input) \in Nat /\ input' = input /\ Whole' = Whole
  BY DEF Inv, TypeOK, Text, Whole
<1>3. /\ a \in Nat /\ p \in Nat /\ a <= p /\ file \in Sections
      /\ Begins(input, a) /\ NoNewline(input, a + 1, p)
      /\ MeansUpTo(input, a, file) /\ GoodUpTo(input, a)
  BY DEF Read
<1>4. PICK c \in (a + 1)..p : /\ Opened(input, a, c) /\ Only({"alnum"}, input, c + 1, p)
                              /\ Whole = AddSection(file, SubSeq(input, c + 1, p))
  BY <1>1 DEF Read
<1>5. q - 1 = p /\ a <= q
  BY <1>1, <1>3
<1>6. NoNewline(input, a + 1, q)
  <2>1. \A i \in (a + 1)..q : i \in (a + 1)..p \/ i = q
    BY <1>1, <1>3
  <2>2. input[q] \in Runes \ {"\n"}
    BY <1>1 DEF Runes
  <2> QED
    BY <1>3, <2>1, <2>2 DEF NoNewline, Only
<1> QED
  BY <1>1, <1>2, <1>3, <1>4, <1>5, <1>6 DEF Read

\* The key of a pair.
LEMMA ReadKey ==
  ASSUME Inv, UNCHANGED <<input, newline, section, sections>>, ~ newline, key' = Current.value,
         NEW a, NEW file, NEW p, NEW last, Read(a, file, p, last),
         NEW f \in Nat, NEW q \in Nat, Piece(input, last, p, Current, f, q),
         Current.type = "Key"
  PROVE  Read(a, file, q, "Key")'
<1>1. /\ p <= f /\ f < q /\ q <= Len(input) /\ last \in Resting
      /\ Only({"blank"}, input, p + 1, f) /\ Only({"alnum", "."}, input, f + 1, q)
      /\ Current.value = SubSeq(input, f + 1, q)
  BY DEF Piece
<1>2. input \in Text /\ Len(input) \in Nat /\ input' = input /\ newline' = newline /\ Whole' = Whole
  BY DEF Inv, TypeOK, Text, Whole
<1>3. input[f + 1] # "\n"
  <2>1. f + 1 \in (f + 1)..q
    BY <1>1
  <2> QED
    BY <1>1, <2>1 DEF Only
<1>4. /\ Whole = file /\ Only({"blank"}, input, a + 1, f)
      /\ Begins(input, a) /\ GoodUpTo(input, a) /\ MeansUpTo(input, a, file)
      /\ a \in Nat /\ a <= f /\ file \in Sections
  BY <1>1, <1>3, AtLineStart
<1>5. NoNewline(input, a + 1, q)
  <2>1. NoNewline(input, a + 1, f) /\ NoNewline(input, f + 1, q)
    BY <1>1, <1>4, OnlyOthers DEF Runes
  <2>2. Only(Runes \ {"\n"}, input, a + 1, q)
    BY <1>4, <2>1, OnlyJoin DEF NoNewline
  <2> QED
    BY <2>2 DEF NoNewline
<1>6. f + 1 \in (a + 1)..q /\ a <= q /\ (f + 1) - 1 = f
  BY <1>1, <1>4
<1> QED
  BY <1>1, <1>2, <1>4, <1>5, <1>6 DEF Read

\* The value of a pair.
LEMMA ReadValue ==
  ASSUME Inv, UNCHANGED <<input, newline, sections>>, ~ newline, Current.value \in Text,
         section' = [section EXCEPT !.pairs = Append(@, <<key, Current.value>>)],
         NEW a, NEW file, NEW p, NEW last, Read(a, file, p, last),
         NEW f \in Nat, NEW q \in Nat, Piece(input, last, p, Current, f, q),
         Current.type = "Value"
  PROVE  Read(a, file, q, "Value")'
<1>1. /\ p < f /\ f <= q /\ q < Len(input) /\ q <= Len(input) /\ last = "Key"
      /\ Only({"blank"}, input, p + 1, f) /\ NoNewline(input, f + 1, q)
      /\ Current.value = SubSeq(input, f + 1, q)
      /\ input[q + 1] = "\n" /\ (f < q => input[f + 1] # "blank")
  BY DEF Piece
<1>2. /\ input \in Text /\ Len(input) \in Nat /\ input' = input /\ newline' = newline
      /\ section \in SectionType /\ sections \in Seq(SectionType) /\ key \in Text
  BY DEF Inv, TypeOK, Text
<1>3. /\ a \in Nat /\ p \in Nat /\ a <= p /\ file \in Sections
      /\ Begins(input, a) /\ NoNewline(input, a + 1, p)
      /\ MeansUpTo(input, a, file) /\ GoodUpTo(input, a)
  BY DEF Read
<1>4. PICK c \in (a + 1)..p : /\ Only({"blank"}, input, a + 1, c - 1)
                              /\ Only({"alnum", "."}, input, c, p)
                              /\ key = SubSeq(input, c, p) /\ Whole = file
  BY <1>1 DEF Read
<1>5. <<c, p + 1, f + 1>> \in Starts(input, <<a, q>>)
  <2>1. /\ c \in (a + 1)..q /\ p + 1 \in (a + 1)..q /\ f + 1 \in (a + 1)..(q + 1)
        /\ c < p + 1 /\ p + 1 < f + 1 /\ (p + 1) - 1 = p /\ (f + 1) - 1 = f
        /\ f + 1 <= q => f < q
    BY <1>1, <1>3
  <2> QED
    BY <1>1, <1>4, <2>1 DEF Starts
<1>6. <<key, Current.value>> \in Pair(input, <<a, q>>)
  <2>1. PICK s \in Starts(input, <<a, q>>) : s[1] = c /\ s[2] = p + 1 /\ s[3] = f + 1
    BY <1>5
  <2>2. s[2] - 1 = p
    BY <1>3, <2>1
  <2>3. <<SubSeq(input, s[1], s[2] - 1), SubSeq(input, s[3], q)>> = <<key, Current.value>>
    BY <1>1, <1>4, <2>1, <2>2
  <2> QED
    BY <2>3 DEF Pair
<1>7. Whole' = AddPair(file, <<key, Current.value>>)
  BY <1>2, <1>4, AddPairLast DEF Whole
<1>8. NoNewline(input, a + 1, q)
  <2>1. NoNewline(input, p + 1, f)
    BY <1>1, OnlyOthers DEF Runes
  <2>2. Only(Runes \ {"\n"}, input, a + 1, f)
    BY <1>3, <2>1, OnlyJoin DEF NoNewline
  <2>3. Only(Runes \ {"\n"}, input, a + 1, q)
    BY <1>1, <1>3, <2>2, OnlyJoin DEF NoNewline
  <2> QED
    BY <2>3 DEF NoNewline
<1>9. a <= q
  BY <1>1, <1>3
<1>10. \E pair \in Pair(input, <<a, q>>) : Whole' = AddPair(file, pair)
  BY <1>6, <1>7
<1> QED
  BY <1>1, <1>2, <1>3, <1>8, <1>9, <1>10 DEF Read

\* At the end of the text the text is well formed, and its meaning read.
LEMMA ReadEOF ==
  ASSUME Inv, ~ newline,
         NEW a, NEW file, NEW p, NEW last, Read(a, file, p, last),
         NEW f \in Nat, NEW q \in Nat, Piece(input, last, p, Current, f, q),
         Current.type = "EOF"
  PROVE  WellFormed(input) /\ Means(input, Whole)
<1>1. p <= f /\ f = Len(input) /\ last \in Resting /\ Only({"blank"}, input, p + 1, f)
  BY DEF Piece
<1>2. input \in Text /\ Len(input) \in Nat
  BY DEF Inv, TypeOK, Text
<1>3. /\ Whole = file /\ Only({"blank"}, input, a + 1, f)
      /\ Begins(input, a) /\ GoodUpTo(input, a) /\ MeansUpTo(input, a, file)
      /\ a \in Nat /\ a <= f /\ file \in Sections
  BY <1>1, AtLineStart
<1>4. a \in 0..Len(input)
  BY <1>1, <1>2, <1>3
<1>5. WellFormed(input) /\ NoNewline(input, a + 1, Len(input))
  BY <1>1, <1>2, <1>3, <1>4, GoodText
<1>6. Means(input, file)
  BY <1>2, <1>3, <1>4, <1>5, AllMeans
<1> QED
  BY <1>3, <1>5, <1>6

\* What Parse meets instead of a newline that it requires makes the text
\* ill-formed.
LEMMA ReadRequired ==
  ASSUME Inv, newline,
         NEW a, NEW file, NEW p, NEW last, Read(a, file, p, last),
         NEW f \in Nat, NEW q \in Nat, Piece(input, last, p, Current, f, q),
         Current.type \in TokenTypes \ {"NewLine"}
  PROVE  ~ WellFormed(input)
<1>1. /\ p <= f /\ f <= q /\ q <= Len(input) /\ Only({"blank"}, input, p + 1, f)
  BY DEF Piece
<1>2. input \in Text /\ Len(input) \in Nat
  BY DEF Inv, TypeOK, Text
<1>3. last = "RightBracket"
  BY DEF Read
<1>4. PICK c \in (a + 1)..(p - 1) :
        /\ Opened(input, a, c) /\ Only({"alnum"}, input, c + 1, p - 1) /\ input[p] = "]"
  BY <1>3 DEF Read
<1>5. a \in Nat /\ p \in Nat /\ Begins(input, a) /\ a <= p
  BY DEF Read
<1>6. f = Len(input) \/ input[f + 1] \notin {"blank", "\n"}
  <2>1. CASE Current.type = "EOF"
    BY <2>1 DEF Piece
  <2>2. CASE Current.type = "LeftBracket"
    BY <2>2 DEF Piece
  <2>3. CASE Current.type = "Key"
    <3>1. f + 1 \in (f + 1)..q /\ Only({"alnum", "."}, input, f + 1, q)
      BY <2>3 DEF Piece
    <3> QED
      BY <3>1 DEF Only
  <2>4. CASE Current.type = "Error"
    BY <1>3, <2>4 DEF Piece, Broken
  <2>5. Current.type \notin {"Section", "RightBracket", "Value"}
    BY <1>3 DEF Piece
  <2> QED
    BY <2>1, <2>2, <2>3, <2>4, <2>5 DEF TokenTypes
<1>7. /\ a \in 0..Len(input) /\ c \in (a + 1)..Len(input) /\ p \in (c + 1)..Len(input)
      /\ f \in p..Len(input)
  BY <1>1, <1>2, <1>5
<1> QED
  BY <1>1, <1>2, <1>4, <1>5, <1>6, <1>7, BadTail DEF Opened

\* Where the lexer gives up the text is ill-formed.
LEMMA ReadError ==
  ASSUME Inv, ~ newline,
         NEW a, NEW file, NEW p, NEW last, Read(a, file, p, last),
         NEW f \in Nat, NEW q \in Nat, Piece(input, last, p, Current, f, q),
         Current.type = "Error"
  PROVE  ~ WellFormed(input)
<1>1. /\ p <= f /\ f <= q /\ q <= Len(input) /\ Only({"blank"}, input, p + 1, f)
      /\ Broken(input, last, p, f, q)
  BY DEF Piece
<1>2. input \in Text /\ Len(input) \in Nat
  BY DEF Inv, TypeOK, Text
<1>3. /\ a \in Nat /\ p \in Nat /\ a <= p /\ p <= Len(input)
      /\ Begins(input, a) /\ NoNewline(input, a + 1, p)
  BY DEF Read
<1>4. CASE last = "LeftBracket"
  <2>1. /\ f = p /\ Only({"alnum"}, input, p + 1, q)
        /\ q = Len(input) \/ input[q + 1] \notin {"alnum", "]"}
    BY <1>1, <1>4 DEF Broken, Resting
  <2>2. Opened(input, a, p)
    BY <1>4 DEF Read
  <2>3. a \in 0..Len(input) /\ p \in (a + 1)..Len(input) /\ q \in p..Len(input)
    BY <1>1, <1>2, <1>3, <2>1, <2>2 DEF Opened
  <2> QED
    BY <1>2, <1>3, <2>1, <2>2, <2>3, BadSection DEF Opened
<1>5. CASE last = "Key"
  <2>1. NoNewline(input, f + 1, Len(input))
    BY <1>1, <1>5 DEF Broken, Resting
  <2>2. PICK c \in (a + 1)..p : Only({"alnum", "."}, input, c, p)
    BY <1>5 DEF Read
  <2>3. input[c] # "blank"
    <3>1. c \in c..p
      BY <1>3
    <3> QED
      BY <2>2, <3>1 DEF Only
  <2>4. NoNewline(input, p + 1, f)
    BY <1>1, OnlyOthers DEF Runes
  <2>5. Only(Runes \ {"\n"}, input, a + 1, f)
    BY <1>3, <2>4, OnlyJoin DEF NoNewline
  <2>6. NoNewline(input, a + 1, Len(input))
    BY <1>2, <1>3, <2>1, <2>5, OnlyJoin DEF NoNewline
  <2>7. a \in 0..Len(input) /\ c \in (a + 1)..Len(input)
    BY <1>2, <1>3
  <2> QED
    BY <1>2, <1>3, <2>3, <2>6, <2>7, BadRest
<1>6. CASE last \in Resting
  <2>1. /\ f < Len(input) /\ input[f + 1] \notin {"blank", "\n", "["}
        /\ Only({"alnum", "."}, input, f + 1, q)
        /\ q = Len(input) \/ input[q + 1] \notin {"alnum", ".", "blank"}
    BY <1>1, <1>6 DEF Broken, Resting
  <2>2. a = p /\ Only({"blank"}, input, a + 1, f)
    BY <1>1, <1>6, <2>1, AtLineStart
  <2>3. /\ a \in 0..Len(input) /\ f + 1 \in (a + 1)..Len(input) /\ (f + 1) - 1 = f
        /\ q \in ((f + 1) - 1)..Len(input)
    BY <1>1, <1>2, <1>3, <2>1
  <2> QED
    BY <1>2, <1>3, <2>1, <2>2, <2>3, BadKey
<1> QED
  BY <1>1, <1>4, <1>5, <1>6 DEF Broken

-----------------------------------------------------------------------------
(***************************************************************************)
(* The invariant from which both properties of FlbGrammar follow.          *)
(***************************************************************************)

\* Until Parse returns, the tokens it has looked at are read.
Reading(to) == result = "none" => \E a, file : Read(a, file, to[next], LastType(next))

FullInv ==
  /\ Inv
  /\ \E from, to : Placed(from, to) /\ Reading(to)
  /\ Verdict

\* Init establishes it: nothing is read yet.
LEMMA InitFull == Init => FullInv
<1> SUFFICES ASSUME Init PROVE FullInv
  OBVIOUS
<1> DEFINE from == [i \in 1..0 |-> 0]
           to == [i \in 0..0 |-> 0]
           file == <<EmptySection>>
<1>1. Inv /\ input \in Text /\ Len(input) \in Nat
  BY InitInv DEF Inv, TypeOK, Text
<1>2. /\ tokens = <<>> /\ Len(tokens) = 0 /\ state = "LexStart" /\ start = 0 /\ pos = 0
      /\ next = 0 /\ newline = FALSE /\ section = EmptySection /\ sections = <<>> /\ result = "none"
  BY DEF Init
<1>3. Placed(from, to)
  <2>1. Places(from, to)
    BY <1>2 DEF Places
  <2>2. Covered(from, to)
    BY <1>2 DEF Covered
  <2>3. LexerAt(0, "NewLine")
    BY <1>2 DEF LexerAt, Only, Resting
  <2>4. to[Len(tokens)] = 0 /\ LastType(Len(tokens)) = "NewLine"
    BY <1>2 DEF LastType
  <2> QED
    BY <2>1, <2>2, <2>3, <2>4 DEF Placed
<1>4. Read(0, file, 0, "NewLine")
  <2>1. file \in Sections /\ Len(file) = 1 /\ file[1] = EmptySection
    <3>1. EmptySection \in SectionType
      BY <1>1, <1>2 DEF Inv, TypeOK
    <3> QED
      BY <3>1 DEF Sections
  <2>2. \A l \in Lines(input) : ~ (l[2] < 0)
    BY <1>1, LineType
  <2>3. HeadersIn(input, 0) = {} /\ \A k : PairsOf(input, k, 0) = {}
    BY <2>2 DEF HeadersIn, PairsOf, HeaderLines, PairLines
  <2>4. Cardinality({}) = 0
    BY FS_EmptySet
  <2>5. MeansUpTo(input, 0, file)
    <3>1. \A k \in 1..Len(file) : Len(file[k].pairs) = 0
      BY <2>1 DEF EmptySection
    <3>2. file[1].name = <<>>
      BY <2>1 DEF EmptySection
    <3>3. Len(file) = 1 + Cardinality(HeadersIn(input, 0))
      BY <2>1, <2>3, <2>4
    <3>4. \A k \in 1..Len(file) : Len(file[k].pairs) = Cardinality(PairsOf(input, k, 0))
      BY <2>3, <2>4, <3>1
    <3>5. /\ \A h \in HeaderLines(input) : ~ (h[2] < 0)
          /\ \A l \in PairLines(input) : ~ (l[2] < 0)
      BY <2>2 DEF HeaderLines, PairLines
    <3> HIDE DEF file
    <3> QED
      BY <3>2, <3>3, <3>4, <3>5 DEF MeansUpTo
  <2>6. GoodUpTo(input, 0) /\ Begins(input, 0) /\ NoNewline(input, 0 + 1, 0)
    BY <2>2 DEF GoodUpTo, Begins, NoNewline, Only
  <2>7. Whole = file
    BY <1>2 DEF Whole
  <2> QED
    BY <1>1, <1>2, <2>1, <2>5, <2>6, <2>7 DEF Read
<1>5. Reading(to)
  <2>1. to[next] = 0 /\ LastType(next) = "NewLine"
    BY <1>2 DEF LastType
  <2> QED
    BY <1>4, <2>1 DEF Reading
<1>6. Verdict
  BY <1>2 DEF Verdict
<1> HIDE DEF from, to
<1> QED
  BY <1>1, <1>3, <1>5, <1>6 DEF FullInv

\* The lexer keeps it.
LEMMA LexFull == FullInv /\ Lex => FullInv'
<1> SUFFICES ASSUME FullInv, Lex PROVE FullInv'
  OBVIOUS
<1>1. PICK from, to : Placed(from, to) /\ Reading(to)
  BY DEF FullInv
<1>2. Inv /\ Inv'
  BY LexInv DEF FullInv
<1>3. PICK from2, to2 : Placed(from2, to2)'
  BY <1>1, <1>2, LexPlaces
<1>4. /\ state # "nil" /\ UNCHANGED <<input, parser>>
  BY DEF Lex, LexStart, LexEOF, LexGlobalWhiteSpace, LexKeyWhiteSpace, LexNewLine, LexLeftBracket,
         LexSection, LexRightBracket, LexKey, LexValue, Emit, Errorf, Skip, Goto
<1>5. /\ next = 0 /\ next' = 0 /\ result = "none" /\ result' = "none" /\ input' = input
      /\ newline' = newline /\ key' = key /\ section' = section /\ sections' = sections
  BY <1>2, <1>4 DEF Inv, ParserInv, parser
<1>6. to[next] = 0 /\ LastType(next) = "NewLine" /\ to2[next'] = 0 /\ LastType(next)' = "NewLine"
  BY <1>1, <1>3, <1>5 DEF Placed, Places, LastType
<1>7. PICK a, file : Read(a, file, 0, "NewLine")
  BY <1>1, <1>5, <1>6 DEF Reading
<1>8. Read(a, file, 0, "NewLine")'
  BY <1>5, <1>7 DEF Read, Whole
<1>9. Reading(to2)'
  BY <1>6, <1>8 DEF Reading
<1>10. Verdict'
  BY <1>5 DEF Verdict
<1> QED
  BY <1>2, <1>3, <1>9, <1>10 DEF FullInv

\* Parse keeps it.
LEMMA ParseFull == FullInv /\ Parse => FullInv'
<1> SUFFICES ASSUME FullInv, Parse PROVE FullInv'
  OBVIOUS
<1>1. PICK from, to : Placed(from, to) /\ Reading(to)
  BY DEF FullInv
<1>2. Inv /\ Inv'
  BY ParseInv DEF FullInv
<1>3. /\ state = "nil" /\ result = "none" /\ next < Len(tokens)
      /\ next' = next + 1 /\ UNCHANGED <<input, lexer>>
  BY DEF Parse, ParseRequired, ParseError, ParseEOF, ParseNewLine, ParseLeftBracket, ParseSection,
         ParseRightBracket, ParseKey, ParseValue, See
<1>4. /\ input' = input /\ tokens' = tokens /\ state' = state /\ start' = start /\ pos' = pos
      /\ Len(tokens) \in Nat /\ next \in 0..Len(tokens)
  BY <1>2, <1>3 DEF lexer, Inv, TypeOK, TokensInv
<1>5. Placed(from, to)'
  BY <1>1, <1>4 DEF Placed, Places, Covered, LexerAt, LastType
<1>6. next + 1 \in 1..Len(tokens) /\ (next + 1) - 1 = next
  BY <1>3, <1>4
<1>7. PICK f \in Nat, q \in Nat : f = from[next + 1] /\ q = to[next + 1]
  BY <1>1, <1>2, <1>6, LastPlace
<1>8. PICK p, last : p = to[next] /\ last = LastType(next)
  OBVIOUS
<1>9. /\ p = to[next] /\ last = LastType(next) /\ q = to[next + 1]
      /\ Piece(input, last, p, Current, f, q)
  BY <1>1, <1>6, <1>7, <1>8 DEF Placed, Places, Current
<1>10. PICK a, file : Read(a, file, p, last)
  BY <1>1, <1>3, <1>9 DEF Reading
<1>11. PICK type \in TokenTypes : type = Current.type
  BY <1>2, <1>6 DEF Inv, TypeOK, Current
<1>12. to[next'] = q /\ LastType(next)' = type
  <2>1. next + 1 # 0
    BY <1>4
  <2> QED
    BY <1>3, <1>4, <1>9, <1>11, <2>1 DEF LastType, Current
<1>13. /\ Current.type # "Error" => Before(Current.type) = doing /\ Current.value \in Text
       /\ Current.type = "Error" => Current.value \in Messages
  BY <1>2, <1>3, CurrentFits
<1>14. ASSUME result' = "none", \E a2, file2 : Read(a2, file2, q, type)' PROVE FullInv'
  <2>1. Reading(to)'
    BY <1>12, <1>14 DEF Reading
  <2>2. Verdict'
    BY <1>14 DEF Verdict
  <2> QED
    BY <1>2, <1>5, <2>1, <2>2 DEF FullInv
<1>15. ASSUME result' # "none", Verdict' PROVE FullInv'
  <2>1. Reading(to)'
    BY <1>15 DEF Reading
  <2> QED
    BY <1>2, <1>5, <1>15, <2>1 DEF FullInv
<1>16. CASE ParseRequired
  <2>1. /\ newline /\ newline' = FALSE /\ UNCHANGED <<section, sections>>
        /\ result' = IF Current.type = "NewLine" THEN "none" ELSE "newline required"
    BY <1>16 DEF ParseRequired
  <2>2. CASE type = "NewLine"
    <3>1. PICK file2 : Read(q, file2, q, "NewLine")'
      BY <1>2, <1>4, <1>9, <1>10, <1>11, <2>1, <2>2, ReadNewLine
    <3> QED
      BY <1>11, <1>14, <2>1, <2>2, <3>1
  <2>3. CASE type # "NewLine"
    <3>1. ~ WellFormed(input)
      BY <1>2, <1>9, <1>10, <1>11, <2>1, <2>3, ReadRequired
    <3> QED
      BY <1>4, <1>11, <1>15, <2>1, <2>3, <3>1 DEF Verdict
  <2> QED
    BY <2>2, <2>3
<1>17. CASE ParseError
  <2>1. ~ newline /\ result' = Current.value /\ Current.type = "Error"
    BY <1>17 DEF ParseError, See, Return
  <2>2. ~ WellFormed(input)
    BY <1>2, <1>9, <1>10, <2>1, ReadError
  <2>3. result' \notin {"none", "ok"}
    BY <1>13, <2>1 DEF Messages
  <2> QED
    BY <1>4, <1>15, <2>2, <2>3 DEF Verdict
<1>18. CASE ParseEOF
  <2>1. ~ newline /\ Current.type = "EOF" /\ doing = "nothing"
    BY <1>13, <1>18 DEF ParseEOF, See, Before
  <2>2. sections' = Whole /\ result' = "ok"
    BY <1>18, <2>1 DEF ParseEOF, Whole
  <2>3. WellFormed(input) /\ Means(input, Whole)
    BY <1>2, <1>9, <1>10, <2>1, ReadEOF
  <2> QED
    BY <1>4, <1>15, <2>2, <2>3 DEF Verdict
<1>19. CASE ParseNewLine
  <2>1. ~ newline /\ Current.type = "NewLine" /\ doing = "nothing"
    BY <1>13, <1>19 DEF ParseNewLine, See, Before
  <2>2. UNCHANGED <<newline, section, sections>> /\ result' = "none"
    BY <1>19, <2>1 DEF ParseNewLine, Return
  <2>3. newline' = FALSE
    BY <1>2, <2>1, <2>2 DEF Inv, TypeOK
  <2>4. PICK file2 : Read(q, file2, q, "NewLine")'
    BY <1>2, <1>4, <1>9, <1>10, <2>1, <2>2, <2>3, ReadNewLine
  <2> QED
    BY <1>11, <1>14, <2>1, <2>2, <2>4
<1>20. CASE ParseLeftBracket
  <2>1. ~ newline /\ Current.type = "LeftBracket" /\ doing = "nothing"
    BY <1>13, <1>20 DEF ParseLeftBracket, See, Before
  <2>2. /\ UNCHANGED <<newline, result>>
        /\ sections' = Append(sections, section) /\ section' = EmptySection
    BY <1>20, <2>1 DEF ParseLeftBracket
  <2>3. Read(a, file, q, type)'
    BY <1>2, <1>4, <1>9, <1>10, <1>11, <2>1, <2>2, ReadLeftBracket
  <2> QED
    BY <1>3, <1>14, <2>2, <2>3
<1>21. CASE ParseSection
  <2>1. ~ newline /\ Current.type = "Section" /\ doing = "section"
    BY <1>13, <1>21 DEF ParseSection, See, Before
  <2>2. UNCHANGED <<newline, sections, result>> /\ section' = [section EXCEPT !.name = Current.value]
    BY <1>21, <2>1 DEF ParseSection
  <2>3. Read(a, file, q, type)'
    BY <1>2, <1>4, <1>9, <1>10, <1>11, <2>1, <2>2, ReadSection
  <2> QED
    BY <1>3, <1>14, <2>2, <2>3
<1>22. CASE ParseRightBracket
  <2>1. ~ newline /\ Current.type = "RightBracket" /\ doing = "section"
    BY <1>13, <1>22 DEF ParseRightBracket, See, Before
  <2>2. UNCHANGED <<section, sections, result>> /\ newline' = TRUE
    BY <1>22, <2>1 DEF ParseRightBracket
  <2>3. Read(a, file, q, type)'
    BY <1>2, <1>4, <1>9, <1>10, <1>11, <2>1, <2>2, ReadRightBracket
  <2> QED
    BY <1>3, <1>14, <2>2, <2>3
<1>23. CASE ParseKey
  <2>1. ~ newline /\ Current.type = "Key" /\ doing = "nothing"
    BY <1>13, <1>23 DEF ParseKey, See, Before
  <2>2. UNCHANGED <<newline, section, sections, result>> /\ key' = Current.value
    BY <1>23, <2>1 DEF ParseKey
  <2>3. Read(a, file, q, type)'
    BY <1>2, <1>4, <1>9, <1>10, <1>11, <2>1, <2>2, ReadKey
  <2> QED
    BY <1>3, <1>14, <2>2, <2>3
<1>24. CASE ParseValue
  <2>1. ~ newline /\ Current.type = "Value" /\ doing = "kv" /\ Current.value \in Text
    BY <1>13, <1>24 DEF ParseValue, See, Before
  <2>2. /\ UNCHANGED <<newline, sections, result>>
        /\ section' = [section EXCEPT !.pairs = Append(@, <<key, Current.value>>)]
    BY <1>24, <2>1 DEF ParseValue
  <2>3. Read(a, file, q, type)'
    BY <1>2, <1>4, <1>9, <1>10, <1>11, <2>1, <2>2, ReadValue
  <2> QED
    BY <1>3, <1>14, <2>2, <2>3
<1> QED
  BY <1>16, <1>17, <1>18, <1>19, <1>20, <1>21, <1>22, <1>23, <1>24 DEF Parse

\* It is inductive, and so holds throughout.
THEOREM FullInvariant == Spec => []FullInv
<1>1. FullInv /\ UNCHANGED vars => FullInv'
  <2> SUFFICES ASSUME FullInv, UNCHANGED vars PROVE FullInv'
    OBVIOUS
  <2>1. /\ input' = input /\ state' = state /\ tokens' = tokens /\ start' = start /\ pos' = pos
        /\ next' = next /\ newline' = newline /\ doing' = doing /\ key' = key
        /\ section' = section /\ sections' = sections /\ result' = result
    BY DEF vars, lexer, parser
  <2>2. Inv'
    BY <2>1 DEF FullInv, Inv, TypeOK, RuneInv, TokensInv, ParserInv, DoingAt
  <2>3. PICK from, to : Placed(from, to) /\ Reading(to)
    BY DEF FullInv
  <2>4. Placed(from, to)'
    BY <2>1, <2>3 DEF Placed, Places, Covered, LexerAt, LastType
  <2>5. Reading(to)'
    <3>1. SUFFICES ASSUME result = "none" PROVE \E a, file : Read(a, file, to[next], LastType(next))'
      BY <2>1 DEF Reading
    <3>2. PICK p, last : p = to[next] /\ last = LastType(next) /\ p = to[next'] /\ last = LastType(next)'
      BY <2>1 DEF LastType
    <3>3. PICK a, file : Read(a, file, p, last)
      BY <2>3, <3>1, <3>2 DEF Reading
    <3>4. Read(a, file, p, last)'
      BY <2>1, <3>3 DEF Read, Whole
    <3> QED
      BY <3>2, <3>4
  <2>6. Verdict'
    BY <2>1 DEF FullInv, Verdict
  <2> QED
    BY <2>2, <2>4, <2>5, <2>6 DEF FullInv
<1> QED
  BY <1>1, InitFull, LexFull, ParseFull, PTL DEF Spec, Next

\* For every text: Parse accepts exactly the well-formed texts, and returns the
\* sections that the text means.
THEOREM FormatParsed == Spec => []ParsesTheFormat
<1>1. FullInv => ParsesTheFormat
  BY DEF FullInv, Verdict, ParsesTheFormat
<1> QED
  BY <1>1, FullInvariant, PTL

\* The sections Parse returns without an error are the one meaning of the text.
ReturnsTheMeaning == result = "ok" => \A file \in Sections : Means(input, file) <=> file = sections

\* For every text that Parse accepts, what it returns is not only a meaning of
\* the text but the only one: ParsesTheFormat leaves no other result open.
THEOREM OnlyMeaningReturned == Spec => []ReturnsTheMeaning
<1>1. FullInv => ReturnsTheMeaning
  <2> SUFFICES ASSUME FullInv, result = "ok", NEW file \in Sections
               PROVE  Means(input, file) <=> file = sections
    BY DEF ReturnsTheMeaning
  <2>1. Means(input, sections) /\ input \in Text /\ sections \in Seq(SectionType)
    BY DEF FullInv, Verdict, Inv, TypeOK
  <2>2. Means(input, file) => sections \in Sections
    <3>1. ASSUME Means(input, file) PROVE Len(sections) = Len(file)
      BY <2>1, <3>1 DEF Means, MeansUpTo
    <3>2. Len(file) # 0
      BY DEF Sections
    <3> QED
      BY <2>1, <3>1, <3>2 DEF Sections
  <2> QED
    BY <2>1, <2>2, Unambiguous
<1> QED
  BY <1>1, FullInvariant, PTL

-----------------------------------------------------------------------------
(***************************************************************************)
(* The lexer loses nothing.                                                *)
(***************************************************************************)

\* Sets between which a function is one to one are of the same size.
LEMMA SameCount ==
  ASSUME NEW S, NEW T, IsFiniteSet(T), NEW m \in [S -> T],
         \A x, y \in S : m[x] = m[y] => x = y,
         \A z \in T : \E x \in S : m[x] = z
  PROVE  IsFiniteSet(S) /\ Cardinality(S) = Cardinality(T)
<1>1. m \in Bijection(S, T)
  BY Fun_IsBij
<1>2. ExistsBijection(T, S)
  BY <1>1, Fun_ExistsBijSymmetric DEF ExistsBijection
<1> QED
  BY <1>2, FS_Bijection

\* A rune in a token is the rune at its place in the text.
LEMMA RunePlace ==
  ASSUME Inv, NEW from, NEW to, Placed(from, to),
         NEW i \in 1..Len(tokens), tokens[i].type # "Error"
  PROVE  /\ from[i] \in Nat /\ to[i] \in Nat /\ from[i] <= to[i] /\ to[i] <= start /\ start \in Nat
         /\ to[i - 1] \in Nat /\ to[i - 1] <= from[i] /\ start <= Len(input)
         /\ Len(tokens[i].value) = to[i] - from[i]
         /\ \A j \in 1..Len(tokens[i].value) : tokens[i].value[j] = input[from[i] + j]
<1>1. from[i] \in Nat /\ to[i] \in Nat /\ to[i] <= start /\ Len(tokens) \in Nat
  BY LastPlace
<1>2. to[i - 1] \in Nat
  <2>1. i - 1 \in 0..Len(tokens)
    BY <1>1
  <2> QED
    BY <2>1 DEF Placed, Places
<1>3. /\ to[i - 1] <= from[i] /\ from[i] <= to[i] /\ to[i] <= Len(input)
      /\ tokens[i].value = SubSeq(input, from[i] + 1, to[i])
  BY DEF Placed, Places, Piece
<1>4. input \in Seq(Runes) /\ Len(input) \in Nat /\ start \in Nat /\ start <= Len(input)
  BY DEF Inv, TypeOK, Text
<1>5. PICK f \in Nat, q \in Nat : f = from[i] /\ q = to[i]
  BY <1>1
<1>6. /\ Len(SubSeq(input, f + 1, q)) = q - f
      /\ \A j \in 1..(q - f) : SubSeq(input, f + 1, q)[j] = input[f + j]
  <2>1. f <= q /\ q <= Len(input)
    BY <1>3, <1>5
  <2> QED
    BY <1>4, <2>1
<1> QED
  BY <1>1, <1>2, <1>3, <1>4, <1>5, <1>6

\* In every state whose tokens have their places, the runes that the lexer has
\* emitted are those it has consumed, in their order.
LEMMA PlacedLossless ==
  ASSUME Inv, NEW from, NEW to, Placed(from, to)
  PROVE  Lossless
<1> DEFINE at == [e \in Emitted |-> from[e[1]] + e[2]]
           Low(k) == {j \in Consumed : j < k}
           Sooner(e) == {f \in Emitted : Earlier(f, e)}
<1>1. /\ start \in Nat /\ Len(tokens) \in Nat
  BY LastPlace DEF Inv, TypeOK, Text
<1>2. ASSUME NEW e \in Emitted
      PROVE  /\ e[1] \in 1..Len(tokens) /\ tokens[e[1]].type # "Error"
             /\ e[2] \in 1..Len(tokens[e[1]].value) /\ tokens[e[1]].value[e[2]] # "blank"
             /\ e = <<e[1], e[2]>>
  BY DEF Emitted
<1>3. ASSUME NEW e \in Emitted
      PROVE  /\ at[e] \in Consumed /\ at[e] \in Nat
             /\ tokens[e[1]].value[e[2]] = input[at[e]]
             /\ from[e[1]] < at[e] /\ at[e] <= to[e[1]]
             /\ e[1] \in Nat /\ e[2] \in Nat /\ from[e[1]] \in Nat /\ to[e[1]] \in Nat
  <2>1. PICK i \in 1..Len(tokens), j \in Nat : i = e[1] /\ j = e[2] /\ j \in 1..Len(tokens[i].value)
                                               /\ tokens[i].type # "Error"
    <3>1. Len(tokens[e[1]].value) \in Nat
      <4>1. /\ from[e[1]] \in Nat /\ to[e[1]] \in Nat /\ from[e[1]] <= to[e[1]]
            /\ Len(tokens[e[1]].value) = to[e[1]] - from[e[1]]
        BY <1>2, RunePlace
      <4> QED
        BY <4>1
    <3> QED
      BY <1>2, <3>1
  <2>2. PICK f \in Nat, q \in Nat : f = from[i] /\ q = to[i]
    BY <2>1, RunePlace
  <2>3. /\ q <= start /\ j \in 1..(q - f) /\ tokens[i].value[j] = input[f + j] /\ f <= q
    <3>1. tokens[i].type # "Error"
      BY <2>1
    <3>2. /\ to[i] <= start /\ from[i] <= to[i] /\ Len(tokens[i].value) = to[i] - from[i]
          /\ \A k \in 1..Len(tokens[i].value) : tokens[i].value[k] = input[from[i] + k]
      BY <3>1, RunePlace
    <3> QED
      BY <2>1, <2>2, <3>2
  <2>4. at[e] = f + j
    BY <2>1, <2>2
  <2>5. f + j \in 1..start /\ f + j \in Nat /\ f < f + j /\ f + j <= q
    BY <1>1, <2>3
  <2>6. tokens[e[1]].value[e[2]] = input[at[e]] /\ input[at[e]] # "blank"
    BY <1>2, <2>1, <2>3, <2>4
  <2>7. at[e] \in Consumed
    BY <2>4, <2>5, <2>6 DEF Consumed
  <2> HIDE DEF at
  <2> QED
    BY <1>1, <2>1, <2>2, <2>4, <2>5, <2>6, <2>7
<1>4. ASSUME NEW e \in Emitted, NEW f \in Emitted, Earlier(e, f) PROVE at[e] < at[f]
  <2>1. PICK i \in 1..Len(tokens), k \in 1..Len(tokens) : i = e[1] /\ k = f[1]
    BY <1>2
  <2>2. CASE i < k
    <3>1. to[i] <= to[k - 1]
      <4>1. i \in 0..Len(tokens) /\ k - 1 \in 0..Len(tokens) /\ i <= k - 1
        BY <1>1, <2>2
      <4> QED
        BY <4>1 DEF Placed, Places
    <3>2. to[k - 1] <= from[k] /\ to[k - 1] \in Nat
      BY <1>2, <2>1, RunePlace
    <3>3. /\ at[e] \in Nat /\ at[f] \in Nat /\ at[e] <= to[i] /\ from[k] < at[f]
          /\ to[i] \in Nat /\ from[k] \in Nat
      BY <1>3, <2>1
    <3> HIDE DEF at
    <3> QED
      BY <3>1, <3>2, <3>3
  <2>3. CASE i = k /\ e[2] < f[2]
    <3>1. at[e] = from[i] + e[2] /\ at[f] = from[i] + f[2]
      BY <2>1, <2>3
    <3>2. from[i] \in Nat /\ e[2] \in Nat /\ f[2] \in Nat
      BY <1>3, <2>1
    <3> HIDE DEF at
    <3> QED
      BY <2>3, <3>1, <3>2
  <2> QED
    BY <1>4, <2>1, <2>2, <2>3 DEF Earlier
<1>5. ASSUME NEW e \in Emitted, NEW f \in Emitted PROVE Earlier(e, f) \/ Earlier(f, e) \/ e = f
  <2>1. /\ e[1] \in Nat /\ e[2] \in Nat /\ f[1] \in Nat /\ f[2] \in Nat
        /\ e = <<e[1], e[2]>> /\ f = <<f[1], f[2]>>
    BY <1>2, <1>3
  <2> QED
    BY <2>1 DEF Earlier
<1>6. ASSUME NEW k \in Consumed PROVE \E e \in Emitted : at[e] = k
  <2>1. k \in 1..start /\ input[k] # "blank" /\ k \in Nat
    BY <1>1 DEF Consumed
  <2>2. PICK i \in 1..Len(tokens) : tokens[i].type # "Error" /\ from[i] < k /\ k <= to[i]
    BY <2>1 DEF Placed, Covered
  <2>3. PICK f \in Nat, q \in Nat : f = from[i] /\ q = to[i]
    BY <2>2, RunePlace
  <2>4. /\ k - f \in 1..(q - f) /\ f + (k - f) = k
    BY <2>1, <2>2, <2>3
  <2>5. k - f \in 1..Len(tokens[i].value) /\ tokens[i].value[k - f] = input[k]
    <3>1. /\ Len(tokens[i].value) = to[i] - from[i]
          /\ \A j \in 1..Len(tokens[i].value) : tokens[i].value[j] = input[from[i] + j]
      BY <2>2, RunePlace
    <3> QED
      BY <2>3, <2>4, <3>1
  <2>6. <<i, k - f>> \in Emitted
    <3>1. <<i, k - f>> \in {i} \X (1..Len(tokens[i].value))
      BY <2>5
    <3>2. i \in {j \in 1..Len(tokens) : tokens[j].type # "Error"}
      BY <2>2
    <3> QED
      BY <2>1, <2>5, <3>1, <3>2 DEF Emitted
  <2>7. PICK e \in Emitted : e[1] = i /\ e[2] = k - f
    BY <2>6
  <2>8. at[e] = k
    BY <2>3, <2>4, <2>7
  <2> QED
    BY <2>8
<1>7. IsFiniteSet(Consumed) /\ \A k : IsFiniteSet(Low(k)) /\ Cardinality(Low(k)) \in Nat
  <2>1. 1 \in Int /\ start \in Int
    BY <1>1
  <2>2. IsFiniteSet(1..start)
    BY <2>1, FS_Interval
  <2>3. Consumed \in SUBSET (1..start) /\ \A k : Low(k) \in SUBSET (1..start)
    BY DEF Consumed
  <2> QED
    BY <2>2, <2>3, FS_Subset, FS_CardinalityType
<1>8. at \in [Emitted -> Consumed]
  BY <1>3
<1> HIDE DEF at
<1>9. ASSUME NEW e \in Emitted, NEW f \in Emitted
      PROVE  /\ at[e] = at[f] => e = f
             /\ at[f] < at[e] <=> Earlier(f, e)
  <2>1. at[e] \in Nat /\ at[f] \in Nat
    BY <1>3
  <2> QED
    BY <1>4, <1>5, <2>1
<1>10. Cardinality(Emitted) = Cardinality(Consumed)
  <2>1. /\ \A x, y \in Emitted : at[x] = at[y] => x = y
        /\ \A k \in Consumed : \E x \in Emitted : at[x] = k
    BY <1>6, <1>9
  <2> QED
    BY <1>7, <1>8, <2>1, SameCount
<1>11. ASSUME NEW e \in Emitted PROVE Cardinality(Sooner(e)) = Cardinality(Low(at[e]))
  <2> DEFINE m == [f \in Sooner(e) |-> at[f]]
  <2>1. m \in [Sooner(e) -> Low(at[e])]
    BY <1>8, <1>9, <1>11
  <2>2. \A x, y \in Sooner(e) : m[x] = m[y] => x = y
    BY <1>9
  <2>3. \A k \in Low(at[e]) : \E x \in Sooner(e) : m[x] = k
    <3>1. SUFFICES ASSUME NEW k \in Low(at[e]) PROVE \E x \in Sooner(e) : m[x] = k
      OBVIOUS
    <3>2. PICK x \in Emitted : at[x] = k
      BY <1>6
    <3>3. x \in Sooner(e)
      BY <1>9, <1>11, <3>1, <3>2
    <3> QED
      BY <3>2, <3>3
  <2> HIDE DEF m, Sooner, Low
  <2> QED
    BY <1>7, <2>1, <2>2, <2>3, SameCount
<1>12. ASSUME NEW j \in Consumed, NEW k \in Consumed, j < k
       PROVE  Cardinality(Low(j)) # Cardinality(Low(k))
  <2>1. \A x \in Consumed : x \in Nat
    BY <1>1 DEF Consumed
  <2>2. Low(j) \in SUBSET Low(k) /\ j \in Low(k) /\ j \notin Low(j)
    BY <1>12, <2>1
  <2>3. Low(j) # Low(k)
    BY <2>2
  <2> HIDE DEF Low
  <2> QED
    BY <1>7, <2>2, <2>3, FS_Subset
<1>13. ASSUME NEW e \in Emitted, NEW k \in Consumed, Cardinality(Sooner(e)) = Cardinality(Low(k))
       PROVE  tokens[e[1]].value[e[2]] = input[k]
  <2>1. Cardinality(Low(at[e])) = Cardinality(Low(k)) /\ at[e] \in Consumed
    BY <1>8, <1>11, <1>13
  <2>2. ~ (at[e] < k) /\ ~ (k < at[e])
    BY <1>12, <1>13, <2>1
  <2>3. at[e] \in Nat /\ k \in Nat
    BY <1>1, <1>3 DEF Consumed
  <2>4. at[e] = k
    BY <2>2, <2>3
  <2> QED
    BY <1>3, <2>4
<1> QED
  BY <1>10, <1>13 DEF Lossless

\* For every text and at every step: the runes in the tokens, blanks aside, are
\* those of the text before Start, each once and in their order.
THEOREM NothingLost == Spec => []Lossless
<1>1. FullInv => Lossless
  BY PlacedLossless DEF FullInv
<1> QED
  BY <1>1, FullInvariant, PTL

=============================================================================
