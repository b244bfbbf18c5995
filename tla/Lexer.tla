------------------------------- MODULE Lexer -------------------------------
(***************************************************************************)
(* The lexer: from the characters of a text to its tokens.                 *)
(*                                                                         *)
(* A position is a record of the next character's place in the text (from  *)
(* 1) and its line and column; every scan is a function from position to   *)
(* position, made of the one function that consumes a character.           *)
(***************************************************************************)
EXTENDS Integers, Sequences

CONSTANT Texts   \* sequences of characters

ASSUME TextsAssumption == Texts \subseteq Seq(STRING)

VARIABLES
    text,        \* CCLexer: source
    here,        \* CCLexer: offset, line, column
    tokens,      \* CCLexer: tokens
    complaints,  \* CCLexer: diagnostics
    done

vars == <<text, here, tokens, complaints, done>>

(* Characters that have no spelling of their own.                           *)
NUL == "NUL"
NL == "NL"
CR == "CR"

Digits == {"0", "1", "2", "3", "4", "5", "6", "7", "8", "9"}
OctalDigits == Digits \ {"8", "9"}
BinaryDigits == {"0", "1"}
HexDigits == Digits \union {"a", "b", "c", "d", "e", "f", "A", "B", "C", "D", "E", "F"}
Letters == {"a", "b", "c", "d", "e", "f", "g", "h", "i", "j", "k", "l", "m", "n", "o", "p", "q",
            "r", "s", "t", "u", "v", "w", "x", "y", "z", "A", "B", "C", "D", "E", "F", "G", "H",
            "I", "J", "K", "L", "M", "N", "O", "P", "Q", "R", "S", "T", "U", "V", "W", "X", "Y", "Z"}
IdentifierStart == Letters \union {"_"}
IdentifierPart == IdentifierStart \union Digits
Blanks == {" ", "TAB", NL, CR, "VT", "FF"}
LineEnds == {NL, CR}

Characters(word) == [i \in 1 .. Len(word) |-> SubSeq(word, i, i)]

-----------------------------------------------------------------------------
(* Looking ahead and consuming.                                             *)
AtEnd(p) == p.at > Len(text)

Peek(p, n) == IF p.at + n > Len(text) THEN NUL ELSE text[p.at + n]
Ahead(p) == Peek(p, 0)

NextLine(p, n) == [at |-> p.at + n, line |-> p.line + 1, column |-> 1]

(* Faulty: a carriage return is a line end of its own.                      *)
AdvanceByCharacter(p) ==
    IF AtEnd(p) THEN p
    ELSE IF Ahead(p) \in LineEnds THEN NextLine(p, 1)
    ELSE [p EXCEPT !.at = @ + 1, !.column = @ + 1]

Advance(p) ==
    IF AtEnd(p) THEN p
    ELSE IF Ahead(p) = CR THEN NextLine(p, IF Peek(p, 1) = NL THEN 2 ELSE 1)
    ELSE IF Ahead(p) = NL THEN NextLine(p, 1)
    ELSE [p EXCEPT !.at = @ + 1, !.column = @ + 1]

(* The places of the characters of a class.                                 *)
PlacesOf(class) == {i \in DOMAIN text : text[i] \in class}

(* A turn of a loop that consumes a character at one of the places.         *)
OneMore(p, places) == IF p.at \in places THEN Advance(p) ELSE p

(* Behind the characters at these places, of which there are at most n.     *)
PastAtMost(p, places, n) ==
    LET past[k \in 0 .. n] == IF k = 0 THEN p ELSE OneMore(past[k - 1], places)
    IN  past[n]

AdvanceBy(p, n) == PastAtMost(p, DOMAIN text, n)

(* Behind all the characters of a class.                                    *)
Past(p, class) == PastAtMost(p, PlacesOf(class), Len(text))

PastOne(p, class) == PastAtMost(p, PlacesOf(class), 1)

-----------------------------------------------------------------------------
(* A scan: where it ends and what it complains of.                          *)
Scan(p, errors) == [end |-> p, errors |-> errors]
ErrorIf(condition, error) == IF condition THEN <<error>> ELSE <<>>

TokenAt(kind, end) ==
    [kind |-> kind, from |-> here.at, to |-> end.at - 1, line |-> here.line, column |-> here.column]

(* A token is added, or nothing, and what follows is lexed next.            *)
Skip(scan) ==
    /\ here' = scan.end
    /\ complaints' = complaints \o scan.errors
    /\ UNCHANGED <<text, tokens, done>>

Add(kind, scan) ==
    /\ here' = scan.end
    /\ tokens' = Append(tokens, TokenAt(kind, scan.end))
    /\ complaints' = complaints \o scan.errors
    /\ UNCHANGED <<text, done>>

-----------------------------------------------------------------------------
(* Trivia.                                                                  *)
Starts(a, b) == Ahead(here) = a /\ Peek(here, 1) = b

LineComment(p) == Scan(PastAtMost(p, DOMAIN text \ PlacesOf(LineEnds), Len(text)), <<>>)

(* The places where a comment ends.                                         *)
Closings == {i \in DOMAIN text : text[i] = "*" /\ i + 1 \in DOMAIN text /\ text[i + 1] = "/"}

BlockComment(p) ==
    LET end == PastAtMost(p, DOMAIN text \ Closings, Len(text))
    IN  IF AtEnd(end) THEN Scan(end, <<"unterminated block comment">>)
        ELSE Scan(AdvanceBy(end, 2), <<>>)

SkipBlank == ~done /\ Ahead(here) \in Blanks /\ Skip(Scan(Advance(here), <<>>))
SkipLineComment == ~done /\ Starts("/", "/") /\ Skip(LineComment(AdvanceBy(here, 2)))

(* Faulty: the star that opens a comment may close it.                      *)
SkipBlockCommentEarly == ~done /\ Starts("/", "*") /\ Skip(BlockComment(Advance(here)))

SkipBlockComment == ~done /\ Starts("/", "*") /\ Skip(BlockComment(AdvanceBy(here, 2)))

AtToken ==
    /\ ~done /\ ~AtEnd(here)
    /\ Ahead(here) \notin Blanks /\ ~Starts("/", "/") /\ ~Starts("/", "*")

-----------------------------------------------------------------------------
(* Character and string literals.                                           *)
SimpleEscapes == {"'", "\"", "?", "\\", "a", "b", "f", "n", "r", "t", "v"}

(* At most n hexadecimal digits, and no fewer.                              *)
UnicodeEscape(p, n) ==
    LET end == PastAtMost(p, PlacesOf(HexDigits), n)
    IN  Scan(end, ErrorIf(end.at # p.at + n, "not enough hexadecimal digits"))

(* Behind the backslash.  A NUL in the text looks like its end.             *)
Escape(p) ==
    LET c == Ahead(p)
    IN  CASE c = NUL -> Scan(p, <<"unfinished escape sequence">>)
          [] c \in LineEnds \union SimpleEscapes -> Scan(Advance(p), <<>>)
          [] c = "x" -> LET end == Past(Advance(p), HexDigits)
                        IN  Scan(end, ErrorIf(end.at = p.at + 1, "no hexadecimal digit"))
          [] c = "u" -> UnicodeEscape(Advance(p), 4)
          [] c = "U" -> UnicodeEscape(Advance(p), 8)
          [] c \in OctalDigits -> Scan(PastAtMost(p, PlacesOf(OctalDigits), 3), <<>>)
          [] OTHER -> Scan(Advance(p), <<"unknown escape sequence">>)

(* The literal goes on with a character or an escape, or not at all.        *)
QuotedOn(scan, quote) ==
    LET p == scan.end
        escape == Escape(Advance(p))
    IN  IF AtEnd(p) \/ Ahead(p) \in LineEnds \union {quote} THEN scan
        ELSE IF Ahead(p) = "\\" THEN Scan(escape.end, scan.errors \o escape.errors)
        ELSE Scan(Advance(p), scan.errors)

Quoted(p, quote) ==
    LET quoted[k \in 0 .. Len(text)] ==
            IF k = 0 THEN Scan(p, <<>>) ELSE QuotedOn(quoted[k - 1], quote)
        inner == quoted[Len(text)]
    IN  IF Ahead(inner.end) = quote THEN Scan(Advance(inner.end), inner.errors)
        ELSE Scan(inner.end, Append(inner.errors, "unterminated literal"))

Quotes == {"\"", "'"}

(* How long the prefix of a literal that starts here is.                    *)
PrefixLength ==
    IF Ahead(here) = "u" /\ Peek(here, 1) = "8" /\ Peek(here, 2) = "\"" THEN 2
    ELSE IF Ahead(here) \in {"L", "u", "U"} /\ Peek(here, 1) \in Quotes THEN 1
    ELSE 0

AtLiteral == Peek(here, PrefixLength) \in Quotes

LexQuotedLiteral ==
    /\ AtToken /\ AtLiteral
    /\ LET quote == Peek(here, PrefixLength)
       IN  Add(IF quote = "'" THEN "char" ELSE "string",
               Quoted(AdvanceBy(here, PrefixLength + 1), quote))

-----------------------------------------------------------------------------
(* Identifiers and keywords.                                                *)
KeywordTable == {
    "auto", "break", "case", "char", "const", "continue", "default", "do", "double", "else",
    "enum", "extern", "float", "for", "goto", "if", "inline", "int", "long", "register",
    "restrict", "return", "short", "signed", "sizeof", "static", "struct", "switch", "typedef",
    "union", "unsigned", "void", "volatile", "while", "_Alignas", "_Alignof", "_Atomic", "_Bool",
    "_Complex", "_Generic", "_Imaginary", "_Noreturn", "_Static_assert", "_Thread_local"}

Keywords == {Characters(word) : word \in KeywordTable}

LexIdentifier ==
    /\ AtToken /\ ~AtLiteral /\ Ahead(here) \in IdentifierStart
    /\ LET end == Past(here, IdentifierPart)
           word == SubSeq(text, here.at, end.at - 1)
       IN  Add(IF word \in Keywords THEN "keyword" ELSE "identifier", Scan(end, <<>>))

-----------------------------------------------------------------------------
(* Numbers.                                                                 *)
NumberKind(float) == IF float THEN "float" ELSE "integer"

(* Suffixes, and what may not follow them.                                  *)
Suffixed(p, float) ==
    LET end == IF float THEN PastOne(p, {"f", "F", "l", "L"}) ELSE Past(p, {"u", "U", "l", "L"})
        tail == Past(end, IdentifierPart)
    IN  Scan(tail, ErrorIf(tail # end, "invalid suffix"))

(* An exponent is a letter, a sign and digits.                              *)
Exponent(p) ==
    LET digits == PastOne(Advance(p), {"+", "-"})
        end == Past(digits, Digits)
    IN  Scan(end, ErrorIf(end = digits, "no digits in the exponent"))

AddNumber(p, float, errors) ==
    LET end == Suffixed(p, float)
    IN  Add(NumberKind(float), Scan(end.end, errors \o end.errors))

StartsBased(letters) == Ahead(here) = "0" /\ Peek(here, 1) \in letters

LexHexLiteral ==
    /\ AtToken /\ StartsBased({"x", "X"})
    /\ LET first == AdvanceBy(here, 2)
           whole == Past(first, HexDigits)
           dotted == Ahead(whole) = "."
           fraction == IF dotted THEN Past(Advance(whole), HexDigits) ELSE whole
           digits == (fraction.at - first.at) - (IF dotted THEN 1 ELSE 0)
           powered == Ahead(fraction) \in {"p", "P"}
           power == IF powered THEN Exponent(fraction) ELSE Scan(fraction, <<>>)
       IN  AddNumber(power.end, dotted \/ powered,
                     ErrorIf(digits = 0, "no hexadecimal digit") \o power.errors
                     \o ErrorIf(dotted /\ ~powered, "no exponent"))

LexBinaryLiteral ==
    /\ AtToken /\ StartsBased({"b", "B"})
    /\ LET first == AdvanceBy(here, 2)
           digits == Past(first, BinaryDigits)
           end == Past(digits, Digits)
       IN  AddNumber(end, FALSE, ErrorIf(digits = first, "no binary digit")
                                 \o ErrorIf(end # digits, "digits other than 0 and 1"))

(* An 8 or 9 behind a leading 0 is all right in a floating literal.         *)
InvalidOctal(whole, float) ==
    /\ ~float
    /\ Ahead(here) = "0"
    /\ \E i \in here.at .. whole.at - 1 : text[i] \in {"8", "9"}

LexDecimalLiteral ==
    /\ AtToken /\ ~StartsBased({"x", "X", "b", "B"})
    /\ Ahead(here) \in Digits \/ (Ahead(here) = "." /\ Peek(here, 1) \in Digits)
    /\ LET whole == Past(here, Digits)
           dotted == Ahead(whole) = "."
           fraction == IF dotted THEN Past(Advance(whole), Digits) ELSE whole
           powered == Ahead(fraction) \in {"e", "E"}
           power == IF powered THEN Exponent(fraction) ELSE Scan(fraction, <<>>)
           float == dotted \/ powered
       IN  AddNumber(power.end, float,
                     power.errors \o ErrorIf(InvalidOctal(whole, float), "not an octal digit"))

-----------------------------------------------------------------------------
(* Punctuators: the first of the table that is there.                       *)
PunctuatorTable == <<
    "%:%:",
    "<<=", ">>=", "...",
    "##", "->", "++", "--", "+=", "-=", "*=", "/=", "%=", "&=", "|=", "^=", "<<", ">>",
    "&&", "||", "==", "!=", "<=", ">=", "<:", ":>", "<%", "%>", "%:",
    "(", ")", "{", "}", "[", "]", ",", ";", ":", ".", "?", "#", "+", "-", "*", "/", "%",
    "&", "|", "^", "~", "!", "=", "<", ">" >>

Spellings == [i \in DOMAIN PunctuatorTable |-> Characters(PunctuatorTable[i])]

ASSUME SpellingsAssumption ==
    \A i \in DOMAIN Spellings : Len(Spellings[i]) \in Nat /\ Len(Spellings[i]) >= 1

(* A digraph is another spelling of a token.                                *)
Digraphs == [w \in {"%:%:", "<:", ":>", "<%", "%>", "%:"} |->
    CASE w = "%:%:" -> "##" [] w = "<:" -> "[" [] w = ":>" -> "]"
      [] w = "<%" -> "{" [] w = "%>" -> "}" [] w = "%:" -> "#"]

PunctuatorKind(word) == IF word \in DOMAIN Digraphs THEN Digraphs[word] ELSE word

AtPunctuator ==
    AtToken /\ Ahead(here) \notin Quotes \union IdentifierPart
    /\ ~(Ahead(here) = "." /\ Peek(here, 1) \in Digits)

Matches(spelling) ==
    LET end == here.at + Len(spelling)
    IN  end - 1 <= Len(text) /\ SubSeq(text, here.at, end - 1) = spelling

(* Faulty: the last of the table that is there.                             *)
LastMatch ==
    CHOOSE i \in DOMAIN Spellings :
        Matches(Spellings[i]) /\ \A j \in i + 1 .. Len(Spellings) : ~Matches(Spellings[j])

FirstMatch ==
    CHOOSE i \in DOMAIN Spellings :
        Matches(Spellings[i]) /\ \A j \in 1 .. i - 1 : ~Matches(Spellings[j])

LexPunctuator ==
    /\ AtPunctuator /\ \E i \in DOMAIN Spellings : Matches(Spellings[i])
    /\ Add(PunctuatorKind(PunctuatorTable[FirstMatch]),
           Scan(AdvanceBy(here, Len(Spellings[FirstMatch])), <<>>))

LexInvalidCharacter ==
    /\ AtPunctuator /\ ~\E i \in DOMAIN Spellings : Matches(Spellings[i])
    /\ Add("invalid", Scan(Advance(here), <<"unexpected character">>))

EndOfFile ==
    /\ ~done /\ AtEnd(here)
    /\ tokens' = Append(tokens, TokenAt("eof", here))
    /\ done' = TRUE
    /\ UNCHANGED <<text, here, complaints>>

-----------------------------------------------------------------------------
Init ==
    /\ text \in Texts
    /\ here = [at |-> 1, line |-> 1, column |-> 1]
    /\ tokens = <<>>
    /\ complaints = <<>>
    /\ done = FALSE

Next ==
    \/ SkipBlank \/ SkipLineComment \/ SkipBlockComment
    \/ LexQuotedLiteral \/ LexIdentifier
    \/ LexHexLiteral \/ LexBinaryLiteral \/ LexDecimalLiteral
    \/ LexPunctuator \/ LexInvalidCharacter
    \/ EndOfFile

Spec == Init /\ [][Next]_vars

(* One loop, which nothing else can stop.                                   *)
FairSpec == Spec /\ WF_vars(Next)
=============================================================================
