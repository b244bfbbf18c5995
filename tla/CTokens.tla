------------------------------ MODULE CTokens ------------------------------
(***************************************************************************)
(* What C's lexical grammar says of a text: which words are tokens, which  *)
(* are white space or comments, and how a text falls into them, the next   *)
(* one always being the longest that can be.                               *)
(*                                                                         *)
(* It shares the lexer's classes of characters and its keywords, no scan.  *)
(* Where this lexer takes more than C is marked.                           *)
(***************************************************************************)
EXTENDS Lexer, FiniteSets

(* Words of one class only.                                                 *)
All(w, class) == \A i \in DOMAIN w : w[i] \in class
Some(w, class) == w # <<>> /\ All(w, class)

From(w, i) == SubSeq(w, i, Len(w))
UpTo(w, i) == SubSeq(w, 1, i)

(* w is a word of P followed by one of Q.                                   *)
Splits(w, P(_), Q(_)) == \E i \in 0 .. Len(w) : P(UpTo(w, i)) /\ Q(From(w, i + 1))

-----------------------------------------------------------------------------
IsIdentifier(w) == Some(w, Letters \union Digits \union {"_"}) /\ w[1] \notin Digits

(* In C a suffix is one u and one l or ll; here any of them.                *)
IsIntegerSuffix(w) == All(w, {"u", "U", "l", "L"})

(* C has no binary numbers.                                                 *)
IsBased(w, letters, digits) ==
    Len(w) > 2 /\ w[1] = "0" /\ w[2] \in letters /\ All(From(w, 3), digits)

IsHexInteger(w) == IsBased(w, {"x", "X"}, HexDigits)

IsInteger(w) ==
    LET digits(d) == \/ Some(d, Digits) /\ d[1] # "0"
                     \/ Some(d, OctalDigits) /\ d[1] = "0"
                     \/ IsHexInteger(d)
                     \/ IsBased(d, {"b", "B"}, BinaryDigits)
    IN  Splits(w, digits, IsIntegerSuffix)

IsFloatSuffix(w) == Len(w) <= 1 /\ All(w, {"f", "F", "l", "L"})

IsPower(w, letters) ==
    Len(w) >= 2 /\ w[1] \in letters
    /\ (Some(From(w, 2), Digits) \/ (w[2] \in {"+", "-"} /\ Some(From(w, 3), Digits)))

(* Digits with a dot among or around them.                                  *)
IsFraction(w, digits) ==
    Len(w) >= 2 /\ \E i \in DOMAIN w : w[i] = "." /\ \A j \in DOMAIN w \ {i} : w[j] \in digits

IsDecimalFloat(w) ==
    LET power(e) == IsPower(e, {"e", "E"})
        maybePower(e) == e = <<>> \/ power(e)
        whole(e) == Some(e, Digits)
        dotted(e) == IsFraction(e, Digits)
    IN  Splits(w, whole, power) \/ Splits(w, dotted, maybePower)

IsHexFloat(w) ==
    LET power(e) == IsPower(e, {"p", "P"})
        digits(e) == Some(e, HexDigits) \/ IsFraction(e, HexDigits)
    IN  Len(w) > 2 /\ w[1] = "0" /\ w[2] \in {"x", "X"} /\ Splits(From(w, 3), digits, power)

IsFloat(w) == Splits(w, IsDecimalFloat, IsFloatSuffix) \/ Splits(w, IsHexFloat, IsFloatSuffix)

-----------------------------------------------------------------------------
(* Inside a literal a backslash at the end of a line joins the next to it.  *)
IsEscape(w) ==
    /\ Len(w) >= 2 /\ w[1] = "\\"
    /\ \/ Len(w) = 2 /\ w[2] \in {"'", "\"", "?", "\\", "a", "b", "f", "n", "r", "t", "v", NL, CR}
       \/ From(w, 2) = <<CR, NL>>
       \/ Len(w) <= 4 /\ Some(From(w, 2), OctalDigits)
       \/ w[2] = "x" /\ Some(From(w, 3), HexDigits)
       \/ w[2] = "u" /\ Len(w) = 6 /\ All(From(w, 3), HexDigits)
       \/ w[2] = "U" /\ Len(w) = 10 /\ All(From(w, 3), HexDigits)

(* Characters and escapes: what is from i on, is made of them.              *)
IsContents(w, quote) ==
    LET from[i \in 1 .. Len(w) + 1] ==
            \/ i = Len(w) + 1
            \/ w[i] \notin {NL, CR, quote, "\\"} /\ from[i + 1]
            \/ \E j \in i .. Len(w) : IsEscape(SubSeq(w, i, j)) /\ from[j + 1]
    IN  from[1]

(* In C there is no empty character literal.                                *)
IsQuoted(w, quote, prefixes) ==
    LET prefix(p) == p = <<>> \/ p \in prefixes
        literal(l) == Len(l) >= 2 /\ l[1] = quote /\ l[Len(l)] = quote
                      /\ IsContents(SubSeq(l, 2, Len(l) - 1), quote)
    IN  Splits(w, prefix, literal)

IsString(w) == IsQuoted(w, "\"", {<<"L">>, <<"u">>, <<"U">>, <<"u", "8">>})
IsCharacter(w) == IsQuoted(w, "'", {<<"L">>, <<"u">>, <<"U">>})

-----------------------------------------------------------------------------
(* The punctuators, each with its other spelling.                           *)
Alternative == [d \in {"<:", ":>", "<%", "%>", "%:", "%:%:"} |->
    CASE d = "<:" -> "[" [] d = ":>" -> "]" [] d = "<%" -> "{"
      [] d = "%>" -> "}" [] d = "%:" -> "#" [] d = "%:%:" -> "##"]

Punctuator ==
    {"[", "]", "(", ")", "{", "}", ".", "->", "++", "--", "&", "*", "+", "-", "~", "!", "/", "%",
     "<<", ">>", "<", ">", "<=", ">=", "==", "!=", "^", "|", "&&", "||", "?", ":", ";", "...",
     "=", "*=", "/=", "%=", "+=", "-=", "<<=", ">>=", "&=", "^=", "|=", ",", "#", "##"}
    \union DOMAIN Alternative

(* What the two modules' tables say, character by character: the lexer's    *)
(* has these punctuators, longer ones first, and their characters are no    *)
(* others'; a keyword is spelled like an identifier.                        *)
ASSUME WordsAssumption ==
    /\ Punctuator = {PunctuatorTable[i] : i \in DOMAIN PunctuatorTable}
    /\ \A i, j \in DOMAIN Spellings :
           i < j => Spellings[i] # Spellings[j] /\ Len(Spellings[i]) >= Len(Spellings[j])
    /\ \A i \in DOMAIN Spellings : \A k \in 1 .. Len(Spellings[i]) :
           Spellings[i][k] \notin IdentifierPart \union Quotes \union Blanks
    /\ \A w \in Keywords : IsIdentifier(w)

Spelled(w) == {p \in Punctuator : Characters(p) = w}

Kinds(w) ==
    {IF p \in DOMAIN Alternative THEN Alternative[p] ELSE p : p \in Spelled(w)}
    \union {k \in {"identifier", "keyword", "integer", "float", "char", "string"} :
        CASE k = "identifier" -> IsIdentifier(w) /\ w \notin Keywords
          [] k = "keyword" -> w \in Keywords
          [] k = "integer" -> IsInteger(w)
          [] k = "float" -> IsFloat(w)
          [] k = "char" -> IsCharacter(w)
          [] k = "string" -> IsString(w)}

-----------------------------------------------------------------------------
IsLineComment(w) ==
    /\ Len(w) >= 2 /\ w[1] = "/" /\ w[2] = "/"
    /\ \A i \in DOMAIN w : w[i] \notin {NL, CR}

Opens(w) == Len(w) >= 2 /\ w[1] = "/" /\ w[2] = "*"

IsBlockComment(w) ==
    /\ Opens(w) /\ Len(w) >= 4
    /\ {i \in 3 .. Len(w) - 1 : w[i] = "*" /\ w[i + 1] = "/"} = {Len(w) - 1}

IsTrivia(w) == Some(w, Blanks) \/ IsLineComment(w) \/ IsBlockComment(w)

(* In C a number goes on through letters, digits, dots and signs behind an  *)
(* exponent's letter, and the whole must be one; here a dot behind decimal  *)
(* or binary digits and a sign end it.                                      *)
EndsNumber(w, c) == c \notin IdentifierPart /\ ~(c = "." /\ IsHexInteger(w))

Longest(t, i, P(_)) ==
    LET lengths == {n \in 1 .. Len(t) - i + 1 : P(SubSeq(t, i, i + n - 1))}
    IN  IF lengths = {} THEN 0 ELSE CHOOSE n \in lengths : \A m \in lengths : m <= n

(* What a text falls into, without its trivia.  The last piece may be a     *)
(* comment that is never closed, or the first character of no token.        *)
Pieces(t) ==
    LET isToken(w) == Kinds(w) # {}
        cut(word, i) ==
            /\ IsInteger(word) \/ IsFloat(word)
            /\ i <= Len(t) /\ ~EndsNumber(word, t[i])
        from[i \in 1 .. Len(t) + 1] ==
            LET trivia == Longest(t, i, IsTrivia)
                n == Longest(t, i, isToken)
                word == SubSeq(t, i, i + n - 1)
                piece(kind, length) == [kind |-> kind, from |-> i, to |-> i + length - 1]
            IN  CASE i > Len(t) -> <<>>
                  [] i <= Len(t) /\ trivia > 0 -> from[i + trivia]
                  [] i <= Len(t) /\ trivia = 0 /\ Opens(From(t, i)) -> <<piece("open comment", Len(t) - i + 1)>>
                  [] OTHER -> IF n = 0 \/ cut(word, i + n) THEN <<piece("none", 1)>>
                              ELSE <<piece(CHOOSE k \in Kinds(word) : TRUE, n)>> \o from[i + n]
    IN  from[1]

WellFormed(pieces) == \A i \in DOMAIN pieces : pieces[i].kind \notin {"open comment", "none"}

-----------------------------------------------------------------------------
(* The lexer against C's lexical grammar: which texts it takes, as which   *)
(* tokens, and what becomes of the others.                                 *)

(* The tokens before the end of the file's.                                 *)
Lexed == UpTo(tokens, Len(tokens) - 1)

Extent(token) == [kind |-> token.kind, from |-> token.from, to |-> token.to]

(* A text is lexed without a complaint exactly if it falls into tokens, and *)
(* then into these.                                                         *)
TokensAreLongest ==
    done => LET pieces == Pieces(text)
            IN  /\ complaints = <<>> <=> WellFormed(pieces)
                /\ complaints = <<>> => pieces = [i \in DOMAIN Lexed |-> Extent(Lexed[i])]

(* White space or one whole comment lies at i up to before j.               *)
IsPieceOfTrivia(i, j) ==
    LET w == SubSeq(text, i, j - 1)
    IN  \/ Some(w, Blanks)
        \/ IsLineComment(w) /\ (j > Len(text) \/ text[j] \in LineEnds)
        \/ IsBlockComment(w)

(* Cuts divide what lies at i up to before j into such pieces.              *)
IsTriviaOnly(i, j) ==
    \E cuts \in SUBSET (i .. j) :
        /\ i \in cuts /\ j \in cuts
        /\ \A a \in cuts \ {j} : \E b \in cuts : a < b /\ IsPieceOfTrivia(a, b)

(* A comment that is never closed.                                          *)
IsOpenComment(i) ==
    Opens(From(text, i)) /\ \A k \in i + 2 .. Len(text) - 1 : ~(text[k] = "*" /\ text[k + 1] = "/")

(* No character of any text is lost, whatever is wrong with it: what lies   *)
(* before a token is white space and comments, of which only the last of a  *)
(* text may be open, and the lexer stops at the end.                        *)
NothingIsLost ==
    /\ \A i \in DOMAIN tokens :
           LET before == IF i = 1 THEN 1 ELSE tokens[i - 1].to + 1
           IN  \/ IsTriviaOnly(before, tokens[i].from)
               \/ /\ tokens[i].kind = "eof"
                  /\ \E k \in before .. Len(text) : IsTriviaOnly(before, k) /\ IsOpenComment(k)
    /\ done => \E i \in DOMAIN tokens : tokens[i].kind = "eof" /\ tokens[i].from = Len(text) + 1

(* Where lines begin: a carriage return and a line feed end one together.   *)
Beginnings ==
    {1} \union {i + 1 : i \in {j \in DOMAIN text :
        text[j] = NL \/ (text[j] = CR /\ (j = Len(text) \/ text[j + 1] # NL))}}

(* Every token is where it says: behind as many line ends and, from the     *)
(* last of them, as many characters, literals over several lines counted.   *)
PositionsAgree ==
    \A token \in {tokens[i] : i \in DOMAIN tokens} :
        LET before == {b \in Beginnings : b <= token.from}
        IN  /\ token.line = Cardinality(before)
            /\ \E b \in before : token.column = token.from - b + 1 /\ \A c \in before : c <= b

(* The loop goes on until the end and stops there: a turn consumes          *)
(* characters, or it is the last one, at the end of the text.               *)
Consumes ==
    \/ here'.at > here.at /\ UNCHANGED done
    \/ AtEnd(here) /\ UNCHANGED here /\ ~done /\ done'

EveryTurnConsumes == [][Consumes]_vars

=============================================================================
