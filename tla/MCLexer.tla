------------------------------ MODULE MCLexer ------------------------------
(***************************************************************************)
(* Texts to lex: for each construct, every text over the characters it     *)
(* turns on, some of them behind a beginning that would be too long to     *)
(* enumerate.                                                              *)
(***************************************************************************)
EXTENDS CTokens, SequencesExt

Behind(first, alphabet, most) == {Characters(first) \o t : t \in BoundedSeq(alphabet, most)}

TextsOver(alphabet, most) == Behind("", alphabet, most)

MCTexts ==
    UNION {TextsOver({"0", "9", "x", ".", "e", "+"}, 4),               \* numbers
           Behind("1.", {"5", "e", "+", "f", "."}, 4),                 \* floating
           Behind("0", {"1", "8", "u", "L", "f", ".", "e"}, 3),        \* octal or not
           Behind("0x", {"1", "e", ".", "p", "-", "L"}, 4),            \* hexadecimal
           Behind("0b", {"1", "2", "b", "u", ".", " "}, 3),            \* binary
           TextsOver({"\"", "'", "\\", "0", "u", NL, CR}, 4),         \* literals over lines
           TextsOver({"\"", "u", "8", "U", "L", "'"}, 4),              \* prefixes
           Behind("\"\\u", {"a", "8", "\"", "g"}, 5),                  \* escapes by number
           Behind("\"\\U00000", {"a", "\"", "x"}, 4),
           Behind("'\\", {"x", "0", "8", "'", "NUL", "q"}, 4),
           TextsOver({"/", "*", "a", NL, CR}, 5),                      \* comments
           Behind("/*", {"/", "*", NL, "="}, 4),
           TextsOver({"<", ">", "=", "%", ":"}, 4),                    \* punctuators
           Behind("%", {"%", ":", ">", "="}, 4),
           TextsOver({".", "+", "-", "#", "&", "|", "=", "1"}, 3),
           TextsOver({"!", "~", "^", "?", ",", ";", "(", "@", "NUL"}, 2),
           TextsOver({"i", "f", "o", "d", "_", "1", " "}, 3),          \* words
           Behind("_Static_asser", {"t", "_", " "}, 2)}

=============================================================================
